--------------------------- MODULE Serial_proofs ---------------------------
(***************************************************************************)
(* Proofs about the paths a byte takes through the FIFOs: over the NFC     *)
(* link between two serial ports (NfcBridge), out of the USB serial port   *)
(* (UsbCom), and into the buffers in which the parsers look for hexadecimal*)
(* (HexCmd) and text (StringCmd) commands; and about the host of a colour  *)
(* analyser on a serial port (Ca310).                                      *)
(***************************************************************************)
EXTENDS NfcBridge, UsbCom, HexCmd, StringCmd, Ca310, Lemmas, FiniteSetTheorems

-----------------------------------------------------------------------------
(***************************************************************************)
(* What both serial paths do to LossyStream's bytes.                       *)
(***************************************************************************)

\* The bytes that come out when those that wait are w and then v, and those that came
\* out o and then u.
Delivers(w, v, o, u) ==
  LET new == Len(o) + 1 .. Len(u)
  IN  /\ u \in Seq(Nat)
      /\ \A k \in 1 .. Len(o) : k <= Len(u) /\ u[k] = o[k]
      /\ \A k \in new : u[k] \in w
      /\ \A j, k \in new : j < k => u[j] < u[k]
      /\ v = {n \in w : \A k \in new : u[k] < n}

\* The first of the bytes that wait come out behind the others.
LEMMA FirstComeOut ==
  ASSUME NEW o \in Runs(Nat), NEW s \in Runs(Nat), NEW n \in Nat, Rises(Then(o, s), n),
         NEW w, NEW v, w = Range(s) \cup v, \A x \in Range(s), y \in v : x < y
  PROVE  Delivers(w, v, o, Then(o, s))
<1> DEFINE u == Then(o, s)
<1>1. /\ Len(o) \in Nat /\ Len(s) \in Nat /\ DOMAIN s = 1 .. Len(s)
      /\ \A i \in 1 .. Len(o) : u[i] = o[i]
      /\ \A i \in 1 .. Len(s) : u[Len(o) + i] = s[i]
  BY ThenElements
<1>2. Len(u) = Len(o) + Len(s)
  BY ThenLength
<1>3. Rises(s, n)
  BY RisesApart
<1> HIDE DEF u
<1> DEFINE new == Len(o) + 1 .. Len(u)
<1>4. \A k \in new : k - Len(o) \in DOMAIN s /\ u[k] = s[k - Len(o)]
  <2> TAKE k \in new
  <2>1. k - Len(o) \in 1 .. Len(s) /\ Len(o) + (k - Len(o)) = k
    BY <1>1, <1>2
  <2> QED
    BY <1>1, <2>1
<1>5. \A i \in DOMAIN s : Len(o) + i \in new /\ u[Len(o) + i] = s[i]
  BY <1>1, <1>2
<1>6. \A k \in 1 .. Len(o) : k <= Len(u) /\ u[k] = o[k]
  BY <1>1, <1>2
<1>7. \A j, k \in new : j < k => u[j] < u[k]
  <2>1. \A j, k \in new : j < k => j - Len(o) < k - Len(o)
    BY <1>1
  <2> HIDE DEF new
  <2> QED
    BY <1>3, <1>4, <2>1 DEF Rises
<1> HIDE DEF new
<1>8. \A x : x \in Range(s) <=> \E k \in new : u[k] = x
  <2>1. \A x : x \in Range(s) <=> \E i \in DOMAIN s : s[i] = x
    BY DEF Range
  <2> QED
    BY <1>4, <1>5, <2>1
<1>9. \A x \in Range(s) : x \in Nat
  <2>1. \A i \in DOMAIN s : s[i] \in Nat
    BY <1>1, ElementOfSeq DEF Runs
  <2> QED
    BY <2>1 DEF Range
<1>10. \A x \in w : x \in v <=> \A k \in new : u[k] < x
  <2>1. \A x \in Range(s) : ~(x < x)
    BY <1>9
  <2> QED
    BY <1>8, <2>1
<1>11. v = {x \in w : \A k \in new : u[k] < x}
  BY <1>10, Zenon
<1>12. \A k \in new : u[k] \in w
  BY <1>8
<1>13. u \in Seq(Nat)
  BY ThenIsRun DEF u, Runs
<1> QED
  BY <1>6, <1>7, <1>11, <1>12, <1>13 DEF Delivers, u, new

-----------------------------------------------------------------------------
(***************************************************************************)
(* NfcBridge: for any lengths of FIFOs and frames, what comes out of one   *)
(* board's port went into the other's, in its order and once; and what is  *)
(* missing is no more than one frame for each exchange that failed.        *)
(***************************************************************************)

\* What a board's pipe is made of: what came out, what waits in the other
\* board's FIFO, on the air, in the thread's buffer and in the FIFO.
Joined(p, r, a, f, q) == Then(Then(Then(Then(p, r), a), f), q)

\* A pipe is as long as its parts.
LEMMA JoinedLength ==
  ASSUME NEW S, NEW p \in Runs(S), NEW r \in Runs(S), NEW a \in Runs(S),
         NEW f \in Runs(S), NEW q \in Runs(S)
  PROVE  /\ Joined(p, r, a, f, q) \in Runs(S)
         /\ Len(Joined(p, r, a, f, q)) = Len(p) + Len(r) + Len(a) + Len(f) + Len(q)
<1> DEFINE one == Then(p, r)
           two == Then(one, a)
           three == Then(two, f)
           four == Then(three, q)
<1>0. Len(p) \in Nat /\ Len(r) \in Nat /\ Len(a) \in Nat /\ Len(f) \in Nat /\ Len(q) \in Nat
  BY LenProperties DEF Runs
<1>1. one \in Runs(S) /\ Len(one) = Len(p) + Len(r)
  BY ThenIsRun, ThenLength
<1>2. two \in Runs(S) /\ Len(two) = Len(one) + Len(a)
  BY <1>1, ThenIsRun, ThenLength
<1>3. three \in Runs(S) /\ Len(three) = Len(two) + Len(f)
  BY <1>2, ThenIsRun, ThenLength
<1>4. four \in Runs(S) /\ Len(four) = Len(three) + Len(q)
  BY <1>3, ThenIsRun, ThenLength
<1>5. Joined(p, r, a, f, q) = four
  BY DEF Joined
<1> HIDE DEF one, two, three, four
<1> QED
  BY <1>0, <1>1, <1>2, <1>3, <1>4, <1>5

\* SerialOut moves the bytes of the FIFO behind those that came out.
LEMMA JoinedOut ==
  ASSUME NEW S, NEW p \in Runs(S), NEW r \in Runs(S), NEW a, NEW f, NEW q
  PROVE  Joined(Then(p, r), <<>>, a, f, q) = Joined(p, r, a, f, q)
BY ThenIsRun, ThenEmpty DEF Joined

\* Take cuts the FIFO's bytes in two, Send moves the buffer's to the air.
LEMMA JoinedTake ==
  ASSUME NEW S, NEW p \in Runs(S), NEW r \in Runs(S), NEW a \in Runs(S),
         NEW f \in Runs(S), NEW q \in Runs(S)
  PROVE  Joined(p, r, a, <<>>, Then(f, q)) = Joined(p, r, a, f, q)
<1> DEFINE front == Then(Then(p, r), a)
<1>1. front \in Runs(S)
  BY ThenIsRun
<1>2. Joined(p, r, a, <<>>, Then(f, q)) = Then(front, Then(f, q))
  BY <1>1, ThenEmpty DEF Joined
<1>3. Joined(p, r, a, f, q) = Then(Then(front, f), q)
  BY DEF Joined
<1> HIDE DEF front
<1> QED
  BY <1>1, <1>2, <1>3, ThenAssociates

\* What is sent goes from the thread's buffer to the air.
LEMMA JoinedSend ==
  ASSUME NEW S, NEW p \in Runs(S), NEW r \in Runs(S), NEW f \in Runs(S), NEW q
  PROVE  Joined(p, r, f, <<>>, q) = Joined(p, r, <<>>, f, q)
BY ThenIsRun, ThenEmpty DEF Joined

\* What is cut out of it on the air or in the buffer leaves the rest in order.
LEMMA JoinedCut ==
  ASSUME NEW S, S \subseteq Nat, NEW n \in Nat,
         NEW p \in Runs(S), NEW r \in Runs(S), NEW x \in Runs(S), NEW y \in Runs(S),
         NEW f \in Runs(S), NEW q \in Runs(S),
         Rises(Joined(p, r, Then(x, y), f, q), n)
  PROVE  Rises(Joined(p, Then(r, x), <<>>, f, q), n)
<1> DEFINE front == Then(Then(p, r), x)
           back == Then(f, q)
<1>1. front \in Runs(S) /\ back \in Runs(S)
  BY ThenIsRun
<1>2. Then(Then(p, r), Then(x, y)) = Then(front, y) /\ Then(front, y) \in Runs(S)
  <2>1. Then(p, r) \in Runs(S)
    BY ThenIsRun
  <2>2. Then(front, y) \in Runs(S)
    BY <1>1, ThenIsRun
  <2> QED
    BY <2>1, <2>2, ThenAssociates
<1>3. Then(p, Then(r, x)) = front /\ Then(front, <<>>) = front
  BY <1>1, ThenAssociates, ThenEmpty
<1>4. Joined(p, r, Then(x, y), f, q) = Then(Then(Then(front, y), f), q)
  BY <1>2 DEF Joined
<1>5. Joined(p, Then(r, x), <<>>, f, q) = Then(Then(front, f), q)
  BY <1>3 DEF Joined
<1> HIDE DEF front
<1>6. Rises(Then(Then(front, y), back), n)
  BY <1>2, <1>4, ThenAssociates
<1>7. Then(Then(front, f), q) = Then(front, back)
  BY <1>1, ThenAssociates
<1> HIDE DEF back
<1> QED
  BY <1>1, <1>5, <1>6, <1>7, ThenCut

\* A pipe still rises when what is on the air is lost, ...
LEMMA JoinedFade ==
  ASSUME NEW S, S \subseteq Nat, NEW n \in Nat,
         NEW p \in Runs(S), NEW r \in Runs(S), NEW a \in Runs(S),
         NEW f \in Runs(S), NEW q \in Runs(S),
         Rises(Joined(p, r, a, f, q), n)
  PROVE  Rises(Joined(p, r, <<>>, f, q), n)
<1>1. <<>> \in Runs(S) /\ Then(<<>>, a) = a /\ Then(r, <<>>) = r
  BY ThenEmpty
<1> QED
  BY <1>1, JoinedCut

\* ... or what is in the buffer.
LEMMA JoinedForget ==
  ASSUME NEW S, S \subseteq Nat, NEW n \in Nat,
         NEW p \in Runs(S), NEW r \in Runs(S), NEW a \in Runs(S),
         NEW f \in Runs(S), NEW q \in Runs(S),
         Rises(Joined(p, r, a, f, q), n)
  PROVE  Rises(Joined(p, r, a, <<>>, q), n)
<1> DEFINE front == Then(Then(p, r), a)
<1>1. front \in Runs(S)
  BY ThenIsRun
<1>2. Joined(p, r, a, f, q) = Then(Then(front, f), q) /\ Joined(p, r, a, <<>>, q) = Then(front, q)
  BY <1>1, ThenEmpty DEF Joined
<1>3. Rises(Then(Then(front, f), q), n)
  BY <1>2
<1> HIDE DEF front
<1>4. Rises(Then(front, q), n)
  BY <1>1, <1>3, ThenCut
<1> QED
  BY <1>2, <1>4

\* The next byte is behind all the others.
LEMMA JoinedIn ==
  ASSUME NEW S, S \subseteq Nat, NEW n \in Nat, n + 1 \in S,
         NEW p \in Runs(S), NEW r \in Runs(S), NEW a \in Runs(S),
         NEW f \in Runs(S), NEW q \in Runs(S),
         Rises(Joined(p, r, a, f, q), n)
  PROVE  Rises(Joined(p, r, a, f, Append(q, n + 1)), n + 1)
<1> DEFINE one == <<n + 1>>
           all == Joined(p, r, a, f, q)
<1>1. one \in Runs(S) /\ Append(q, n + 1) = Then(q, one)
  BY ThenAppend
<1>2. all \in Runs(S)
  BY JoinedLength
<1>3. Append(all, n + 1) = Then(all, one)
  BY <1>2, ThenAppend
<1>4. Joined(p, r, a, f, Then(q, one)) = Then(all, one)
  <2> DEFINE front == Then(Then(Then(p, r), a), f)
  <2>1. front \in Runs(S)
    BY ThenIsRun
  <2>2. all = Then(front, q) /\ Joined(p, r, a, f, Then(q, one)) = Then(front, Then(q, one))
    BY DEF Joined
  <2> HIDE DEF front, one, all
  <2> QED
    BY <1>1, <2>1, <2>2, ThenAssociates
<1>5. Rises(Append(all, n + 1), n + 1)
  <2>1. S \in SUBSET Nat /\ all \in Seq(S) /\ Rises(all, n)
    BY <1>2 DEF Runs
  <2> HIDE DEF all
  <2> QED
    BY <2>1, Grow
<1> QED
  BY <1>1, <1>3, <1>4, <1>5

-----------------------------------------------------------------------------

\* NfcTypeOK without a bound on what is dropped.
NfcShapes ==
  /\ nfcPc \in [Boards -> {"connect", "take", "send", "receive"}]
  /\ sendFifo \in [Boards -> Streams] /\ \A b \in Boards : Len(sendFifo[b]) <= NfcFifoLen
  /\ recFifo \in [Boards -> Streams] /\ \A b \in Boards : Len(recFifo[b]) <= NfcFifoLen
  /\ buffer \in [Boards -> Streams] /\ air \in [by : Boards \cup {"none"}, bytes : Streams]
  /\ came \in [Boards -> 0..MaxBytes] /\ dropped \in [Boards -> Nat]
  /\ fails \in 0..MaxFails /\ put \in [Boards -> Streams]

\* Only one board at a time is not listening, and then the air is free.
Turns ==
  \A b \in Boards :
    /\ nfcPc[b] \in {"take", "send"} => nfcPc[Other(b)] \in {"receive", "connect"} /\ air = Silent
    /\ air.by = b => \A c \in Boards : nfcPc[c] \in {"receive", "connect"}
    /\ nfcPc[b] # "send" => buffer[b] = <<>>

Chunks ==
  /\ air.by = "none" => air.bytes = <<>>
  /\ Len(air.bytes) <= ChunkLen /\ \A b \in Boards : Len(buffer[b]) <= ChunkLen

InOrder == \A b \in Boards : Rises(Pipe(b), came[b])

\* A board connects anew and the other has not noticed: what it sends is lost.
Unnoticed ==
  \E b \in Boards : /\ nfcPc[b] = "connect"
                    /\ nfcPc[Other(b)] \in {"take", "send"} \/ air # Silent

Owed == IF Unnoticed THEN ChunkLen ELSE 0

\* Every failed exchange pays for one frame, lost already or still to be lost.
Paid ==
  /\ Lost("initiator") + Lost("target") + Owed <= fails * ChunkLen
  /\ \A b \in Boards : Lost(b) >= 0

NfcInv == NfcShapes /\ Turns /\ Chunks /\ InOrder /\ Paid

-----------------------------------------------------------------------------

\* There are two boards.
LEMMA OtherBoard ==
  \A b \in Boards : /\ Other(b) \in Boards /\ Other(b) # b /\ Other(Other(b)) = b
                    /\ Boards = {b, Other(b)}
BY DEF Boards, Other

OnAir(b) == IF air.by = b THEN air.bytes ELSE <<>>

\* A pipe is made of its five parts.
LEMMA PipeIs ==
  NfcShapes => \A b \in Boards :
    /\ put[Other(b)] \in Runs(1..MaxBytes) /\ recFifo[Other(b)] \in Runs(1..MaxBytes)
    /\ OnAir(b) \in Runs(1..MaxBytes) /\ buffer[b] \in Runs(1..MaxBytes)
    /\ sendFifo[b] \in Runs(1..MaxBytes)
    /\ Pipe(b) = Joined(put[Other(b)], recFifo[Other(b)], OnAir(b), buffer[b], sendFifo[b])
<1> SUFFICES ASSUME NfcShapes, NEW b \in Boards
             PROVE  /\ put[Other(b)] \in Runs(1..MaxBytes) /\ recFifo[Other(b)] \in Runs(1..MaxBytes)
                    /\ OnAir(b) \in Runs(1..MaxBytes) /\ buffer[b] \in Runs(1..MaxBytes)
                    /\ sendFifo[b] \in Runs(1..MaxBytes)
                    /\ Pipe(b) = Joined(put[Other(b)], recFifo[Other(b)], OnAir(b), buffer[b], sendFifo[b])
  OBVIOUS
<1>1. Other(b) \in Boards
  BY OtherBoard
<1>2. <<>> \in Runs(1..MaxBytes)
  BY ThenEmpty
<1>3. Pipe(b) = Joined(put[Other(b)], recFifo[Other(b)], OnAir(b), buffer[b], sendFifo[b])
  BY DEF Pipe, Joined, Then, OnAir
<1> QED
  BY <1>1, <1>2, <1>3 DEF NfcShapes, OnAir, Runs, Streams

\* The lengths of a pipe and of its parts.
LEMMA PipeLength ==
  NfcShapes => \A b \in Boards :
    /\ Len(Pipe(b)) = Len(put[Other(b)]) + Len(recFifo[Other(b)]) + Len(OnAir(b))
                         + Len(buffer[b]) + Len(sendFifo[b])
    /\ Len(put[Other(b)]) \in Nat /\ Len(recFifo[Other(b)]) \in Nat /\ Len(OnAir(b)) \in Nat
    /\ Len(buffer[b]) \in Nat /\ Len(sendFifo[b]) \in Nat
    /\ Pipe(b) \in Seq(1..MaxBytes)
<1> SUFFICES ASSUME NfcShapes, NEW b \in Boards
             PROVE  /\ Len(Pipe(b)) = Len(put[Other(b)]) + Len(recFifo[Other(b)]) + Len(OnAir(b))
                                        + Len(buffer[b]) + Len(sendFifo[b])
                    /\ Len(put[Other(b)]) \in Nat /\ Len(recFifo[Other(b)]) \in Nat /\ Len(OnAir(b)) \in Nat
                    /\ Len(buffer[b]) \in Nat /\ Len(sendFifo[b]) \in Nat
                    /\ Pipe(b) \in Seq(1..MaxBytes)
  OBVIOUS
<1>1. \A s \in Runs(1..MaxBytes) : Len(s) \in Nat
  BY LenProperties DEF Runs
<1>2. /\ put[Other(b)] \in Runs(1..MaxBytes) /\ recFifo[Other(b)] \in Runs(1..MaxBytes)
      /\ OnAir(b) \in Runs(1..MaxBytes) /\ buffer[b] \in Runs(1..MaxBytes)
      /\ sendFifo[b] \in Runs(1..MaxBytes)
      /\ Pipe(b) = Joined(put[Other(b)], recFifo[Other(b)], OnAir(b), buffer[b], sendFifo[b])
  BY PipeIs
<1>3. /\ Pipe(b) \in Runs(1..MaxBytes)
      /\ Len(Pipe(b)) = Len(put[Other(b)]) + Len(recFifo[Other(b)]) + Len(OnAir(b))
                          + Len(buffer[b]) + Len(sendFifo[b])
  <2>1. \A p, r, a, f, q \in Runs(1..MaxBytes) :
          /\ Joined(p, r, a, f, q) \in Runs(1..MaxBytes)
          /\ Len(Joined(p, r, a, f, q)) = Len(p) + Len(r) + Len(a) + Len(f) + Len(q)
    BY JoinedLength
  <2>2. PICK p, r, a, f, q \in Runs(1..MaxBytes) :
          /\ p = put[Other(b)] /\ r = recFifo[Other(b)] /\ a = OnAir(b) /\ f = buffer[b] /\ q = sendFifo[b]
    BY <1>2
  <2>3. Pipe(b) = Joined(p, r, a, f, q)
    BY <1>2, <2>2
  <2>4. Pipe(b) \in Runs(1..MaxBytes)
    BY <2>1, <2>3
  <2>5. Len(Pipe(b)) = Len(p) + Len(r) + Len(a) + Len(f) + Len(q)
    BY <2>1, <2>3
  <2> QED
    BY <2>2, <2>4, <2>5
<1>4. Pipe(b) \in Seq(1..MaxBytes)
  BY <1>3 DEF Runs
<1>5. /\ Len(put[Other(b)]) \in Nat /\ Len(recFifo[Other(b)]) \in Nat /\ Len(OnAir(b)) \in Nat
      /\ Len(buffer[b]) \in Nat /\ Len(sendFifo[b]) \in Nat
  BY <1>1, <1>2
<1> QED
  BY <1>3, <1>4, <1>5

\* What is lost, counted where it is missing.
LEMMA LostIs ==
  NfcShapes => \A b \in Boards :
    /\ Lost(b) \in Int
    /\ Lost(b) = came[b] - dropped[b] - Len(put[Other(b)]) - Len(recFifo[Other(b)]) - Len(OnAir(b))
                   - Len(buffer[b]) - Len(sendFifo[b])
    /\ Lost("initiator") + Lost("target") = Lost(b) + Lost(Other(b))
<1> SUFFICES ASSUME NfcShapes PROVE
    \A b \in Boards :
    /\ Lost(b) \in Int
    /\ Lost(b) = came[b] - dropped[b] - Len(put[Other(b)]) - Len(recFifo[Other(b)]) - Len(OnAir(b))
                   - Len(buffer[b]) - Len(sendFifo[b])
    /\ Lost("initiator") + Lost("target") = Lost(b) + Lost(Other(b))
  OBVIOUS
<1>1. ASSUME NEW b \in Boards
      PROVE  /\ Lost(b) \in Int
             /\ Lost(b) = came[b] - dropped[b] - Len(put[Other(b)]) - Len(recFifo[Other(b)]) - Len(OnAir(b))
                            - Len(buffer[b]) - Len(sendFifo[b])
  <2>1. came[b] \in Nat /\ dropped[b] \in Nat
    BY NfcAssumption DEF NfcShapes
  <2>2. /\ Len(Pipe(b)) = Len(put[Other(b)]) + Len(recFifo[Other(b)]) + Len(OnAir(b))
                            + Len(buffer[b]) + Len(sendFifo[b])
        /\ Len(put[Other(b)]) \in Nat /\ Len(recFifo[Other(b)]) \in Nat /\ Len(OnAir(b)) \in Nat
        /\ Len(buffer[b]) \in Nat /\ Len(sendFifo[b]) \in Nat
    BY PipeLength
  <2>3. Lost(b) = came[b] - Len(Pipe(b)) - dropped[b]
    BY DEF Lost
  <2> QED
    <3> DEFINE p == Len(put[Other(b)])
               r == Len(recFifo[Other(b)])
               a == Len(OnAir(b))
               f == Len(buffer[b])
               q == Len(sendFifo[b])
               all == Len(Pipe(b))
    <3>1. all = p + r + a + f + q /\ p \in Nat /\ r \in Nat /\ a \in Nat /\ f \in Nat /\ q \in Nat
      BY <2>2
    <3>2. Lost(b) = came[b] - all - dropped[b]
      BY <2>3
    <3> HIDE DEF p, r, a, f, q, all
    <3>3. Lost(b) \in Int /\ Lost(b) = came[b] - dropped[b] - p - r - a - f - q
      BY <2>1, <3>1, <3>2
    <3> QED
      BY <3>3 DEF p, r, a, f, q
<1>2. ASSUME NEW b \in Boards
      PROVE  Lost("initiator") + Lost("target") = Lost(b) + Lost(Other(b))
  <2>1. Lost("initiator") \in Int /\ Lost("target") \in Int
    BY <1>1 DEF Boards
  <2>2. (b = "initiator" /\ Other(b) = "target") \/ (b = "target" /\ Other(b) = "initiator")
    BY DEF Boards, Other
  <2> HIDE DEF Lost
  <2> QED
    BY <2>1, <2>2
<1> QED
  BY <1>1, <1>2

\* What the assumption says of the constants.
LEMMA NfcConstants ==
  /\ NfcFifoLen \in Nat /\ ChunkLen \in Nat /\ MaxBytes \in Nat /\ MaxFails \in Nat
  /\ 1..MaxBytes \subseteq Nat
BY NfcAssumption

-----------------------------------------------------------------------------
(***************************************************************************)
(* Who talks, and how much.                                                *)
(***************************************************************************)

\* The least of two numbers.
LEMMA LeastIs ==
  \A m, n \in Nat : Least(m, n) \in Nat /\ Least(m, n) <= m /\ Least(m, n) <= n
BY DEF Least

\* What a board takes from its FIFO, and what it leaves there.
LEMMA TakeCuts ==
  ASSUME NfcShapes, NEW b \in Boards
  PROVE  LET n == Least(ChunkLen, Len(sendFifo[b]))
         IN  /\ n \in Nat /\ n <= ChunkLen /\ n <= Len(sendFifo[b])
             /\ SubSeq(sendFifo[b], 1, n) \in Streams /\ Len(SubSeq(sendFifo[b], 1, n)) = n
             /\ SubSeq(sendFifo[b], n + 1, Len(sendFifo[b])) \in Streams
             /\ Len(SubSeq(sendFifo[b], n + 1, Len(sendFifo[b]))) = Len(sendFifo[b]) - n
             /\ SubSeq(sendFifo[b], 1, n) \o SubSeq(sendFifo[b], n + 1, Len(sendFifo[b])) = sendFifo[b]
<1> DEFINE s == sendFifo[b]
           n == Least(ChunkLen, Len(s))
<1>1. s \in Seq(1..MaxBytes)
  BY DEF NfcShapes, Streams
<1>2. Len(s) \in Nat
  BY <1>1, LenProperties
<1>3. n \in 0 .. Len(s) /\ n <= ChunkLen
  <2>1. n \in Nat /\ n <= ChunkLen /\ n <= Len(s)
    BY <1>2, LeastIs, NfcConstants
  <2> HIDE DEF n, s
  <2> QED
    BY <1>2, <2>1
<1> HIDE DEF s, n
<1>4. /\ SubSeq(s, 1, n) \in Seq(1..MaxBytes) /\ Len(SubSeq(s, 1, n)) = n
      /\ SubSeq(s, n + 1, Len(s)) \in Seq(1..MaxBytes) /\ Len(SubSeq(s, n + 1, Len(s))) = Len(s) - n
      /\ SubSeq(s, 1, n) \o SubSeq(s, n + 1, Len(s)) = s
  BY <1>1, <1>3, CutInTwo
<1>5. n \in Nat /\ n <= ChunkLen /\ n <= Len(s)
  BY <1>2, <1>3
<1> USE DEF s, n, Streams
<1> QED
  BY <1>4, <1>5, Zenon

\* What fits into a FIFO of the bytes that were heard.
LEMMA FitsCuts ==
  ASSUME NfcShapes, NEW b \in Boards
  PROVE  /\ Fits(b) \in Nat /\ Fits(b) <= Len(air.bytes)
         /\ Len(recFifo[b]) + Fits(b) <= NfcFifoLen
         /\ SubSeq(air.bytes, 1, Fits(b)) \in Streams /\ Len(SubSeq(air.bytes, 1, Fits(b))) = Fits(b)
         /\ \E rest \in Streams : SubSeq(air.bytes, 1, Fits(b)) \o rest = air.bytes
<1> DEFINE s == air.bytes
           n == Fits(b)
<1>1. s \in Seq(1..MaxBytes) /\ recFifo[b] \in Seq(1..MaxBytes) /\ Len(recFifo[b]) <= NfcFifoLen
  BY DEF NfcShapes, Streams
<1>2. Len(s) \in Nat /\ Len(recFifo[b]) \in Nat
  BY <1>1, LenProperties
<1>3. n \in 0 .. Len(s) /\ Len(recFifo[b]) + n <= NfcFifoLen
  <2> DEFINE m == Len(s)
             k == Len(recFifo[b])
  <2>1. m \in Nat /\ k \in Nat /\ k <= NfcFifoLen
    BY <1>1, <1>2
  <2>2. n = IF NfcFifoLen - k < m THEN NfcFifoLen - k ELSE m
    BY DEF Fits, Least
  <2> HIDE DEF m, k, n
  <2>3. n \in 0 .. m /\ k + n <= NfcFifoLen
    BY <2>1, <2>2, NfcConstants
  <2> QED
    BY <2>3 DEF m, k
<1> HIDE DEF s, n
<1>4. /\ SubSeq(s, 1, n) \in Seq(1..MaxBytes) /\ Len(SubSeq(s, 1, n)) = n
      /\ SubSeq(s, n + 1, Len(s)) \in Seq(1..MaxBytes)
      /\ SubSeq(s, 1, n) \o SubSeq(s, n + 1, Len(s)) = s
  BY <1>1, <1>3, CutInTwo
<1>5. n \in Nat /\ n <= Len(s)
  BY <1>2, <1>3
<1>6. Len(recFifo[b]) + n <= NfcFifoLen
  BY <1>3
<1>7. \E rest \in Seq(1..MaxBytes) : SubSeq(s, 1, n) \o rest = s
  BY <1>4, Zenon
<1> USE DEF s, n, Streams
<1> QED
  BY <1>4, <1>5, <1>6, <1>7, Zenon


\* The parts of the invariant that say who talks.
Talk == NfcShapes /\ Turns /\ Chunks

\* Who talks, when the boards find each other, ...
LEMMA ConnectTalks ==
  ASSUME Talk, Connect
  PROVE  Talk'
<1> USE NfcConstants DEF Connect, Talk
<1>1. NfcShapes'
  BY DEF NfcShapes, Silent, Boards, Streams
<1>2. Turns'
  BY OtherBoard DEF NfcShapes, Turns, Silent, Boards
<1>3. Chunks'
  BY DEF NfcShapes, Chunks, Turns, Silent, Boards
<1> QED
  BY <1>1, <1>2, <1>3

\* ... when nobody listens to a frame, ...
LEMMA UnheardTalks ==
  ASSUME Talk, Unheard
  PROVE  Talk'
<1> USE NfcConstants DEF Unheard, Talk
<1>1. NfcShapes'
  BY DEF NfcShapes, Silent, Boards, Streams
<1>2. Turns'
  BY OtherBoard DEF NfcShapes, Turns, Silent, Boards
<1>3. Chunks'
  BY DEF NfcShapes, Chunks, Turns, Silent, Boards
<1> QED
  BY <1>1, <1>2, <1>3

\* ... when the frame on the air is lost, ...
LEMMA FadeTalks ==
  ASSUME Talk, Fade
  PROVE  Talk'
<1> USE NfcConstants DEF Fade, Talk
<1>1. NfcShapes'
  BY DEF NfcShapes, Silent, Boards, Streams
<1>2. Turns'
  BY OtherBoard DEF NfcShapes, Turns, Silent, Boards
<1>3. Chunks'
  BY DEF NfcShapes, Chunks, Turns, Silent, Boards
<1> QED
  BY <1>1, <1>2, <1>3

\* ... when sending fails, ...
LEMMA SendFailsTalks ==
  ASSUME Talk, SendFails
  PROVE  Talk'
<1> USE NfcConstants DEF SendFails, Talk
<1>1. NfcShapes'
  BY DEF NfcShapes, Silent, Boards, Streams
<1>2. Turns'
  BY OtherBoard DEF NfcShapes, Turns, Silent, Boards
<1>3. Chunks'
  BY DEF NfcShapes, Chunks, Turns, Silent, Boards
<1> QED
  BY <1>1, <1>2, <1>3

\* ... when a byte comes from the serial port, ...
LEMMA SerialInTalks ==
  ASSUME Talk, NEW b \in Boards, SerialIn(b)
  PROVE  Talk'
<1> USE NfcConstants DEF SerialIn, Talk
<1>1. NfcShapes'
  <2>1. /\ came[b] \in 0..MaxBytes /\ came[b] < MaxBytes /\ came' = [came EXCEPT ![b] = @ + 1]
        /\ came' \in [Boards -> 0..MaxBytes] /\ came'[b] \in 1..MaxBytes
    <3>1. /\ came \in [Boards -> 0..MaxBytes] /\ came[b] \in 0..MaxBytes /\ came[b] < MaxBytes
          /\ came' = [came EXCEPT ![b] = came[b] + 1]
      BY DEF NfcShapes
    <3>2. came[b] + 1 \in 1..MaxBytes /\ came[b] + 1 \in 0..MaxBytes
      BY <3>1
    <3>3. came'[b] = came[b] + 1
      BY <3>1
    <3>4. came' \in [Boards -> 0..MaxBytes]
      <4> HIDE DEF SerialIn, Talk
      <4> QED
        BY <3>1, <3>2
    <3> QED
      BY <3>1, <3>2, <3>3, <3>4
  <2>2. CASE Len(sendFifo[b]) < NfcFifoLen
    <3> DEFINE s == Append(sendFifo[b], came'[b])
    <3>1. sendFifo[b] \in Seq(1..MaxBytes) /\ Len(sendFifo[b]) \in Nat
      BY LenProperties DEF NfcShapes, Streams
    <3>2. s \in Seq(1..MaxBytes) /\ Len(s) = Len(sendFifo[b]) + 1
      BY <2>1, <3>1, AppendProperties
    <3>3. s \in Streams /\ Len(s) <= NfcFifoLen
      BY <2>2, <3>1, <3>2 DEF Streams
    <3>4. sendFifo' = [sendFifo EXCEPT ![b] = s] /\ dropped' = dropped
      BY <2>2
    <3> HIDE DEF s
    <3> QED
      BY <2>1, <3>3, <3>4 DEF NfcShapes
  <2>3. CASE ~(Len(sendFifo[b]) < NfcFifoLen)
    <3>1. dropped' = [dropped EXCEPT ![b] = dropped[b] + 1] /\ sendFifo' = sendFifo
      BY <2>3
    <3>2. UNCHANGED <<nfcPc, recFifo, buffer, air, fails, put>>
      OBVIOUS
    <3> HIDE DEF SerialIn
    <3> QED
      BY <2>1, <3>1, <3>2 DEF NfcShapes
  <2> QED
    BY <2>2, <2>3
<1>2. Turns'
  BY OtherBoard DEF NfcShapes, Turns, Silent, Boards
<1>3. Chunks'
  BY DEF NfcShapes, Chunks, Turns, Silent, Boards
<1> QED
  BY <1>1, <1>2, <1>3

\* ... when bytes leave through it, ...
LEMMA SerialOutTalks ==
  ASSUME Talk, NEW b \in Boards, SerialOut(b)
  PROVE  Talk'
<1> USE NfcConstants DEF SerialOut, Talk
<1>1. NfcShapes'
  <2> DEFINE s == put[b] \o recFifo[b]
  <2>1. put[b] \in Seq(1..MaxBytes) /\ recFifo[b] \in Seq(1..MaxBytes)
    BY DEF NfcShapes, Streams
  <2>2. s \in Streams
    BY <2>1, ConcatProperties DEF Streams
  <2>3. <<>> \in Streams /\ Len(<<>>) <= NfcFifoLen
    BY EmptySeq DEF Streams
  <2>4. /\ put' = [put EXCEPT ![b] = s] /\ recFifo' = [recFifo EXCEPT ![b] = <<>>]
        /\ UNCHANGED <<nfcPc, sendFifo, buffer, air, came, dropped, fails>>
    OBVIOUS
  <2> HIDE DEF s, SerialOut
  <2>5. put' \in [Boards -> Streams]
    BY <2>2, <2>4 DEF NfcShapes
  <2>6. recFifo' \in [Boards -> Streams] /\ \A c \in Boards : Len(recFifo'[c]) <= NfcFifoLen
    BY <2>3, <2>4 DEF NfcShapes
  <2> QED
    BY <2>4, <2>5, <2>6 DEF NfcShapes
<1>2. Turns'
  BY OtherBoard DEF NfcShapes, Turns, Silent, Boards
<1>3. Chunks'
  BY DEF NfcShapes, Chunks, Turns, Silent, Boards
<1> QED
  BY <1>1, <1>2, <1>3

\* ... when bytes are taken to be sent, ...
LEMMA TakeTalks ==
  ASSUME Talk, NEW b \in Boards, Take(b)
  PROVE  Talk'
<1> USE NfcConstants DEF Take, Talk
<1> DEFINE n == Least(ChunkLen, Len(sendFifo[b]))
           s == SubSeq(sendFifo[b], 1, n)
           t == SubSeq(sendFifo[b], n + 1, Len(sendFifo[b]))
<1>0. s \in Streams /\ t \in Streams /\ Len(s) <= ChunkLen /\ Len(t) <= NfcFifoLen
  <2>1. /\ n \in Nat /\ n <= ChunkLen /\ n <= Len(sendFifo[b])
        /\ s \in Streams /\ Len(s) = n /\ t \in Streams /\ Len(t) = Len(sendFifo[b]) - n
    BY TakeCuts
  <2>2. Len(sendFifo[b]) \in Nat /\ Len(sendFifo[b]) <= NfcFifoLen
    BY LenProperties DEF NfcShapes, Streams
  <2> HIDE DEF n, s, t
  <2> QED
    BY <2>1, <2>2
<1>a. /\ nfcPc[b] = "take" /\ nfcPc' = [nfcPc EXCEPT ![b] = "send"]
      /\ buffer' = [buffer EXCEPT ![b] = s] /\ sendFifo' = [sendFifo EXCEPT ![b] = t]
      /\ UNCHANGED <<recFifo, air, came, dropped, fails, put>>
  OBVIOUS
<1> HIDE DEF n, s, t, Take
<1>1. NfcShapes'
  BY <1>0, <1>a DEF NfcShapes
<1>2. Turns'
  BY <1>a, OtherBoard DEF NfcShapes, Turns, Silent, Boards
<1>3. Chunks'
  BY <1>0, <1>a DEF NfcShapes, Chunks
<1> QED
  BY <1>1, <1>2, <1>3

\* ... when they are sent, ...
LEMMA SendTalks ==
  ASSUME Talk, NEW b \in Boards, Send(b)
  PROVE  Talk'
<1> USE NfcConstants DEF Send, Talk
<1>1. NfcShapes'
  BY DEF NfcShapes, Silent, Boards, Streams
<1>2. Turns'
  BY OtherBoard DEF NfcShapes, Turns, Silent, Boards
<1>3. Chunks'
  BY DEF NfcShapes, Chunks, Turns, Silent, Boards
<1> QED
  BY <1>1, <1>2, <1>3

\* ... when they are received, ...
LEMMA ReceiveTalks ==
  ASSUME Talk, NEW b \in Boards, Receive(b)
  PROVE  Talk'
<1> USE NfcConstants DEF Receive, Talk
<1>1. NfcShapes'
  <2> DEFINE s == SubSeq(air.bytes, 1, Fits(b))
             t == recFifo[b] \o s
  <2>1. s \in Seq(1..MaxBytes) /\ Len(s) = Fits(b) /\ Len(recFifo[b]) + Fits(b) <= NfcFifoLen
    BY FitsCuts DEF Streams
  <2>2. recFifo[b] \in Seq(1..MaxBytes)
    BY DEF NfcShapes, Streams
  <2> HIDE DEF s
  <2>3. t \in Seq(1..MaxBytes) /\ Len(t) = Len(recFifo[b]) + Len(s)
    BY <2>1, <2>2, ConcatProperties
  <2>4. t \in Streams /\ Len(t) <= NfcFifoLen
    BY <2>1, <2>3 DEF Streams
  <2>5. recFifo' = [recFifo EXCEPT ![b] = t]
    BY DEF s
  <2> HIDE DEF t
  <2>6. recFifo' \in [Boards -> Streams] /\ \A c \in Boards : Len(recFifo'[c]) <= NfcFifoLen
    BY <2>4, <2>5 DEF NfcShapes
  <2>7. dropped' \in [Boards -> Nat]
    <3>1. Fits(b) \in Nat /\ Fits(b) <= Len(air.bytes) /\ Len(air.bytes) \in Nat
      BY FitsCuts, LenProperties DEF NfcShapes, Streams
    <3>2. dropped[Other(b)] \in Nat
      BY OtherBoard DEF NfcShapes
    <3>3. dropped[Other(b)] + Len(air.bytes) - Fits(b) \in Nat
      BY <3>1, <3>2
    <3> QED
      BY <3>3 DEF NfcShapes
  <2>8. Silent \in [by : Boards \cup {"none"}, bytes : Streams]
    BY DEF Silent, Streams
  <2> QED
    BY <2>6, <2>7, <2>8 DEF NfcShapes
<1>2. Turns'
  BY OtherBoard DEF NfcShapes, Turns, Silent, Boards
<1>3. Chunks'
  BY DEF NfcShapes, Chunks, Turns, Silent, Boards
<1> QED
  BY <1>1, <1>2, <1>3

\* ... when a board gives up, ...
LEMMA GiveUpTalks ==
  ASSUME Talk, NEW b \in Boards, GiveUp(b)
  PROVE  Talk'
<1> USE NfcConstants DEF GiveUp, Talk
<1>1. NfcShapes'
  BY DEF NfcShapes, Silent, Boards, Streams
<1>2. Turns'
  BY OtherBoard DEF NfcShapes, Turns, Silent, Boards
<1>3. Chunks'
  BY DEF NfcShapes, Chunks, Turns, Silent, Boards
<1> QED
  BY <1>1, <1>2, <1>3

\* ... and when the exchange fails for one board only.
LEMMA FailEarlyTalks ==
  ASSUME Talk, NEW b \in Boards, FailEarly(b)
  PROVE  Talk'
<1> USE NfcConstants DEF FailEarly, Talk
<1>1. NfcShapes'
  <2>1. nfcPc' \in [Boards -> {"connect", "take", "send", "receive"}]
    BY DEF NfcShapes
  <2>2. air' \in [by : Boards \cup {"none"}, bytes : Streams]
    BY DEF NfcShapes, Silent, Streams
  <2>3. fails' \in 0..MaxFails
    BY DEF NfcShapes
  <2>4. UNCHANGED <<sendFifo, recFifo, buffer, came, dropped, put>>
    OBVIOUS
  <2> QED
    BY <2>1, <2>2, <2>3, <2>4 DEF NfcShapes
<1>2. Turns'
  BY OtherBoard DEF NfcShapes, Turns, Silent, Boards
<1>3. Chunks'
  BY DEF NfcShapes, Chunks, Turns, Silent, Boards
<1> QED
  BY <1>1, <1>2, <1>3

-----------------------------------------------------------------------------
(***************************************************************************)
(* The bytes stay in order.                                                *)
(***************************************************************************)

\* The parts of a board's pipe, by their names.
PipeOf(b, p, r, a, f, q) ==
  /\ p = put[Other(b)] /\ r = recFifo[Other(b)] /\ a = OnAir(b) /\ f = buffer[b] /\ q = sendFifo[b]

Chars == 1..MaxBytes

\* Every pipe has its parts, ...
LEMMA PipeHasParts ==
  ASSUME NfcShapes, NEW b \in Boards
  PROVE  \E p, r, a, f, q \in Runs(Chars) : PipeOf(b, p, r, a, f, q)
BY PipeIs DEF PipeOf, Chars

\* ... and they make the pipe, ...
LEMMA PartsMakePipe ==
  \A b \in Boards : \A p, r, a, f, q :
    PipeOf(b, p, r, a, f, q) => Pipe(b) = Joined(p, r, a, f, q)
BY DEF PipeOf, Pipe, Joined, Then, OnAir

\* ... in the state that follows too.
LEMMA PartsMakePipeNext ==
  \A b \in Boards : \A p, r, a, f, q :
    /\ p = put'[Other(b)] /\ r = recFifo'[Other(b)]
    /\ a = (IF air'.by = b THEN air'.bytes ELSE <<>>)
    /\ f = buffer'[b] /\ q = sendFifo'[b]
    => Pipe(b)' = Joined(p, r, a, f, q)
BY DEF Pipe, Joined, Then, Other

\* What rises below a bound rises below the next.
LEMMA MoreRoom ==
  ASSUME NEW s, NEW n \in Nat, s \in Seq(Nat), Rises(s, n)
  PROVE  Rises(s, n + 1)
<1>1. DOMAIN s = 1 .. Len(s) /\ Len(s) \in Nat /\ \A i \in DOMAIN s : s[i] \in Nat
  BY LenProperties, ElementOfSeq
<1> QED
  BY <1>1 DEF Rises

\* The pipes stay in order when a byte comes from the serial port, ...
LEMMA SerialInOrder ==
  ASSUME NfcInv, NEW b \in Boards, SerialIn(b), NEW c \in Boards
  PROVE  Rises(Pipe(c)', came'[c])
<1>1. PICK p, r, a, f, q \in Runs(Chars) : PipeOf(c, p, r, a, f, q)
  BY PipeHasParts DEF NfcInv
<1>2. Rises(Joined(p, r, a, f, q), came[c])
  BY <1>1, PartsMakePipe DEF NfcInv, InOrder
<1>3. came[c] \in Nat /\ came \in [Boards -> 0..MaxBytes] /\ Chars \subseteq Nat
  BY NfcConstants DEF NfcInv, NfcShapes, Chars
<1>4. came' = [came EXCEPT ![b] = came[b] + 1] /\ came[b] < MaxBytes
  BY DEF SerialIn
<1>5. CASE c = b /\ Len(sendFifo[b]) < NfcFifoLen
  <2>1. came'[b] = came[b] + 1
    BY <1>3, <1>4
  <2>2. sendFifo'[b] = Append(q, came[b] + 1)
    BY <1>1, <1>5, <2>1 DEF SerialIn, PipeOf, NfcInv, NfcShapes
  <2> DEFINE t == Append(q, came[b] + 1)
  <2>3. Pipe(c)' = Joined(p, r, a, f, t)
    <3>1. /\ p = put'[Other(c)] /\ r = recFifo'[Other(c)]
          /\ a = (IF air'.by = c THEN air'.bytes ELSE <<>>)
          /\ f = buffer'[c] /\ t = sendFifo'[c]
      BY <1>1, <1>5, <2>2 DEF SerialIn, PipeOf, OnAir
    <3> HIDE DEF t
    <3> QED
      BY <3>1, PartsMakePipeNext
  <2>4. came[b] + 1 \in Chars
    BY <1>3, <1>4, NfcConstants DEF Chars
  <2>5. Rises(Joined(p, r, a, f, Append(q, came[b] + 1)), came[b] + 1)
    BY <1>2, <1>3, <1>5, <2>4, JoinedIn
  <2> QED
    BY <1>5, <2>1, <2>3, <2>5
<1>6. CASE c = b /\ ~(Len(sendFifo[b]) < NfcFifoLen)
  <2>1. Pipe(c)' = Joined(p, r, a, f, q)
    BY <1>1, <1>6, PartsMakePipeNext DEF SerialIn, PipeOf, OnAir
  <2>2. came'[b] = came[b] + 1
    BY <1>3, <1>4
  <2>3. Joined(p, r, a, f, q) \in Seq(Nat)
    <3>1. Joined(p, r, a, f, q) \in Runs(Chars)
      BY JoinedLength
    <3> QED
      BY <1>3, <3>1, SeqMonotonic DEF Runs
  <2> QED
    BY <1>2, <1>3, <1>6, <2>1, <2>2, <2>3, MoreRoom
<1>7. CASE c # b
  <2>1. came'[c] = came[c]
    BY <1>3, <1>4, <1>7
  <2>2. sendFifo'[c] = sendFifo[c]
    BY <1>7 DEF SerialIn, NfcInv, NfcShapes
  <2>3. Pipe(c)' = Joined(p, r, a, f, q)
    BY <1>1, <2>2, PartsMakePipeNext DEF SerialIn, PipeOf, OnAir
  <2> QED
    BY <1>2, <2>1, <2>3
<1> QED
  BY <1>5, <1>6, <1>7

\* ... when bytes leave through it, ...
LEMMA SerialOutOrder ==
  ASSUME NfcInv, NEW b \in Boards, SerialOut(b), NEW c \in Boards
  PROVE  Rises(Pipe(c)', came'[c])
<1>1. PICK p, r, a, f, q \in Runs(Chars) : PipeOf(c, p, r, a, f, q)
  BY PipeHasParts DEF NfcInv
<1>2. Rises(Joined(p, r, a, f, q), came[c]) /\ came' = came
  BY <1>1, PartsMakePipe DEF NfcInv, InOrder, SerialOut
<1>3. CASE b = Other(c)
  <2>1. put'[Other(c)] = Then(p, r) /\ recFifo'[Other(c)] = <<>>
    BY <1>1, <1>3 DEF SerialOut, PipeOf, NfcInv, NfcShapes, Then
  <2>2. Pipe(c)' = Joined(Then(p, r), <<>>, a, f, q)
    <3>1. /\ Then(p, r) = put'[Other(c)] /\ <<>> = recFifo'[Other(c)]
          /\ a = (IF air'.by = c THEN air'.bytes ELSE <<>>)
          /\ f = buffer'[c] /\ q = sendFifo'[c]
      BY <1>1, <2>1 DEF SerialOut, PipeOf, OnAir
    <3> QED
      BY <3>1, PartsMakePipeNext
  <2> QED
    BY <1>2, <2>2, JoinedOut
<1>4. CASE b # Other(c)
  <2>1. put'[Other(c)] = p /\ recFifo'[Other(c)] = r
    BY <1>1, <1>4, OtherBoard DEF SerialOut, PipeOf, NfcInv, NfcShapes
  <2>2. Pipe(c)' = Joined(p, r, a, f, q)
    <3>1. /\ p = put'[Other(c)] /\ r = recFifo'[Other(c)]
          /\ a = (IF air'.by = c THEN air'.bytes ELSE <<>>)
          /\ f = buffer'[c] /\ q = sendFifo'[c]
      BY <1>1, <2>1 DEF SerialOut, PipeOf, OnAir
    <3> QED
      BY <3>1, PartsMakePipeNext
  <2> QED
    BY <1>2, <2>2
<1> QED
  BY <1>3, <1>4

\* ... when bytes are taken to be sent, ...
LEMMA TakeOrder ==
  ASSUME NfcInv, NEW b \in Boards, Take(b), NEW c \in Boards
  PROVE  Rises(Pipe(c)', came'[c])
<1>1. PICK p, r, a, f, q \in Runs(Chars) : PipeOf(c, p, r, a, f, q)
  BY PipeHasParts DEF NfcInv
<1>2. Rises(Joined(p, r, a, f, q), came[c]) /\ came' = came
  BY <1>1, PartsMakePipe DEF NfcInv, InOrder, Take
<1>3. CASE c = b
  <2> DEFINE n == Least(ChunkLen, Len(sendFifo[b]))
             s == SubSeq(sendFifo[b], 1, n)
             t == SubSeq(sendFifo[b], n + 1, Len(sendFifo[b]))
  <2>1. s \in Runs(Chars) /\ t \in Runs(Chars) /\ Then(s, t) = q
    BY <1>1, <1>3, TakeCuts DEF NfcInv, PipeOf, Runs, Streams, Chars, Then
  <2>2. buffer'[c] = s /\ sendFifo'[c] = t
    BY <1>3 DEF Take, NfcInv, NfcShapes
  <2>3. f = <<>>
    BY <1>1, <1>3 DEF Take, NfcInv, Turns, PipeOf
  <2> HIDE DEF s, t
  <2>4. Pipe(c)' = Joined(p, r, a, s, t)
    <3>1. /\ p = put'[Other(c)] /\ r = recFifo'[Other(c)]
          /\ a = (IF air'.by = c THEN air'.bytes ELSE <<>>)
          /\ s = buffer'[c] /\ t = sendFifo'[c]
      BY <1>1, <2>2 DEF Take, PipeOf, OnAir
    <3> QED
      BY <3>1, PartsMakePipeNext
  <2>5. Joined(p, r, a, <<>>, Then(s, t)) = Joined(p, r, a, s, t)
    BY <2>1, JoinedTake
  <2> QED
    BY <1>2, <2>1, <2>3, <2>4, <2>5
<1>4. CASE c # b
  <2>1. buffer'[c] = f /\ sendFifo'[c] = q
    BY <1>1, <1>4 DEF Take, PipeOf, NfcInv, NfcShapes
  <2>2. Pipe(c)' = Joined(p, r, a, f, q)
    <3>1. /\ p = put'[Other(c)] /\ r = recFifo'[Other(c)]
          /\ a = (IF air'.by = c THEN air'.bytes ELSE <<>>)
          /\ f = buffer'[c] /\ q = sendFifo'[c]
      BY <1>1, <2>1 DEF Take, PipeOf, OnAir
    <3> QED
      BY <3>1, PartsMakePipeNext
  <2> QED
    BY <1>2, <2>2
<1> QED
  BY <1>3, <1>4

\* ... when they are sent, ...
LEMMA SendOrder ==
  ASSUME NfcInv, NEW b \in Boards, Send(b), NEW c \in Boards
  PROVE  Rises(Pipe(c)', came'[c])
<1>1. PICK p, r, a, f, q \in Runs(Chars) : PipeOf(c, p, r, a, f, q)
  BY PipeHasParts DEF NfcInv
<1>2. Rises(Joined(p, r, a, f, q), came[c]) /\ came' = came
  BY <1>1, PartsMakePipe DEF NfcInv, InOrder, Send
<1>3. a = <<>> /\ air' = [by |-> b, bytes |-> buffer[b]]
  BY <1>1 DEF Send, NfcInv, Turns, PipeOf, OnAir, Silent, Boards
<1>4. CASE c = b
  <2>1. buffer'[c] = <<>>
    BY <1>4 DEF Send, NfcInv, NfcShapes
  <2>2. Pipe(c)' = Joined(p, r, f, <<>>, q)
    BY <1>1, <1>3, <1>4, <2>1, PartsMakePipeNext DEF Send, PipeOf
  <2>3. Joined(p, r, f, <<>>, q) = Joined(p, r, <<>>, f, q)
    BY JoinedSend
  <2> QED
    BY <1>2, <1>3, <2>2, <2>3
<1>5. CASE c # b
  <2>1. buffer'[c] = f
    BY <1>1, <1>5 DEF Send, PipeOf, NfcInv, NfcShapes
  <2>2. Pipe(c)' = Joined(p, r, a, f, q)
    BY <1>1, <1>3, <1>5, <2>1, PartsMakePipeNext DEF Send, PipeOf
  <2> QED
    BY <1>2, <2>2
<1> QED
  BY <1>4, <1>5

\* ... and when they are received.
LEMMA ReceiveOrder ==
  ASSUME NfcInv, NEW b \in Boards, Receive(b), NEW c \in Boards
  PROVE  Rises(Pipe(c)', came'[c])
<1>1. PICK p, r, a, f, q \in Runs(Chars) : PipeOf(c, p, r, a, f, q)
  BY PipeHasParts DEF NfcInv
<1>2. Rises(Joined(p, r, a, f, q), came[c]) /\ came' = came
  BY <1>1, PartsMakePipe DEF NfcInv, InOrder, Receive
<1>3. air' = Silent /\ air.by = Other(b) /\ \A d \in Boards : "none" # d
  BY DEF Receive, Boards
<1>4. CASE b = Other(c)
  <2> DEFINE s == SubSeq(air.bytes, 1, Fits(b))
  <2>1. c = Other(b) /\ a = air.bytes
    BY <1>1, <1>3, <1>4, OtherBoard DEF PipeOf, OnAir
  <2>2. s \in Runs(Chars) /\ \E rest \in Runs(Chars) : Then(s, rest) = air.bytes
    BY FitsCuts DEF NfcInv, Runs, Streams, Chars, Then
  <2>3. recFifo'[Other(c)] = Then(r, s)
    BY <1>1, <1>4 DEF Receive, NfcInv, NfcShapes, PipeOf, Then
  <2> HIDE DEF s
  <2>4. PICK rest \in Runs(Chars) : Then(s, rest) = a
    BY <2>1, <2>2
  <2>5. Pipe(c)' = Joined(p, Then(r, s), <<>>, f, q)
    <3>1. /\ p = put'[Other(c)] /\ Then(r, s) = recFifo'[Other(c)]
          /\ <<>> = (IF air'.by = c THEN air'.bytes ELSE <<>>)
          /\ f = buffer'[c] /\ q = sendFifo'[c]
      BY <1>1, <1>3, <2>3 DEF Receive, PipeOf, Silent
    <3> QED
      BY <3>1, PartsMakePipeNext
  <2>6. Rises(Joined(p, r, Then(s, rest), f, q), came[c])
    BY <1>2, <2>4
  <2>7. came[c] \in Nat /\ Chars \subseteq Nat
    BY NfcConstants DEF NfcInv, NfcShapes, Chars
  <2>8. Rises(Joined(p, Then(r, s), <<>>, f, q), came[c])
    BY <2>2, <2>6, <2>7, JoinedCut
  <2> QED
    BY <1>2, <2>5, <2>8
<1>5. CASE b # Other(c)
  <2>1. recFifo'[Other(c)] = r
    BY <1>1, <1>5, OtherBoard DEF Receive, PipeOf, NfcInv, NfcShapes
  <2>2. b = c /\ a = <<>>
    BY <1>1, <1>3, <1>5, OtherBoard DEF PipeOf, OnAir
  <2>3. Pipe(c)' = Joined(p, r, a, f, q)
    <3>1. /\ p = put'[Other(c)] /\ r = recFifo'[Other(c)]
          /\ a = (IF air'.by = c THEN air'.bytes ELSE <<>>)
          /\ f = buffer'[c] /\ q = sendFifo'[c]
      BY <1>1, <1>3, <2>1, <2>2 DEF Receive, PipeOf, Silent
    <3> QED
      BY <3>1, PartsMakePipeNext
  <2> QED
    BY <1>2, <2>3
<1> QED
  BY <1>4, <1>5

\* Whatever else happens, a frame on the air or what is in a buffer may be lost.
LEMMA LossOrder ==
  ASSUME NfcInv, UNCHANGED <<put, recFifo, sendFifo, came>>,
         air' = air \/ air' = Silent, NEW c \in Boards, buffer'[c] = buffer[c] \/ buffer'[c] = <<>>
  PROVE  Rises(Pipe(c)', came'[c])
<1>1. PICK p, r, a, f, q \in Runs(Chars) : PipeOf(c, p, r, a, f, q)
  BY PipeHasParts DEF NfcInv
<1>2. Rises(Joined(p, r, a, f, q), came[c])
  BY <1>1, PartsMakePipe DEF NfcInv, InOrder
<1>3. came[c] \in Nat /\ Chars \subseteq Nat /\ c # "none" /\ <<>> \in Runs(Chars)
  BY ThenEmpty, NfcConstants DEF NfcInv, NfcShapes, Chars, Boards
<1> DEFINE a2 == IF air'.by = c THEN air'.bytes ELSE <<>>
<1>4. a2 = a \/ a2 = <<>>
  BY <1>1, <1>3 DEF PipeOf, OnAir, Silent
<1>5. Rises(Joined(p, r, a2, f, q), came[c])
  BY <1>2, <1>3, <1>4, JoinedFade
<1>6. Pipe(c)' = Joined(p, r, a2, buffer'[c], q)
  BY <1>1, PartsMakePipeNext DEF PipeOf
<1>7. a2 \in Runs(Chars)
  BY <1>3, <1>4
<1> HIDE DEF a2
<1>8. Rises(Joined(p, r, a2, <<>>, q), came[c])
  BY <1>3, <1>5, <1>7, JoinedForget
<1>9. f = buffer[c]
  BY <1>1 DEF PipeOf
<1> QED
  BY <1>5, <1>6, <1>8, <1>9

-----------------------------------------------------------------------------
(***************************************************************************)
(* What is lost, is paid for.                                              *)
(***************************************************************************)

\* What is lost, from the lengths of the parts.
Missing(n, d, p, r, a, f, q) == n - d - p - r - a - f - q

\* What is lost is what is missing from the lengths of a pipe's parts, ...
LEMMA LostNow ==
  ASSUME NfcShapes, NEW b \in Boards
  PROVE  Lost(b) = Missing(came[b], dropped[b], Len(put[Other(b)]), Len(recFifo[Other(b)]),
                           Len(OnAir(b)), Len(buffer[b]), Len(sendFifo[b]))
BY LostIs DEF Missing

\* ... which are numbers, ...
LEMMA LengthsNow ==
  ASSUME NfcShapes, NEW b \in Boards
  PROVE  /\ came[b] \in Nat /\ dropped[b] \in Nat
         /\ Len(put[Other(b)]) \in Nat /\ Len(recFifo[Other(b)]) \in Nat
         /\ Len(OnAir(b)) \in Nat /\ Len(buffer[b]) \in Nat /\ Len(sendFifo[b]) \in Nat
<1>1. came[b] \in Nat /\ dropped[b] \in Nat
  BY NfcConstants DEF NfcShapes
<1> QED
  BY <1>1, PipeLength

\* ... in the state that follows too.
LEMMA LostNext ==
  NfcShapes' => \A b \in Boards :
    Lost(b)' = Missing(came'[b], dropped'[b], Len(put'[Other(b)]), Len(recFifo'[Other(b)]),
                       Len(IF air'.by = b THEN air'.bytes ELSE <<>>), Len(buffer'[b]),
                       Len(sendFifo'[b]))
<1> DEFINE L == \A b \in Boards : Lost(b) = Missing(came[b], dropped[b], Len(put[Other(b)]), Len(recFifo[Other(b)]),
                           Len(OnAir(b)), Len(buffer[b]), Len(sendFifo[b]))
<1>1. NfcShapes => L
  BY LostNow
<1>2. NfcShapes' => L'
  BY <1>1, PTL
<1> QED
  BY <1>2 DEF OnAir, Other

\* How what is missing changes with each of the lengths.
LEMMA MissingIs ==
  \A n, d, p, r, a, f, q \in Nat :
    /\ Missing(n, d, p, r, a, f, q) \in Int
    /\ \A k \in Nat : /\ Missing(n, d, p, r, a, f, k) = Missing(n, d, p, r, a, f, q) + q - k
                      /\ Missing(n, d, p, r, a, k, q) = Missing(n, d, p, r, a, f, q) + f - k
                      /\ Missing(n, d, p, r, k, f, q) = Missing(n, d, p, r, a, f, q) + a - k
                      /\ Missing(n, d, p, k, a, f, q) = Missing(n, d, p, r, a, f, q) + r - k
                      /\ Missing(n, d, k, r, a, f, q) = Missing(n, d, p, r, a, f, q) + p - k
                      /\ Missing(n, k, p, r, a, f, q) = Missing(n, d, p, r, a, f, q) + d - k
                      /\ Missing(k, d, p, r, a, f, q) = Missing(n, d, p, r, a, f, q) + k - n
BY DEF Missing

\* A byte that comes is stored or dropped; the other steps move bytes on.
LEMMA SerialInLoses ==
  ASSUME NfcInv, NfcShapes', NEW b \in Boards, SerialIn(b), NEW c \in Boards
  PROVE  Lost(c)' = Lost(c)
<1> DEFINE n == came[c]
           d == dropped[c]
           p == Len(put[Other(c)])
           r == Len(recFifo[Other(c)])
           a == Len(OnAir(c))
           f == Len(buffer[c])
           q == Len(sendFifo[c])
<1>1. Lost(c) = Missing(n, d, p, r, a, f, q)
  BY LostNow DEF NfcInv
<1>2. n \in Nat /\ d \in Nat /\ p \in Nat /\ r \in Nat /\ a \in Nat /\ f \in Nat /\ q \in Nat
  BY LengthsNow DEF NfcInv
<1>3. Lost(c)' = Missing(came'[c], dropped'[c], Len(put'[Other(c)]), Len(recFifo'[Other(c)]),
                         Len(IF air'.by = c THEN air'.bytes ELSE <<>>), Len(buffer'[c]),
                         Len(sendFifo'[c]))
  BY LostNext
<1>4. CASE c = b /\ Len(sendFifo[b]) < NfcFifoLen
  <2>0. Len(Append(sendFifo[b], came'[b])) = Len(sendFifo[b]) + 1 /\ came'[b] = came[b] + 1
    <3>1. sendFifo[b] \in Seq(1..MaxBytes) /\ came'[b] \in Nat /\ came'[b] = came[b] + 1
      BY <1>2, <1>4 DEF SerialIn, NfcInv, NfcShapes, Streams
    <3>2. sendFifo[b] \in Seq(Nat)
      BY <3>1, NfcConstants, SeqMonotonic
    <3>3. \A x \in Seq(Nat) : \A e \in Nat : Len(Append(x, e)) = Len(x) + 1
      BY AppendProperties
    <3> QED
      BY <3>1, <3>2, <3>3, Zenon
  <2>1. /\ came'[c] = n + 1 /\ dropped'[c] = d /\ Len(put'[Other(c)]) = p
        /\ Len(recFifo'[Other(c)]) = r /\ Len(IF air'.by = c THEN air'.bytes ELSE <<>>) = a
        /\ Len(buffer'[c]) = f /\ Len(sendFifo'[c]) = q + 1
    BY <1>4, <2>0 DEF SerialIn, NfcInv, NfcShapes, OnAir
  <2> HIDE DEF n, d, p, r, a, f, q
  <2>r. Lost(c)' = Missing(n + 1, d, p, r, a, f, q + 1)
    BY <1>3, <2>1
  <2> QED
    BY <1>1, <1>2, <2>r DEF Missing
<1>5. CASE c = b /\ ~(Len(sendFifo[b]) < NfcFifoLen)
  <2>1. /\ came'[c] = n + 1 /\ dropped'[c] = d + 1 /\ Len(put'[Other(c)]) = p
        /\ Len(recFifo'[Other(c)]) = r /\ Len(IF air'.by = c THEN air'.bytes ELSE <<>>) = a
        /\ Len(buffer'[c]) = f /\ Len(sendFifo'[c]) = q
    BY <1>5 DEF SerialIn, NfcInv, NfcShapes, OnAir
  <2> HIDE DEF n, d, p, r, a, f, q
  <2>r. Lost(c)' = Missing(n + 1, d + 1, p, r, a, f, q)
    BY <1>3, <2>1
  <2> QED
    BY <1>1, <1>2, <2>r DEF Missing
<1>6. CASE c # b
  <2>1. /\ came'[c] = n /\ dropped'[c] = d /\ Len(put'[Other(c)]) = p
        /\ Len(recFifo'[Other(c)]) = r /\ Len(IF air'.by = c THEN air'.bytes ELSE <<>>) = a
        /\ Len(buffer'[c]) = f /\ Len(sendFifo'[c]) = q
    BY <1>6 DEF SerialIn, NfcInv, NfcShapes, OnAir
  <2> HIDE DEF n, d, p, r, a, f, q
  <2>r. Lost(c)' = Missing(n, d, p, r, a, f, q)
    BY <1>3, <2>1
  <2> QED
    BY <1>1, <1>2, <2>r DEF Missing
<1> QED
  BY <1>4, <1>5, <1>6

\* Nothing is lost when bytes leave through the serial port, ...
LEMMA SerialOutLoses ==
  ASSUME NfcInv, NfcShapes', NEW b \in Boards, SerialOut(b), NEW c \in Boards
  PROVE  Lost(c)' = Lost(c)
<1> DEFINE n == came[c]
           d == dropped[c]
           p == Len(put[Other(c)])
           r == Len(recFifo[Other(c)])
           a == Len(OnAir(c))
           f == Len(buffer[c])
           q == Len(sendFifo[c])
<1>1. Lost(c) = Missing(n, d, p, r, a, f, q)
  BY LostNow DEF NfcInv
<1>2. n \in Nat /\ d \in Nat /\ p \in Nat /\ r \in Nat /\ a \in Nat /\ f \in Nat /\ q \in Nat
  BY LengthsNow DEF NfcInv
<1>3. Lost(c)' = Missing(came'[c], dropped'[c], Len(put'[Other(c)]), Len(recFifo'[Other(c)]),
                         Len(IF air'.by = c THEN air'.bytes ELSE <<>>), Len(buffer'[c]),
                         Len(sendFifo'[c]))
  BY LostNext
<1>4. CASE b = Other(c)
  <2>0. Len(put[b] \o recFifo[b]) = Len(put[b]) + Len(recFifo[b])
    <3>1. put[b] \in Seq(1..MaxBytes) /\ recFifo[b] \in Seq(1..MaxBytes)
      BY DEF NfcInv, NfcShapes, Streams
    <3> QED
      BY <3>1, ConcatProperties
  <2>1. /\ came'[c] = n /\ dropped'[c] = d /\ Len(put'[Other(c)]) = p + r
        /\ Len(recFifo'[Other(c)]) = 0 /\ Len(IF air'.by = c THEN air'.bytes ELSE <<>>) = a
        /\ Len(buffer'[c]) = f /\ Len(sendFifo'[c]) = q
    BY <1>4, <2>0 DEF SerialOut, NfcInv, NfcShapes, OnAir
  <2> HIDE DEF n, d, p, r, a, f, q
  <2>r. Lost(c)' = Missing(n, d, p + r, 0, a, f, q)
    BY <1>3, <2>1
  <2> QED
    BY <1>1, <1>2, <2>r DEF Missing
<1>5. CASE b # Other(c)
  <2>1. /\ came'[c] = n /\ dropped'[c] = d /\ Len(put'[Other(c)]) = p
        /\ Len(recFifo'[Other(c)]) = r /\ Len(IF air'.by = c THEN air'.bytes ELSE <<>>) = a
        /\ Len(buffer'[c]) = f /\ Len(sendFifo'[c]) = q
    BY <1>5, OtherBoard DEF SerialOut, NfcInv, NfcShapes, OnAir
  <2> HIDE DEF n, d, p, r, a, f, q
  <2>r. Lost(c)' = Missing(n, d, p, r, a, f, q)
    BY <1>3, <2>1
  <2> QED
    BY <1>1, <1>2, <2>r DEF Missing
<1> QED
  BY <1>4, <1>5

\* ... when they are taken to be sent, ...
LEMMA TakeLoses ==
  ASSUME NfcInv, NfcShapes', NEW b \in Boards, Take(b), NEW c \in Boards
  PROVE  Lost(c)' = Lost(c)
<1> DEFINE n == came[c]
           d == dropped[c]
           p == Len(put[Other(c)])
           r == Len(recFifo[Other(c)])
           a == Len(OnAir(c))
           f == Len(buffer[c])
           q == Len(sendFifo[c])
<1>1. Lost(c) = Missing(n, d, p, r, a, f, q)
  BY LostNow DEF NfcInv
<1>2. n \in Nat /\ d \in Nat /\ p \in Nat /\ r \in Nat /\ a \in Nat /\ f \in Nat /\ q \in Nat
  BY LengthsNow DEF NfcInv
<1>3. Lost(c)' = Missing(came'[c], dropped'[c], Len(put'[Other(c)]), Len(recFifo'[Other(c)]),
                         Len(IF air'.by = c THEN air'.bytes ELSE <<>>), Len(buffer'[c]),
                         Len(sendFifo'[c]))
  BY LostNext
<1>4. CASE c = b
  <2>0. PICK k \in Nat : /\ k <= Len(sendFifo[b]) /\ Len(buffer'[b]) = k
                        /\ Len(sendFifo'[b]) = Len(sendFifo[b]) - k
    <3> DEFINE k == Least(ChunkLen, Len(sendFifo[b]))
               s == SubSeq(sendFifo[b], 1, k)
               t == SubSeq(sendFifo[b], k + 1, Len(sendFifo[b]))
    <3>1. k \in Nat /\ k <= Len(sendFifo[b]) /\ Len(s) = k /\ Len(t) = Len(sendFifo[b]) - k
      BY TakeCuts DEF NfcInv
    <3>2. buffer'[b] = s /\ sendFifo'[b] = t
      BY DEF Take, NfcInv, NfcShapes
    <3> HIDE DEF k, s, t
    <3> QED
      BY <3>1, <3>2
  <2>2. Len(buffer[b]) = 0
    BY DEF Take, NfcInv, Turns
  <2>1. /\ came'[c] = n /\ dropped'[c] = d /\ Len(put'[Other(c)]) = p
        /\ Len(recFifo'[Other(c)]) = r /\ Len(IF air'.by = c THEN air'.bytes ELSE <<>>) = a
        /\ Len(buffer'[c]) = k /\ Len(sendFifo'[c]) = q - k
    BY <1>4, <2>0 DEF Take, NfcInv, NfcShapes, OnAir
  <2>3. f = 0 /\ k <= q
    BY <1>4, <2>0, <2>2
  <2> HIDE DEF n, d, p, r, a, f, q
  <2>r. Lost(c)' = Missing(n, d, p, r, a, k, q - k)
    BY <1>3, <2>1
  <2> QED
    BY <1>1, <1>2, <2>r, <2>3 DEF Missing
<1>5. CASE c # b
  <2>1. /\ came'[c] = n /\ dropped'[c] = d /\ Len(put'[Other(c)]) = p
        /\ Len(recFifo'[Other(c)]) = r /\ Len(IF air'.by = c THEN air'.bytes ELSE <<>>) = a
        /\ Len(buffer'[c]) = f /\ Len(sendFifo'[c]) = q
    BY <1>5 DEF Take, NfcInv, NfcShapes, OnAir
  <2> HIDE DEF n, d, p, r, a, f, q
  <2>r. Lost(c)' = Missing(n, d, p, r, a, f, q)
    BY <1>3, <2>1
  <2> QED
    BY <1>1, <1>2, <2>r DEF Missing
<1> QED
  BY <1>4, <1>5

\* ... when they are sent, ...
LEMMA SendLoses ==
  ASSUME NfcInv, NfcShapes', NEW b \in Boards, Send(b), NEW c \in Boards
  PROVE  Lost(c)' = Lost(c)
<1> DEFINE n == came[c]
           d == dropped[c]
           p == Len(put[Other(c)])
           r == Len(recFifo[Other(c)])
           a == Len(OnAir(c))
           f == Len(buffer[c])
           q == Len(sendFifo[c])
<1>1. Lost(c) = Missing(n, d, p, r, a, f, q)
  BY LostNow DEF NfcInv
<1>2. n \in Nat /\ d \in Nat /\ p \in Nat /\ r \in Nat /\ a \in Nat /\ f \in Nat /\ q \in Nat
  BY LengthsNow DEF NfcInv
<1>3. Lost(c)' = Missing(came'[c], dropped'[c], Len(put'[Other(c)]), Len(recFifo'[Other(c)]),
                         Len(IF air'.by = c THEN air'.bytes ELSE <<>>), Len(buffer'[c]),
                         Len(sendFifo'[c]))
  BY LostNext
<1>4. CASE c = b
  <2>2. a = 0 /\ air'.by = b /\ air'.bytes = buffer[b]
    BY DEF Send, NfcInv, Turns, OnAir, Silent, Boards
  <2>1. /\ came'[c] = n /\ dropped'[c] = d /\ Len(put'[Other(c)]) = p
        /\ Len(recFifo'[Other(c)]) = r /\ Len(IF air'.by = c THEN air'.bytes ELSE <<>>) = f
        /\ Len(buffer'[c]) = 0 /\ Len(sendFifo'[c]) = q
    BY <1>4, <2>2 DEF Send, NfcInv, NfcShapes, OnAir
  <2> HIDE DEF n, d, p, r, a, f, q
  <2>r. Lost(c)' = Missing(n, d, p, r, f, 0, q)
    BY <1>3, <2>1
  <2> QED
    BY <1>1, <1>2, <2>r, <2>2 DEF Missing
<1>5. CASE c # b
  <2>2. a = 0 /\ air'.by = b
    BY DEF Send, NfcInv, Turns, OnAir, Silent, Boards
  <2>1. /\ came'[c] = n /\ dropped'[c] = d /\ Len(put'[Other(c)]) = p
        /\ Len(recFifo'[Other(c)]) = r /\ Len(IF air'.by = c THEN air'.bytes ELSE <<>>) = 0
        /\ Len(buffer'[c]) = f /\ Len(sendFifo'[c]) = q
    BY <1>5, <2>2 DEF Send, NfcInv, NfcShapes, OnAir
  <2> HIDE DEF n, d, p, r, a, f, q
  <2>r. Lost(c)' = Missing(n, d, p, r, 0, f, q)
    BY <1>3, <2>1
  <2> QED
    BY <1>1, <1>2, <2>r, <2>2 DEF Missing
<1> QED
  BY <1>4, <1>5

\* ... nor when they are received.
LEMMA ReceiveLoses ==
  ASSUME NfcInv, NfcShapes', NEW b \in Boards, Receive(b), NEW c \in Boards
  PROVE  Lost(c)' = Lost(c)
<1> DEFINE n == came[c]
           d == dropped[c]
           p == Len(put[Other(c)])
           r == Len(recFifo[Other(c)])
           a == Len(OnAir(c))
           f == Len(buffer[c])
           q == Len(sendFifo[c])
<1>1. Lost(c) = Missing(n, d, p, r, a, f, q)
  BY LostNow DEF NfcInv
<1>2. n \in Nat /\ d \in Nat /\ p \in Nat /\ r \in Nat /\ a \in Nat /\ f \in Nat /\ q \in Nat
  BY LengthsNow DEF NfcInv
<1>3. Lost(c)' = Missing(came'[c], dropped'[c], Len(put'[Other(c)]), Len(recFifo'[Other(c)]),
                         Len(IF air'.by = c THEN air'.bytes ELSE <<>>), Len(buffer'[c]),
                         Len(sendFifo'[c]))
  BY LostNext
<1>4. CASE b = Other(c)
  <2>0. /\ Len(recFifo'[b]) = r + Fits(b) /\ Fits(b) \in Nat /\ Fits(b) <= a
        /\ dropped'[c] = d + a - Fits(b)
    <3> DEFINE s == SubSeq(air.bytes, 1, Fits(b))
    <3>1. recFifo[b] \in Seq(1..MaxBytes)
      BY DEF NfcInv, NfcShapes, Streams
    <3>2. s \in Seq(1..MaxBytes) /\ Len(s) = Fits(b) /\ Fits(b) \in Nat /\ Fits(b) <= Len(air.bytes)
      BY FitsCuts DEF NfcInv, Streams
    <3>3. recFifo' = [recFifo EXCEPT ![b] = recFifo[b] \o s] /\ recFifo'[b] = recFifo[b] \o s
      BY DEF Receive, NfcInv, NfcShapes
    <3> HIDE DEF s
    <3>4. Len(recFifo[b] \o s) = Len(recFifo[b]) + Len(s)
      <4>1. \A x, y \in Seq(1..MaxBytes) : Len(x \o y) = Len(x) + Len(y)
        BY ConcatProperties
      <4> QED
        BY <3>1, <3>2, <4>1, Zenon
    <3>5. Other(b) = c /\ air.by = c
      BY <1>4, OtherBoard DEF Receive
    <3>6. a = Len(air.bytes)
      BY <3>5 DEF OnAir
    <3>7. dropped'[c] = d + Len(air.bytes) - Fits(b)
      BY <3>5 DEF Receive, NfcInv, NfcShapes
    <3>8. r = Len(recFifo[b])
      BY <1>4
    <3>9. Len(recFifo'[b]) = r + Fits(b) /\ dropped'[c] = d + a - Fits(b) /\ Fits(b) <= a
      <4> HIDE DEF r, a, d
      <4> QED
        BY <3>2, <3>3, <3>4, <3>6, <3>7, <3>8
    <3> QED
      BY <3>2, <3>9, Zenon
  <2>2. air'.by = "none" /\ "none" # c
    BY DEF Receive, Silent, Boards
  <2>1. /\ came'[c] = n /\ dropped'[c] = d + a - Fits(b) /\ Len(put'[Other(c)]) = p
        /\ Len(recFifo'[Other(c)]) = r + Fits(b) /\ Len(IF air'.by = c THEN air'.bytes ELSE <<>>) = 0
        /\ Len(buffer'[c]) = f /\ Len(sendFifo'[c]) = q
    BY <1>4, <2>0, <2>2 DEF Receive, NfcInv, NfcShapes, OnAir
  <2> HIDE DEF n, d, p, r, a, f, q
  <2>r. Lost(c)' = Missing(n, d + a - Fits(b), p, r + Fits(b), 0, f, q)
    BY <1>3, <2>1
  <2> QED
    BY <1>1, <1>2, <2>r, <2>0 DEF Missing
<1>5. CASE b # Other(c)
  <2>2. air'.by = "none" /\ "none" # c /\ air.by # c /\ b = c
    BY <1>5, OtherBoard DEF Receive, Silent, Boards
  <2>1. /\ came'[c] = n /\ dropped'[c] = d /\ Len(put'[Other(c)]) = p
        /\ Len(recFifo'[Other(c)]) = r /\ Len(IF air'.by = c THEN air'.bytes ELSE <<>>) = a
        /\ Len(buffer'[c]) = f /\ Len(sendFifo'[c]) = q
    BY <1>5, <2>2, OtherBoard DEF Receive, NfcInv, NfcShapes, OnAir
  <2> HIDE DEF n, d, p, r, a, f, q
  <2>r. Lost(c)' = Missing(n, d, p, r, a, f, q)
    BY <1>3, <2>1
  <2> QED
    BY <1>1, <1>2, <2>r DEF Missing
<1> QED
  BY <1>4, <1>5

\* What a board loses when the air or the buffers are emptied.
LEMMA LossLoses ==
  ASSUME NfcInv, NfcShapes', UNCHANGED <<put, recFifo, sendFifo, came, dropped>>, NEW c \in Boards
  PROVE  LET a2 == Len(IF air'.by = c THEN air'.bytes ELSE <<>>)
             f2 == Len(buffer'[c])
         IN  /\ Lost(c)' = Lost(c) + Len(OnAir(c)) - a2 + Len(buffer[c]) - f2
             /\ a2 \in Nat /\ f2 \in Nat
<1> DEFINE n == came[c]
           d == dropped[c]
           p == Len(put[Other(c)])
           r == Len(recFifo[Other(c)])
           a == Len(OnAir(c))
           f == Len(buffer[c])
           q == Len(sendFifo[c])
           a2 == Len(IF air'.by = c THEN air'.bytes ELSE <<>>)
           f2 == Len(buffer'[c])
<1>1. Lost(c) = Missing(n, d, p, r, a, f, q)
  BY LostNow DEF NfcInv
<1>2. n \in Nat /\ d \in Nat /\ p \in Nat /\ r \in Nat /\ a \in Nat /\ f \in Nat /\ q \in Nat
  BY LengthsNow DEF NfcInv
<1>3. Lost(c)' = Missing(n, d, p, r, a2, f2, q)
  BY LostNext
<1>4. a2 \in Nat /\ f2 \in Nat
  BY EmptySeq, LenProperties DEF NfcShapes, Streams
<1> HIDE DEF n, d, p, r, a, f, q, a2, f2
<1>5. Lost(c)' = Lost(c) + a - a2 + f - f2
  BY <1>1, <1>2, <1>3, <1>4 DEF Missing
<1> QED
  BY <1>4, <1>5 DEF a, f, a2, f2

Total == Lost("initiator") + Lost("target")

\* What both pipes lost.
LEMMA TotalIs ==
  NfcShapes => /\ \A b \in Boards : Lost(b) \in Int /\ Total = Lost(b) + Lost(Other(b))
               /\ Total \in Int
<1>1. ASSUME NfcShapes, NEW b \in Boards
      PROVE  Lost(b) \in Int /\ Total = Lost(b) + Lost(Other(b))
  BY <1>1, LostIs DEF Total
<1>2. ASSUME NfcShapes PROVE Total \in Int
  <2>1. Lost("initiator") \in Int /\ Lost("target") \in Int
    BY <1>1, <1>2 DEF Boards
  <2> QED
    BY <2>1 DEF Total
<1> QED
  BY <1>1, <1>2

\* A frame that is on the air and is not there any more costs one chunk at most.
LEMMA AirLoses ==
  ASSUME NfcInv, NfcShapes', UNCHANGED <<put, recFifo, sendFifo, came, dropped, buffer>>,
         air' = Silent \/ air' = air
  PROVE  /\ \A c \in Boards : Lost(c)' >= Lost(c)
         /\ Total' <= Total + ChunkLen
         /\ air' = air => Total' = Total
<1>1. ASSUME NEW c \in Boards
      PROVE  \E x \in Nat : /\ Lost(c)' = Lost(c) + x /\ x <= ChunkLen
                            /\ (air.by # c \/ air' = air => x = 0)
  <2> DEFINE a == Len(OnAir(c))
             a2 == Len(IF air'.by = c THEN air'.bytes ELSE <<>>)
             f == Len(buffer[c])
  <2>1. Lost(c)' = Lost(c) + a - a2 + f - f
    BY LossLoses
  <2>2. a \in Nat /\ f \in Nat /\ Lost(c) \in Int
    BY LengthsNow, LostIs DEF NfcInv
  <2>3. a <= ChunkLen /\ (air.by # c => a = 0)
    BY NfcConstants DEF NfcInv, Chunks, OnAir
  <2>4. a2 = a \/ (a2 = 0 /\ (air' = air => a2 = a))
    BY DEF OnAir, Silent, Boards
  <2>5. air' = air => a2 = a
    BY DEF OnAir
  <2> HIDE DEF a, a2, f
  <2>6. a - a2 \in Nat /\ a - a2 <= ChunkLen /\ Lost(c)' = Lost(c) + (a - a2)
    BY <2>1, <2>2, <2>3, <2>4, NfcConstants
  <2>7. air.by # c \/ air' = air => a - a2 = 0
    BY <2>2, <2>3, <2>4, <2>5
  <2> QED
    BY <2>6, <2>7
<1>2. \A c \in Boards : Lost(c) \in Int
  BY LostIs DEF NfcInv
<1>3. "initiator" \in Boards /\ "target" \in Boards /\ "initiator" # "target"
  BY DEF Boards
<1>4. PICK x \in Nat : /\ Lost("initiator")' = Lost("initiator") + x /\ x <= ChunkLen
                       /\ (air.by # "initiator" \/ air' = air => x = 0)
  BY <1>1, <1>3
<1>5. PICK y \in Nat : /\ Lost("target")' = Lost("target") + y /\ y <= ChunkLen
                       /\ (air.by # "target" \/ air' = air => y = 0)
  BY <1>1, <1>3
<1>6. Lost("initiator")' >= Lost("initiator") /\ Lost("target")' >= Lost("target")
  BY <1>2, <1>3, <1>4, <1>5
<1>7. x + y <= ChunkLen /\ (air' = air => x + y = 0)
  BY <1>4, <1>5, <1>3, NfcConstants
<1>8. Total' = Total + (x + y) /\ Total \in Int
  BY <1>2, <1>3, <1>4, <1>5 DEF Total
<1>9. Total' <= Total + ChunkLen /\ (air' = air => Total' = Total)
  BY <1>7, <1>8, NfcConstants
<1> QED
  BY <1>6, <1>9 DEF Boards

\* The target's answer that is lost in its buffer.
LEMMA SendFailsLoses ==
  ASSUME NfcInv, NfcShapes', SendFails
  PROVE  /\ \A c \in Boards : Lost(c)' >= Lost(c)
         /\ Total' <= Total + ChunkLen
<1>1. ASSUME NEW c \in Boards
      PROVE  \E x \in Nat : /\ Lost(c)' = Lost(c) + x /\ x <= ChunkLen
                            /\ (c = "initiator" => x = 0)
  <2> DEFINE a == Len(OnAir(c))
             f == Len(buffer[c])
             f2 == Len(buffer'[c])
  <2>1. Lost(c)' = Lost(c) + a - a + f - f2
    <3>1. air' = air
      BY DEF SendFails
    <3> QED
      BY <3>1, LossLoses DEF OnAir, SendFails
  <2>2. a \in Nat /\ f \in Nat /\ Lost(c) \in Int /\ f <= ChunkLen
    BY LengthsNow, LostIs DEF NfcInv, Chunks
  <2>3. f2 = IF c = "target" THEN 0 ELSE f
    BY DEF SendFails, NfcInv, NfcShapes
  <2> HIDE DEF a, f, f2
  <2>4. f - f2 \in Nat /\ f - f2 <= ChunkLen /\ Lost(c)' = Lost(c) + (f - f2)
    BY <2>1, <2>2, <2>3, NfcConstants
  <2>5. c = "initiator" => f - f2 = 0
    BY <2>2, <2>3
  <2> QED
    BY <2>4, <2>5
<1>2. \A c \in Boards : Lost(c) \in Int
  BY LostIs DEF NfcInv
<1>3. "initiator" \in Boards /\ "target" \in Boards
  BY DEF Boards
<1>4. PICK x \in Nat : Lost("initiator")' = Lost("initiator") + x /\ x = 0
  BY <1>1, <1>3
<1>5. PICK y \in Nat : Lost("target")' = Lost("target") + y /\ y <= ChunkLen
  BY <1>1, <1>3
<1>6. Lost("initiator")' >= Lost("initiator") /\ Lost("target")' >= Lost("target")
  BY <1>2, <1>3, <1>4, <1>5
<1>7. Total' <= Total + ChunkLen
  BY <1>2, <1>3, <1>4, <1>5, NfcConstants DEF Total
<1> QED
  BY <1>6, <1>7 DEF Boards

-----------------------------------------------------------------------------

\* One frame more for one failure more.
LEMMA Fee ==
  /\ \A k \in Nat : k * ChunkLen \in Int /\ (k + 1) * ChunkLen = k * ChunkLen + ChunkLen
  /\ Owed \in {0, ChunkLen}
BY NfcConstants DEF Owed

LostInts == Total \in Int /\ \A b \in Boards : Lost(b) \in Int

\* The losses are integers, in the state that follows too.
LEMMA LostIntsNext == NfcShapes' => LostInts'
<1>1. NfcShapes => LostInts
  BY TotalIs DEF LostInts
<1> QED
  BY <1>1, PTL

\* A step that pays for what it loses, or loses what it was to lose.
LEMMA Balance ==
  ASSUME NfcInv, NfcShapes', \A c \in Boards : Lost(c)' >= Lost(c),
         \/ fails' = fails /\ Total' + Owed' <= Total + Owed
         \/ fails' = fails + 1 /\ Total' + Owed' <= Total + Owed + ChunkLen
  PROVE  Paid'
<1>1. Total \in Int /\ Owed \in Int /\ fails \in Nat /\ Total + Owed <= fails * ChunkLen
  BY TotalIs, Fee, NfcConstants DEF NfcInv, Paid, NfcShapes, Total
<1>2. Total' \in Int /\ \A c \in Boards : Lost(c)' \in Int
  BY LostIntsNext DEF LostInts
<1>3. Owed' \in Int
  BY NfcConstants DEF Owed
<1>4. Total' + Owed' <= fails' * ChunkLen
  <2> DEFINE m == fails * ChunkLen
             o == Total + Owed
             o2 == Total' + Owed'
  <2>1. m \in Int /\ (fails + 1) * ChunkLen = m + ChunkLen /\ o <= m
    BY <1>1, Fee
  <2>2. o \in Int /\ o2 \in Int
    BY <1>1, <1>2, <1>3
  <2>3. \/ fails' = fails /\ o2 <= o
        \/ fails' = fails + 1 /\ o2 <= o + ChunkLen
    OBVIOUS
  <2>4. fails' = fails => fails' * ChunkLen = m
    OBVIOUS
  <2>5. fails' = fails + 1 => fails' * ChunkLen = m + ChunkLen
    BY <2>1
  <2> HIDE DEF m, o, o2
  <2>6. o2 <= fails' * ChunkLen
    BY <2>1, <2>2, <2>3, <2>4, <2>5, NfcConstants
  <2> QED
    BY <2>6 DEF o2
<1>5. ASSUME NEW c \in Boards PROVE Lost(c)' >= 0
  <2>1. Lost(c) \in Int /\ Lost(c) >= 0 /\ Lost(c)' >= Lost(c)
    BY LostIs DEF NfcInv, Paid
  <2>2. Lost(c)' \in Int
    BY <1>2
  <2> QED
    BY <2>1, <2>2
<1> QED
  BY <1>4, <1>5 DEF Paid, Total

\* A step that loses nothing and finds nobody the worse for it.
LEMMA NothingLost ==
  ASSUME NfcInv, NfcShapes', \A c \in Boards : Lost(c)' = Lost(c), fails' = fails,
         Owed' <= Owed
  PROVE  Paid'
<1>1. Total \in Int /\ Owed \in Int /\ \A c \in Boards : Lost(c) \in Int
  BY TotalIs, Fee, NfcConstants DEF NfcInv
<1>2. "initiator" \in Boards /\ "target" \in Boards
  BY DEF Boards
<1>3. Total' = Total
  BY <1>2 DEF Total
<1>4. \A c \in Boards : Lost(c)' >= Lost(c)
  BY <1>1
<1>5. Owed' \in Int
  BY NfcConstants DEF Owed
<1>6. Total' + Owed' <= Total + Owed
  <2> DEFINE t == Total
             o == Owed
             o2 == Owed'
  <2>1. t \in Int /\ o \in Int /\ o2 \in Int /\ o2 <= o
    BY <1>1, <1>5
  <2> HIDE DEF t, o, o2
  <2>2. t + o2 <= t + o
    BY <2>1
  <2> QED
    BY <1>3, <2>2 DEF t, o, o2
<1>7. fails' = fails /\ Total' + Owed' <= Total + Owed
  BY <1>6
<1> QED
  BY <1>4, <1>7, Balance

\* A byte comes from the serial port.
LEMMA SerialInKeeps ==
  ASSUME NfcInv, NEW b \in Boards, SerialIn(b)
  PROVE  NfcInv'
<1>1. Talk'
  BY SerialInTalks DEF NfcInv, Talk
<1>2. InOrder'
  BY SerialInOrder DEF InOrder
<1>3. Owed' <= Owed
  <2>1. UNCHANGED <<nfcPc, air>>
    BY DEF SerialIn
  <2>2. Owed' = Owed
    BY <2>1 DEF Owed, Unnoticed, Other, Silent
  <2> QED
    BY <2>2, Fee, NfcConstants
<1>4. fails' = fails
  BY DEF SerialIn
<1>5. Paid'
  BY <1>1, <1>3, <1>4, SerialInLoses, NothingLost DEF Talk
<1> QED
  BY <1>1, <1>2, <1>5 DEF NfcInv, Talk

\* Bytes leave through the serial port.
LEMMA SerialOutKeeps ==
  ASSUME NfcInv, NEW b \in Boards, SerialOut(b)
  PROVE  NfcInv'
<1>1. Talk'
  BY SerialOutTalks DEF NfcInv, Talk
<1>2. InOrder'
  BY SerialOutOrder DEF InOrder
<1>3. Owed' <= Owed
  <2>1. UNCHANGED <<nfcPc, air>>
    BY DEF SerialOut
  <2>2. Owed' = Owed
    BY <2>1 DEF Owed, Unnoticed, Other, Silent
  <2> QED
    BY <2>2, Fee, NfcConstants
<1>4. fails' = fails
  BY DEF SerialOut
<1>5. Paid'
  BY <1>1, <1>3, <1>4, SerialOutLoses, NothingLost DEF Talk
<1> QED
  BY <1>1, <1>2, <1>5 DEF NfcInv, Talk

\* Bytes are taken to be sent.
LEMMA TakeKeeps ==
  ASSUME NfcInv, NEW b \in Boards, Take(b)
  PROVE  NfcInv'
<1>1. Talk'
  BY TakeTalks DEF NfcInv, Talk
<1>2. InOrder'
  BY TakeOrder DEF InOrder
<1>3. Owed' <= Owed
  <2>1. Unnoticed' => Unnoticed
    BY OtherBoard DEF Take, NfcInv, NfcShapes, Turns, Unnoticed, Silent, Other, Boards
  <2> QED
    BY <2>1, NfcConstants DEF Owed
<1>4. fails' = fails
  BY DEF Take
<1>5. Paid'
  BY <1>1, <1>3, <1>4, TakeLoses, NothingLost DEF Talk
<1> QED
  BY <1>1, <1>2, <1>5 DEF NfcInv, Talk

\* They are sent.
LEMMA SendKeeps ==
  ASSUME NfcInv, NEW b \in Boards, Send(b)
  PROVE  NfcInv'
<1>1. Talk'
  BY SendTalks DEF NfcInv, Talk
<1>2. InOrder'
  BY SendOrder DEF InOrder
<1>3. Owed' <= Owed
  <2>1. Unnoticed' => Unnoticed
    BY OtherBoard DEF Send, NfcInv, NfcShapes, Turns, Unnoticed, Silent, Other, Boards
  <2> QED
    BY <2>1, NfcConstants DEF Owed
<1>4. fails' = fails
  BY DEF Send
<1>5. Paid'
  BY <1>1, <1>3, <1>4, SendLoses, NothingLost DEF Talk
<1> QED
  BY <1>1, <1>2, <1>5 DEF NfcInv, Talk

\* They are received.
LEMMA ReceiveKeeps ==
  ASSUME NfcInv, NEW b \in Boards, Receive(b)
  PROVE  NfcInv'
<1>1. Talk'
  BY ReceiveTalks DEF NfcInv, Talk
<1>2. InOrder'
  BY ReceiveOrder DEF InOrder
<1>3. Owed' <= Owed
  <2>1. Unnoticed' => Unnoticed
    BY OtherBoard DEF Receive, NfcInv, NfcShapes, Turns, Unnoticed, Silent, Other, Boards
  <2> QED
    BY <2>1, NfcConstants DEF Owed
<1>4. fails' = fails
  BY DEF Receive
<1>5. Paid'
  BY <1>1, <1>3, <1>4, ReceiveLoses, NothingLost DEF Talk
<1> QED
  BY <1>1, <1>2, <1>5 DEF NfcInv, Talk

\* The boards find each other.
LEMMA ConnectKeeps ==
  ASSUME NfcInv, Connect
  PROVE  NfcInv'
<1>1. Talk'
  BY ConnectTalks DEF NfcInv, Talk
<1>2. InOrder'
  <2> SUFFICES ASSUME NEW c \in Boards PROVE Rises(Pipe(c)', came'[c])
    BY DEF InOrder
  <2>1. /\ UNCHANGED <<put, recFifo, sendFifo, came>>
        /\ air' = air \/ air' = Silent
        /\ (buffer'[c] = buffer[c] \/ buffer'[c] = <<>>)
    BY DEF Connect, NfcInv, NfcShapes
  <2> QED
    BY <2>1, LossOrder
<1>3. fails' = fails
  BY DEF Connect
<1>4. /\ \A c \in Boards : Lost(c)' >= Lost(c)
      /\ Total' <= Total + ChunkLen
      /\ air' = air => Total' = Total
  BY <1>1, AirLoses DEF Talk, Connect
<1>5. Total' + Owed' <= Total + Owed
  <2>1. ~Unnoticed' /\ (air' = air \/ Unnoticed)
    BY OtherBoard DEF Connect, NfcInv, NfcShapes, Turns, Unnoticed, Silent, Other, Boards
  <2>2. Owed \in {0, ChunkLen} /\ Owed' \in {0, ChunkLen} /\ (~Unnoticed' => Owed' = 0) /\ (Unnoticed => Owed = ChunkLen)
    BY DEF Owed
  <2>3. LostInts /\ LostInts'
    <3>1. LostInts
      BY TotalIs DEF NfcInv, LostInts
    <3>2. LostInts'
      BY <1>1, LostIntsNext DEF Talk
    <3> QED
      BY <3>1, <3>2
  <2>4. Total \in Int /\ Total' \in Int
    BY <2>3 DEF LostInts
  <2> DEFINE t == Total
             t2 == Total'
             o == Owed
             o2 == Owed'
  <2>5. t \in Int /\ t2 \in Int /\ t2 <= t + ChunkLen /\ (air' = air => t2 = t)
    BY <1>4, <2>4
  <2>6. o \in {0, ChunkLen} /\ o2 \in {0, ChunkLen} /\ o2 = 0 /\ (air' = air \/ o = ChunkLen)
    BY <2>1, <2>2
  <2> HIDE DEF t, t2, o, o2
  <2>7. t2 + o2 <= t + o
    BY <2>5, <2>6, NfcConstants
  <2> QED
    BY <2>7 DEF t, t2, o, o2
<1>6. Paid'
  BY <1>1, <1>3, <1>4, <1>5, Balance DEF Talk
<1> QED
  BY <1>1, <1>2, <1>6 DEF NfcInv, Talk

\* Nobody listens to a frame.
LEMMA UnheardKeeps ==
  ASSUME NfcInv, Unheard
  PROVE  NfcInv'
<1>1. Talk'
  BY UnheardTalks DEF NfcInv, Talk
<1>2. InOrder'
  <2> SUFFICES ASSUME NEW c \in Boards PROVE Rises(Pipe(c)', came'[c])
    BY DEF InOrder
  <2>1. /\ UNCHANGED <<put, recFifo, sendFifo, came>>
        /\ air' = air \/ air' = Silent
        /\ (buffer'[c] = buffer[c] \/ buffer'[c] = <<>>)
    BY DEF Unheard, NfcInv, NfcShapes
  <2> QED
    BY <2>1, LossOrder
<1>3. fails' = fails
  BY DEF Unheard
<1>4. /\ \A c \in Boards : Lost(c)' >= Lost(c)
      /\ Total' <= Total + ChunkLen
      /\ air' = air => Total' = Total
  BY <1>1, AirLoses DEF Talk, Unheard
<1>5. Total' + Owed' <= Total + Owed
  <2>1. ~Unnoticed' /\ (air' = air \/ Unnoticed)
    BY OtherBoard DEF Unheard, NfcInv, NfcShapes, Turns, Unnoticed, Silent, Other, Boards
  <2>2. Owed \in {0, ChunkLen} /\ Owed' \in {0, ChunkLen} /\ (~Unnoticed' => Owed' = 0) /\ (Unnoticed => Owed = ChunkLen)
    BY DEF Owed
  <2>3. LostInts /\ LostInts'
    <3>1. LostInts
      BY TotalIs DEF NfcInv, LostInts
    <3>2. LostInts'
      BY <1>1, LostIntsNext DEF Talk
    <3> QED
      BY <3>1, <3>2
  <2>4. Total \in Int /\ Total' \in Int
    BY <2>3 DEF LostInts
  <2> DEFINE t == Total
             t2 == Total'
             o == Owed
             o2 == Owed'
  <2>5. t \in Int /\ t2 \in Int /\ t2 <= t + ChunkLen /\ (air' = air => t2 = t)
    BY <1>4, <2>4
  <2>6. o \in {0, ChunkLen} /\ o2 \in {0, ChunkLen} /\ o2 = 0 /\ (air' = air \/ o = ChunkLen)
    BY <2>1, <2>2
  <2> HIDE DEF t, t2, o, o2
  <2>7. t2 + o2 <= t + o
    BY <2>5, <2>6, NfcConstants
  <2> QED
    BY <2>7 DEF t, t2, o, o2
<1>6. Paid'
  BY <1>1, <1>3, <1>4, <1>5, Balance DEF Talk
<1> QED
  BY <1>1, <1>2, <1>6 DEF NfcInv, Talk

\* The frame on the air is lost.
LEMMA FadeKeeps ==
  ASSUME NfcInv, Fade
  PROVE  NfcInv'
<1>1. Talk'
  BY FadeTalks DEF NfcInv, Talk
<1>2. InOrder'
  <2> SUFFICES ASSUME NEW c \in Boards PROVE Rises(Pipe(c)', came'[c])
    BY DEF InOrder
  <2>1. /\ UNCHANGED <<put, recFifo, sendFifo, came>>
        /\ air' = air \/ air' = Silent
        /\ (buffer'[c] = buffer[c] \/ buffer'[c] = <<>>)
    BY DEF Fade, NfcInv, NfcShapes
  <2> QED
    BY <2>1, LossOrder
<1>3. fails' = fails + 1
  BY DEF Fade
<1>4. /\ \A c \in Boards : Lost(c)' >= Lost(c)
      /\ Total' <= Total + ChunkLen
      /\ air' = air => Total' = Total
  BY <1>1, AirLoses DEF Talk, Fade
<1>5. Total' + Owed' <= Total + Owed + ChunkLen
  <2>1. ~Unnoticed'
    BY OtherBoard DEF Fade, NfcInv, NfcShapes, Turns, Unnoticed, Silent, Other, Boards
  <2>2. Owed \in {0, ChunkLen} /\ Owed' \in {0, ChunkLen} /\ (~Unnoticed' => Owed' = 0) /\ (Unnoticed => Owed = ChunkLen)
    BY DEF Owed
  <2>3. LostInts /\ LostInts'
    <3>1. LostInts
      BY TotalIs DEF NfcInv, LostInts
    <3>2. LostInts'
      BY <1>1, LostIntsNext DEF Talk
    <3> QED
      BY <3>1, <3>2
  <2>4. Total \in Int /\ Total' \in Int
    BY <2>3 DEF LostInts
  <2> DEFINE t == Total
             t2 == Total'
             o == Owed
             o2 == Owed'
  <2>5. t \in Int /\ t2 \in Int /\ t2 <= t + ChunkLen
    BY <1>4, <2>4
  <2>6. o \in {0, ChunkLen} /\ o2 \in {0, ChunkLen} /\ o2 = 0
    BY <2>1, <2>2
  <2> HIDE DEF t, t2, o, o2
  <2>7. t2 + o2 <= t + o + ChunkLen
    BY <2>5, <2>6, NfcConstants
  <2> QED
    BY <2>7 DEF t, t2, o, o2
<1>6. Paid'
  BY <1>1, <1>3, <1>4, <1>5, Balance DEF Talk
<1> QED
  BY <1>1, <1>2, <1>6 DEF NfcInv, Talk

\* Sending fails.
LEMMA SendFailsKeeps ==
  ASSUME NfcInv, SendFails
  PROVE  NfcInv'
<1>1. Talk'
  BY SendFailsTalks DEF NfcInv, Talk
<1>2. InOrder'
  <2> SUFFICES ASSUME NEW c \in Boards PROVE Rises(Pipe(c)', came'[c])
    BY DEF InOrder
  <2>1. /\ UNCHANGED <<put, recFifo, sendFifo, came>>
        /\ air' = air \/ air' = Silent
        /\ (buffer'[c] = buffer[c] \/ buffer'[c] = <<>>)
    BY DEF SendFails, NfcInv, NfcShapes
  <2> QED
    BY <2>1, LossOrder
<1>3. fails' = fails + 1
  BY DEF SendFails
<1>4. (\A c \in Boards : Lost(c)' >= Lost(c)) /\ Total' <= Total + ChunkLen
  BY <1>1, SendFailsLoses DEF Talk
<1>5. Total' + Owed' <= Total + Owed + ChunkLen
  <2>1. ~Unnoticed'
    BY OtherBoard DEF SendFails, NfcInv, NfcShapes, Turns, Unnoticed, Silent, Other, Boards
  <2>2. Owed \in {0, ChunkLen} /\ Owed' \in {0, ChunkLen} /\ (~Unnoticed' => Owed' = 0) /\ (Unnoticed => Owed = ChunkLen)
    BY DEF Owed
  <2>3. LostInts /\ LostInts'
    <3>1. LostInts
      BY TotalIs DEF NfcInv, LostInts
    <3>2. LostInts'
      BY <1>1, LostIntsNext DEF Talk
    <3> QED
      BY <3>1, <3>2
  <2>4. Total \in Int /\ Total' \in Int
    BY <2>3 DEF LostInts
  <2> DEFINE t == Total
             t2 == Total'
             o == Owed
             o2 == Owed'
  <2>5. t \in Int /\ t2 \in Int /\ t2 <= t + ChunkLen
    BY <1>4, <2>4
  <2>6. o \in {0, ChunkLen} /\ o2 \in {0, ChunkLen} /\ o2 = 0
    BY <2>1, <2>2
  <2> HIDE DEF t, t2, o, o2
  <2>7. t2 + o2 <= t + o + ChunkLen
    BY <2>5, <2>6, NfcConstants
  <2> QED
    BY <2>7 DEF t, t2, o, o2
<1>6. Paid'
  BY <1>1, <1>3, <1>4, <1>5, Balance DEF Talk
<1> QED
  BY <1>1, <1>2, <1>6 DEF NfcInv, Talk

\* A board gives up.
LEMMA GiveUpKeeps ==
  ASSUME NfcInv, NEW b \in Boards, GiveUp(b)
  PROVE  NfcInv'
<1>1. Talk'
  BY GiveUpTalks DEF NfcInv, Talk
<1>2. InOrder'
  <2> SUFFICES ASSUME NEW c \in Boards PROVE Rises(Pipe(c)', came'[c])
    BY DEF InOrder
  <2>1. /\ UNCHANGED <<put, recFifo, sendFifo, came>>
        /\ air' = air \/ air' = Silent
        /\ (buffer'[c] = buffer[c] \/ buffer'[c] = <<>>)
    BY DEF GiveUp, NfcInv, NfcShapes
  <2> QED
    BY <2>1, LossOrder
<1>3. fails' = fails
  BY DEF GiveUp
<1>4. /\ \A c \in Boards : Lost(c)' >= Lost(c)
      /\ Total' <= Total + ChunkLen
      /\ air' = air => Total' = Total
  BY <1>1, AirLoses DEF Talk, GiveUp
<1>5. Total' + Owed' <= Total + Owed
  <2>1. ~Unnoticed' /\ (air' = air \/ Unnoticed)
    BY OtherBoard DEF GiveUp, NfcInv, NfcShapes, Turns, Unnoticed, Silent, Other, Boards
  <2>2. Owed \in {0, ChunkLen} /\ Owed' \in {0, ChunkLen} /\ (~Unnoticed' => Owed' = 0) /\ (Unnoticed => Owed = ChunkLen)
    BY DEF Owed
  <2>3. LostInts /\ LostInts'
    <3>1. LostInts
      BY TotalIs DEF NfcInv, LostInts
    <3>2. LostInts'
      BY <1>1, LostIntsNext DEF Talk
    <3> QED
      BY <3>1, <3>2
  <2>4. Total \in Int /\ Total' \in Int
    BY <2>3 DEF LostInts
  <2> DEFINE t == Total
             t2 == Total'
             o == Owed
             o2 == Owed'
  <2>5. t \in Int /\ t2 \in Int /\ t2 <= t + ChunkLen /\ (air' = air => t2 = t)
    BY <1>4, <2>4
  <2>6. o \in {0, ChunkLen} /\ o2 \in {0, ChunkLen} /\ o2 = 0 /\ (air' = air \/ o = ChunkLen)
    BY <2>1, <2>2
  <2> HIDE DEF t, t2, o, o2
  <2>7. t2 + o2 <= t + o
    BY <2>5, <2>6, NfcConstants
  <2> QED
    BY <2>7 DEF t, t2, o, o2
<1>6. Paid'
  BY <1>1, <1>3, <1>4, <1>5, Balance DEF Talk
<1> QED
  BY <1>1, <1>2, <1>6 DEF NfcInv, Talk

\* The exchange fails for one board only.
LEMMA FailEarlyKeeps ==
  ASSUME NfcInv, NEW b \in Boards, FailEarly(b)
  PROVE  NfcInv'
<1>1. Talk'
  BY FailEarlyTalks DEF NfcInv, Talk
<1>2. InOrder'
  <2> SUFFICES ASSUME NEW c \in Boards PROVE Rises(Pipe(c)', came'[c])
    BY DEF InOrder
  <2>1. /\ UNCHANGED <<put, recFifo, sendFifo, came>>
        /\ air' = air \/ air' = Silent
        /\ (buffer'[c] = buffer[c] \/ buffer'[c] = <<>>)
    BY DEF FailEarly, NfcInv, NfcShapes
  <2> QED
    BY <2>1, LossOrder
<1>3. fails' = fails + 1
  BY DEF FailEarly
<1>4. /\ \A c \in Boards : Lost(c)' >= Lost(c)
      /\ Total' <= Total + ChunkLen
      /\ air' = air => Total' = Total
  BY <1>1, AirLoses DEF Talk, FailEarly
<1>5. Total' + Owed' <= Total + Owed + ChunkLen
  <2>1. ~Unnoticed' \/ air' = air
    BY OtherBoard DEF FailEarly, NfcInv, NfcShapes, Turns, Unnoticed, Silent, Other, Boards
  <2>2. Owed \in {0, ChunkLen} /\ Owed' \in {0, ChunkLen} /\ (~Unnoticed' => Owed' = 0) /\ (Unnoticed => Owed = ChunkLen)
    BY DEF Owed
  <2>3. LostInts /\ LostInts'
    <3>1. LostInts
      BY TotalIs DEF NfcInv, LostInts
    <3>2. LostInts'
      BY <1>1, LostIntsNext DEF Talk
    <3> QED
      BY <3>1, <3>2
  <2>4. Total \in Int /\ Total' \in Int
    BY <2>3 DEF LostInts
  <2> DEFINE t == Total
             t2 == Total'
             o == Owed
             o2 == Owed'
  <2>5. t \in Int /\ t2 \in Int /\ t2 <= t + ChunkLen /\ (air' = air => t2 = t)
    BY <1>4, <2>4
  <2>6. o \in {0, ChunkLen} /\ o2 \in {0, ChunkLen} /\ (o2 = 0 \/ air' = air)
    BY <2>1, <2>2
  <2> HIDE DEF t, t2, o, o2
  <2>7. t2 + o2 <= t + o + ChunkLen
    BY <2>5, <2>6, NfcConstants
  <2> QED
    BY <2>7 DEF t, t2, o, o2
<1>6. Paid'
  BY <1>1, <1>3, <1>4, <1>5, Balance DEF Talk
<1> QED
  BY <1>1, <1>2, <1>6 DEF NfcInv, Talk

-----------------------------------------------------------------------------

\* The invariant holds before the first byte.
LEMMA NfcStarts == NfcInit => NfcInv
<1> SUFFICES ASSUME NfcInit PROVE NfcInv
  OBVIOUS
<1>1. NfcShapes
  BY NfcConstants, EmptySeq DEF NfcInit, NfcShapes, Silent, Streams
<1>2. Turns /\ Chunks
  BY NfcConstants DEF NfcInit, Turns, Chunks, Silent, Boards
<1>3. ASSUME NEW b \in Boards PROVE Pipe(b) = <<>>
  <2>1. <<>> \in Runs(Chars) /\ Then(<<>>, <<>>) = <<>>
    BY ThenEmpty
  <2>2. PipeOf(b, <<>>, <<>>, <<>>, <<>>, <<>>)
    BY OtherBoard DEF NfcInit, PipeOf, OnAir, Silent, Boards
  <2> QED
    BY <2>1, <2>2, PartsMakePipe DEF Joined
<1>4. InOrder
  BY <1>3, NfcConstants DEF InOrder, Rises, NfcInit
<1>5. \A b \in Boards : Lost(b) = 0
  BY <1>3, EmptySeq DEF Lost, NfcInit
<1>6. Owed = 0
  BY DEF Owed, Unnoticed, NfcInit, Boards, Other
<1>7. Paid
  BY <1>5, <1>6, NfcConstants DEF Paid, NfcInit, Boards
<1> QED
  BY <1>1, <1>2, <1>4, <1>7 DEF NfcInv

\* Every step keeps the invariant.
LEMMA NfcGoesOn == NfcInv /\ [NfcNext]_nfcVars => NfcInv'
<1> SUFFICES ASSUME NfcInv, [NfcNext]_nfcVars PROVE NfcInv'
  OBVIOUS
<1>1. CASE NfcNext
  BY <1>1, ConnectKeeps, UnheardKeeps, FadeKeeps, SendFailsKeeps, SerialInKeeps, SerialOutKeeps,
     TakeKeeps, SendKeeps, ReceiveKeeps, GiveUpKeeps, FailEarlyKeeps
  DEF NfcNext, Exchange
<1>2. CASE UNCHANGED nfcVars
  <2>1. NfcShapes' /\ Turns' /\ Chunks'
    BY <1>2 DEF nfcVars, NfcInv, NfcShapes, Turns, Chunks, Silent, Other
  <2>2. \A b \in Boards : Pipe(b)' = Pipe(b) /\ Lost(b)' = Lost(b)
    BY <1>2 DEF nfcVars, Pipe, Lost, Other
  <2>3. Owed' = Owed
    BY <1>2 DEF nfcVars, Owed, Unnoticed, Silent, Other
  <2>4. InOrder' /\ Paid'
    BY <1>2, <2>2, <2>3 DEF nfcVars, NfcInv, InOrder, Paid, Boards
  <2> QED
    BY <2>1, <2>4 DEF NfcInv
<1> QED
  BY <1>1, <1>2

\* The invariant holds in every state.
LEMMA NfcAlways == NfcSpec => []NfcInv
<1> QED
  BY NfcStarts, NfcGoesOn, PTL DEF NfcSpec

\* Of NfcTypeOK: every FIFO stays within its length, whatever fails.
THEOREM NfcTypeCorrect == NfcSpec => []NfcTypeOK
<1>1. NfcInv => NfcTypeOK
  <2> SUFFICES ASSUME NfcInv PROVE NfcTypeOK
    OBVIOUS
  <2>1. ASSUME NEW b \in Boards PROVE dropped[b] \in 0..MaxBytes
    <3>1. /\ Len(Pipe(b)) \in Nat /\ dropped[b] \in Nat /\ came[b] \in 0..MaxBytes
          /\ came[b] - Len(Pipe(b)) - dropped[b] >= 0
      <4>1. Len(Pipe(b)) \in Nat
        <5>1. Pipe(b) \in Seq(1..MaxBytes)
          BY PipeLength DEF NfcInv
        <5> QED
          BY <5>1, LenProperties
      <4> QED
        BY <4>1 DEF NfcInv, NfcShapes, Paid, Lost
    <3> QED
      BY <3>1, NfcConstants
  <2> QED
    BY <2>1 DEF NfcInv, NfcShapes, NfcTypeOK
<1> QED
  BY <1>1, NfcAlways, PTL

\* main.c:62-85, 124-143: the bytes come out of the other board's serial port in
\* the order they went in and none of them twice, whatever fails and however
\* often the boards connect anew.
THEOREM BytesInOrderOnce == NfcSpec => []InOrderOnce
<1>1. NfcInv => InOrderOnce
  BY DEF NfcInv, InOrder, Rises, InOrderOnce
<1> QED
  BY <1>1, NfcAlways, PTL

\* main.c:127-130, 74-76: a failed exchange costs one frame at most.
THEOREM FailuresCostOneFrame == NfcSpec => []LossIsBounded
<1>1. NfcInv => LossIsBounded
  <2> SUFFICES ASSUME NfcInv PROVE LossIsBounded
    OBVIOUS
  <2>1. Total \in Int /\ Owed \in {0, ChunkLen} /\ fails * ChunkLen \in Int
    BY TotalIs, Fee, NfcConstants DEF NfcInv, NfcShapes
  <2>2. Total + Owed <= fails * ChunkLen
    BY DEF NfcInv, Paid, Total
  <2> DEFINE m == fails * ChunkLen
  <2> HIDE DEF m
  <2>3. Total <= m
    BY <2>1, <2>2, NfcConstants DEF m
  <2> QED
    BY <2>3 DEF LossIsBounded, Total, m
<1> QED
  BY <1>1, NfcAlways, PTL

-----------------------------------------------------------------------------
(***************************************************************************)
(* The bridge implements LossyStream, once in each direction.              *)
(***************************************************************************)

\* The bytes on their way are those of four parts of the pipe, ...
OfParts(r, a, f, q) == Range(r) \cup Range(a) \cup Range(f) \cup Range(q)

LEMMA PartsOnTheWay ==
  \A b \in Boards : \A p, r, a, f, q : PipeOf(b, p, r, a, f, q) => OnTheWay(b) = OfParts(r, a, f, q)
BY DEF PipeOf, OnTheWay, OnAir, OfParts, Range

\* ... in the state that follows too.
LEMMA PartsOnTheWayNext ==
  \A b \in Boards : \A r, a, f, q :
    /\ r = recFifo'[Other(b)] /\ a = (IF air'.by = b THEN air'.bytes ELSE <<>>)
    /\ f = buffer'[b] /\ q = sendFifo'[b]
    => OnTheWay(b)' = OfParts(r, a, f, q)
BY DEF OnTheWay, Other, OfParts, Range

\* Nothing came or came out, and no byte is on its way that was not.
StreamLoses(c) == put'[Other(c)] = put[Other(c)] /\ came'[c] = came[c] /\ OnTheWay(c)' \subseteq OnTheWay(c)

\* One byte came, and it may be on its way.
StreamGives(c) ==
  /\ put'[Other(c)] = put[Other(c)] /\ came[c] \in Nat /\ came'[c] = came[c] + 1
  /\ OnTheWay(c) \subseteq OnTheWay(c)' /\ OnTheWay(c)' \subseteq OnTheWay(c) \cup {came'[c]}

\* The oldest bytes on their way came out.
StreamPutsOut(c) ==
  came'[c] = came[c] /\ Delivers(OnTheWay(c), OnTheWay(c)', put[Other(c)], put'[Other(c)])

Streaming == \A c \in Boards : StreamLoses(c) \/ StreamGives(c) \/ StreamPutsOut(c)

\* A byte that comes goes into the stream, if there is room, ...
LEMMA SerialInStreams == ASSUME NfcInv, NEW b \in Boards, SerialIn(b) PROVE Streaming
<1> SUFFICES ASSUME NEW c \in Boards PROVE StreamLoses(c) \/ StreamGives(c)
  BY DEF Streaming
<1>1. PICK p, r, a, f, q \in Runs(Chars) : PipeOf(c, p, r, a, f, q)
  BY PipeHasParts DEF NfcInv
<1>2. OnTheWay(c) = OfParts(r, a, f, q)
  BY <1>1, PartsOnTheWay
<1>3. came \in [Boards -> 0..MaxBytes] /\ came[c] \in Nat /\ came' = [came EXCEPT ![b] = came[b] + 1]
      /\ came[b] < MaxBytes /\ put' = put
  BY NfcConstants DEF NfcInv, NfcShapes, SerialIn
<1>4. \A t : t = sendFifo'[c] => OnTheWay(c)' = OfParts(r, a, f, t)
  <2> SUFFICES ASSUME NEW t, t = sendFifo'[c] PROVE OnTheWay(c)' = OfParts(r, a, f, t)
    OBVIOUS
  <2>1. /\ r = recFifo'[Other(c)] /\ a = (IF air'.by = c THEN air'.bytes ELSE <<>>)
        /\ f = buffer'[c]
    BY <1>1 DEF SerialIn, PipeOf, OnAir
  <2> QED
    BY <2>1, PartsOnTheWayNext
<1>5. CASE c = b /\ Len(sendFifo[b]) < NfcFifoLen
  <2>1. came'[c] = came[c] + 1
    BY <1>3, <1>5
  <2>2. sendFifo'[c] = Append(q, came[c] + 1)
    BY <1>1, <1>5, <2>1 DEF SerialIn, PipeOf, NfcInv, NfcShapes
  <2>3. came[c] + 1 \in Chars
    BY <1>3, <1>5, NfcConstants DEF Chars
  <2> DEFINE e == came[c] + 1
  <2>4. OnTheWay(c)' = OfParts(r, a, f, Append(q, e))
    BY <1>4, <2>2
  <2>5. Range(Append(q, e)) = Range(q) \cup {e}
    <3> HIDE DEF e
    <3>1. <<e>> \in Runs(Chars) /\ Append(q, e) = Then(q, <<e>>)
      BY <2>3, ThenAppend DEF e
    <3>2. Range(<<e>>) = {e}
      BY DEF Range
    <3>3. Range(Then(q, <<e>>)) = Range(q) \cup Range(<<e>>)
      BY <3>1, RangeThen
    <3> QED
      BY <3>1, <3>2, <3>3
  <2> HIDE DEF e
  <2>6. OnTheWay(c)' = OnTheWay(c) \cup {e}
    BY <1>2, <2>4, <2>5 DEF OfParts
  <2>7. StreamGives(c)
    BY <1>3, <2>1, <2>6 DEF StreamGives, e
  <2> QED
    BY <2>7
<1>6. CASE c # b \/ ~(Len(sendFifo[b]) < NfcFifoLen)
  <2>1. sendFifo'[c] = q
    BY <1>1, <1>6 DEF SerialIn, PipeOf, NfcInv, NfcShapes
  <2>2. OnTheWay(c)' = OnTheWay(c)
    BY <1>2, <1>4, <2>1
  <2>3. came'[c] = came[c] \/ came'[c] = came[c] + 1
    BY <1>3
  <2> QED
    BY <1>3, <2>2, <2>3 DEF StreamGives, StreamLoses
<1> QED
  BY <1>5, <1>6

\* ... those in the FIFO come out of it, ...
LEMMA SerialOutStreams == ASSUME NfcInv, NEW b \in Boards, SerialOut(b) PROVE Streaming
<1> SUFFICES ASSUME NEW c \in Boards PROVE StreamLoses(c) \/ StreamPutsOut(c)
  BY DEF Streaming
<1>1. PICK p, r, a, f, q \in Runs(Chars) : PipeOf(c, p, r, a, f, q)
  BY PipeHasParts DEF NfcInv
<1>2. OnTheWay(c) = OfParts(r, a, f, q) /\ came' = came
  BY <1>1, PartsOnTheWay DEF SerialOut
<1>3. CASE b = Other(c)
  <2>1. put[Other(c)] = p /\ put'[Other(c)] = Then(p, r) /\ recFifo'[Other(c)] = <<>>
    BY <1>1, <1>3 DEF SerialOut, PipeOf, NfcInv, NfcShapes, Then
  <2>2. OnTheWay(c)' = OfParts(<<>>, a, f, q)
    <3>1. /\ <<>> = recFifo'[Other(c)]
          /\ a = (IF air'.by = c THEN air'.bytes ELSE <<>>)
          /\ f = buffer'[c] /\ q = sendFifo'[c]
      BY <1>1, <2>1 DEF SerialOut, PipeOf, OnAir
    <3> QED
      BY <3>1, PartsOnTheWayNext
  <2> DEFINE rest == Then(Then(a, f), q)
             v == OfParts(<<>>, a, f, q)
  <2>3. Rises(Joined(p, r, a, f, q), came[c]) /\ came[c] \in Nat
    BY <1>1, PartsMakePipe, NfcConstants DEF NfcInv, InOrder, NfcShapes
  <2>4. p \in Runs(Nat) /\ r \in Runs(Nat) /\ a \in Runs(Nat) /\ f \in Runs(Nat) /\ q \in Runs(Nat)
    <3>1. Chars \subseteq Nat
      BY NfcConstants DEF Chars
    <3>2. Seq(Chars) \subseteq Seq(Nat)
      BY <3>1, SeqMonotonic
    <3> QED
      BY <3>2 DEF Runs
  <2>5. rest \in Runs(Nat) /\ Range(rest) = v
    <3> DEFINE mid == Then(a, f)
    <3>0. \A x, y \in Runs(Nat) :
            Then(x, y) \in Runs(Nat) /\ Range(Then(x, y)) = Range(x) \cup Range(y)
      BY ThenIsRun, RangeThen
    <3>1. mid \in Runs(Nat) /\ Range(mid) = Range(a) \cup Range(f)
      BY <2>4, <3>0
    <3> HIDE DEF mid
    <3>2. Then(mid, q) \in Runs(Nat) /\ Range(Then(mid, q)) = Range(mid) \cup Range(q)
      BY <2>4, <3>0, <3>1
    <3>3. Range(<<>>) = {}
      BY DEF Range
    <3> QED
      BY <3>1, <3>2, <3>3 DEF OfParts, mid
  <2>6. Joined(p, r, a, f, q) = Then(Then(p, r), rest)
    <3> DEFINE front == Then(p, r)
    <3>1. front \in Runs(Nat) /\ Then(a, f) \in Runs(Nat)
      BY <2>4, ThenIsRun
    <3>2. Joined(p, r, a, f, q) = Then(Then(Then(front, a), f), q)
      BY DEF Joined
    <3> HIDE DEF front
    <3>3. Then(Then(front, a), f) = Then(front, Then(a, f))
      BY <2>4, <3>1, ThenAssociates
    <3>4. Then(Then(front, Then(a, f)), q) = Then(front, Then(Then(a, f), q))
      BY <2>4, <3>1, ThenAssociates
    <3> QED
      BY <3>2, <3>3, <3>4 DEF front
  <2> HIDE DEF rest, v
  <2>7. Then(p, r) \in Runs(Nat) /\ Rises(Then(Then(p, r), rest), came[c])
    BY <2>3, <2>4, <2>6, ThenIsRun
  <2>8. Rises(Then(p, r), came[c]) /\ \A x \in Range(Then(p, r)), y \in Range(rest) : x < y
    BY <2>3, <2>5, <2>7, RisesApart, RisesAcross
  <2>9. Range(Then(p, r)) = Range(p) \cup Range(r)
    BY <2>4, RangeThen
  <2>10. OfParts(r, a, f, q) = Range(r) \cup v /\ \A x \in Range(r), y \in v : x < y
    <3>1. Range(<<>>) = {}
      BY DEF Range
    <3> QED
      BY <2>5, <2>8, <2>9, <3>1 DEF OfParts, v
  <2>11. Delivers(OfParts(r, a, f, q), v, p, Then(p, r))
    BY <2>3, <2>4, <2>8, <2>10, FirstComeOut
  <2>12. StreamPutsOut(c)
    BY <1>2, <2>1, <2>2, <2>11 DEF StreamPutsOut, v
  <2> QED
    BY <2>12
<1>4. CASE b # Other(c)
  <2>1. put'[Other(c)] = p /\ put[Other(c)] = p /\ recFifo'[Other(c)] = r
    BY <1>1, <1>4, OtherBoard DEF SerialOut, PipeOf, NfcInv, NfcShapes
  <2>2. OnTheWay(c)' = OfParts(r, a, f, q)
    <3>1. /\ r = recFifo'[Other(c)]
          /\ a = (IF air'.by = c THEN air'.bytes ELSE <<>>)
          /\ f = buffer'[c] /\ q = sendFifo'[c]
      BY <1>1, <2>1 DEF SerialOut, PipeOf, OnAir
    <3> QED
      BY <3>1, PartsOnTheWayNext
  <2> QED
    BY <1>2, <2>1, <2>2 DEF StreamLoses
<1> QED
  BY <1>3, <1>4

\* ... none is new when bytes are taken to be sent, ...
LEMMA TakeStreams == ASSUME NfcInv, NEW b \in Boards, Take(b) PROVE Streaming
<1> SUFFICES ASSUME NEW c \in Boards PROVE StreamLoses(c)
  BY DEF Streaming
<1>1. PICK p, r, a, f, q \in Runs(Chars) : PipeOf(c, p, r, a, f, q)
  BY PipeHasParts DEF NfcInv
<1>2. OnTheWay(c) = OfParts(r, a, f, q) /\ came' = came /\ put' = put
  BY <1>1, PartsOnTheWay DEF Take
<1>3. \A s, t : s = buffer'[c] /\ t = sendFifo'[c] => OnTheWay(c)' = OfParts(r, a, s, t)
  <2> SUFFICES ASSUME NEW s, NEW t, s = buffer'[c], t = sendFifo'[c]
               PROVE  OnTheWay(c)' = OfParts(r, a, s, t)
    OBVIOUS
  <2>1. r = recFifo'[Other(c)] /\ a = (IF air'.by = c THEN air'.bytes ELSE <<>>)
    BY <1>1 DEF Take, PipeOf, OnAir
  <2> QED
    BY <2>1, PartsOnTheWayNext
<1>4. CASE c = b
  <2> DEFINE n == Least(ChunkLen, Len(sendFifo[b]))
             s == SubSeq(sendFifo[b], 1, n)
             t == SubSeq(sendFifo[b], n + 1, Len(sendFifo[b]))
  <2>1. s \in Runs(Chars) /\ t \in Runs(Chars) /\ Then(s, t) = q
    BY <1>1, <1>4, TakeCuts DEF NfcInv, PipeOf, Runs, Streams, Chars, Then
  <2>2. buffer'[c] = s /\ sendFifo'[c] = t
    BY <1>4 DEF Take, NfcInv, NfcShapes
  <2> HIDE DEF s, t
  <2>3. OnTheWay(c)' = OfParts(r, a, s, t)
    BY <1>3, <2>2
  <2>4. Range(q) = Range(s) \cup Range(t)
    BY <2>1, RangeThen
  <2> QED
    BY <1>2, <2>3, <2>4 DEF StreamLoses, OfParts
<1>5. CASE c # b
  <2>1. buffer'[c] = f /\ sendFifo'[c] = q
    BY <1>1, <1>5 DEF Take, PipeOf, NfcInv, NfcShapes
  <2> QED
    BY <1>2, <1>3, <2>1 DEF StreamLoses
<1> QED
  BY <1>4, <1>5

\* ... when they are sent, ...
LEMMA SendStreams == ASSUME NfcInv, NEW b \in Boards, Send(b) PROVE Streaming
<1> SUFFICES ASSUME NEW c \in Boards PROVE StreamLoses(c)
  BY DEF Streaming
<1>1. PICK p, r, a, f, q \in Runs(Chars) : PipeOf(c, p, r, a, f, q)
  BY PipeHasParts DEF NfcInv
<1>2. OnTheWay(c) = OfParts(r, a, f, q) /\ came' = came /\ put' = put
  BY <1>1, PartsOnTheWay DEF Send
<1>3. a = <<>> /\ air' = [by |-> b, bytes |-> buffer[b]]
  BY <1>1 DEF Send, NfcInv, Turns, PipeOf, OnAir, Silent, Boards
<1>4. r = recFifo'[Other(c)] /\ q = sendFifo'[c] /\ f = buffer[c] /\ Range(<<>>) = {}
  BY <1>1 DEF Send, PipeOf, Range
<1>5. CASE c = b
  <2>1. buffer'[c] = <<>> /\ f = (IF air'.by = c THEN air'.bytes ELSE <<>>)
    BY <1>3, <1>4, <1>5 DEF Send, NfcInv, NfcShapes
  <2>2. OnTheWay(c)' = OfParts(r, f, <<>>, q)
    BY <1>4, <2>1, PartsOnTheWayNext
  <2> QED
    BY <1>2, <1>4, <2>2 DEF StreamLoses, OfParts
<1>6. CASE c # b
  <2>1. buffer'[c] = f /\ a = (IF air'.by = c THEN air'.bytes ELSE <<>>)
    BY <1>3, <1>4, <1>6 DEF Send, NfcInv, NfcShapes
  <2>2. OnTheWay(c)' = OfParts(r, a, f, q)
    BY <1>4, <2>1, PartsOnTheWayNext
  <2> QED
    BY <1>2, <2>2 DEF StreamLoses
<1> QED
  BY <1>5, <1>6

\* ... and when they are received.
LEMMA ReceiveStreams == ASSUME NfcInv, NEW b \in Boards, Receive(b) PROVE Streaming
<1> SUFFICES ASSUME NEW c \in Boards PROVE StreamLoses(c)
  BY DEF Streaming
<1>1. PICK p, r, a, f, q \in Runs(Chars) : PipeOf(c, p, r, a, f, q)
  BY PipeHasParts DEF NfcInv
<1>2. OnTheWay(c) = OfParts(r, a, f, q) /\ came' = came /\ put' = put
  BY <1>1, PartsOnTheWay DEF Receive
<1>3. air' = Silent /\ air.by = Other(b) /\ c # "none" /\ Range(<<>>) = {}
  BY DEF Receive, Boards, Range
<1>4. \A s : s = recFifo'[Other(c)] => OnTheWay(c)' = OfParts(s, <<>>, f, q)
  <2> SUFFICES ASSUME NEW s, s = recFifo'[Other(c)] PROVE OnTheWay(c)' = OfParts(s, <<>>, f, q)
    OBVIOUS
  <2>1. /\ <<>> = (IF air'.by = c THEN air'.bytes ELSE <<>>)
        /\ f = buffer'[c] /\ q = sendFifo'[c]
    BY <1>1, <1>3 DEF Receive, PipeOf, Silent
  <2> QED
    BY <2>1, PartsOnTheWayNext
<1>5. CASE b = Other(c)
  <2> DEFINE s == SubSeq(air.bytes, 1, Fits(b))
  <2>1. a = air.bytes
    BY <1>1, <1>3, <1>5, OtherBoard DEF PipeOf, OnAir
  <2>2. s \in Runs(Chars) /\ \E rest \in Runs(Chars) : Then(s, rest) = air.bytes
    BY FitsCuts DEF NfcInv, Runs, Streams, Chars, Then
  <2>3. recFifo'[Other(c)] = Then(r, s)
    BY <1>1, <1>5 DEF Receive, NfcInv, NfcShapes, PipeOf, Then
  <2> HIDE DEF s
  <2>4. PICK rest \in Runs(Chars) : Then(s, rest) = a
    BY <2>1, <2>2
  <2>5. Range(a) = Range(s) \cup Range(rest) /\ Range(Then(r, s)) = Range(r) \cup Range(s)
    BY <2>2, <2>4, RangeThen
  <2>6. OnTheWay(c)' = OfParts(Then(r, s), <<>>, f, q)
    BY <1>4, <2>3
  <2> QED
    BY <1>2, <1>3, <2>5, <2>6 DEF StreamLoses, OfParts
<1>6. CASE b # Other(c)
  <2>1. recFifo'[Other(c)] = r
    BY <1>1, <1>6, OtherBoard DEF Receive, PipeOf, NfcInv, NfcShapes
  <2>2. OnTheWay(c)' = OfParts(r, <<>>, f, q)
    BY <1>4, <2>1
  <2> QED
    BY <1>2, <1>3, <2>2 DEF StreamLoses, OfParts
<1> QED
  BY <1>5, <1>6

\* Whatever else happens, a frame on the air or what is in a buffer may be lost.
LEMMA LossStreams ==
  ASSUME NfcInv, UNCHANGED <<put, recFifo, sendFifo, came>>, air' = air \/ air' = Silent,
         \A c \in Boards : buffer'[c] = buffer[c] \/ buffer'[c] = <<>>
  PROVE  Streaming
<1> SUFFICES ASSUME NEW c \in Boards PROVE StreamLoses(c)
  BY DEF Streaming
<1>1. PICK p, r, a, f, q \in Runs(Chars) : PipeOf(c, p, r, a, f, q)
  BY PipeHasParts DEF NfcInv
<1>2. OnTheWay(c) = OfParts(r, a, f, q)
  BY <1>1, PartsOnTheWay
<1> DEFINE a2 == IF air'.by = c THEN air'.bytes ELSE <<>>
           f2 == buffer'[c]
<1>3. a2 = a \/ a2 = <<>>
  BY <1>1 DEF PipeOf, OnAir, Silent, Boards
<1>4. f2 = f \/ f2 = <<>>
  BY <1>1 DEF PipeOf
<1>5. OnTheWay(c)' = OfParts(r, a2, f2, q)
  BY <1>1, PartsOnTheWayNext DEF PipeOf
<1>6. Range(<<>>) = {}
  BY DEF Range
<1> HIDE DEF a2, f2
<1>7. OnTheWay(c)' \subseteq OnTheWay(c)
  BY <1>2, <1>3, <1>4, <1>5, <1>6 DEF OfParts
<1> QED
  BY <1>7 DEF StreamLoses

\* Every step is a step of both streams.
LEMMA NfcStreams == NfcInv /\ [NfcNext]_nfcVars => Streaming
<1> SUFFICES ASSUME NfcInv, [NfcNext]_nfcVars PROVE Streaming
  OBVIOUS
<1>1. ASSUME Connect \/ Unheard \/ Fade PROVE Streaming
  BY <1>1, LossStreams DEF Connect, Unheard, Fade
<1>2. ASSUME NEW b \in Boards, GiveUp(b) \/ FailEarly(b) PROVE Streaming
  BY <1>2, LossStreams DEF GiveUp, FailEarly
<1>3. ASSUME SendFails PROVE Streaming
  <2>1. \A c \in Boards : buffer'[c] = buffer[c] \/ buffer'[c] = <<>>
    BY <1>3 DEF SendFails, NfcInv, NfcShapes
  <2> QED
    BY <1>3, <2>1, LossStreams DEF SendFails
<1>4. ASSUME UNCHANGED nfcVars PROVE Streaming
  BY <1>4, LossStreams DEF nfcVars
<1> QED
  BY <1>1, <1>2, <1>3, <1>4, SerialInStreams, SerialOutStreams, TakeStreams, SendStreams, ReceiveStreams
  DEF NfcNext, Exchange

\* Both streams start empty, ...
LEMMA StreamStarts == NfcInit => ToTarget!Init /\ ToInitiator!Init
<1> SUFFICES ASSUME NfcInit PROVE ToTarget!Init /\ ToInitiator!Init
  OBVIOUS
<1>1. ASSUME NEW b \in Boards PROVE came[b] = 0 /\ OnTheWay(b) = {} /\ put[Other(b)] = <<>>
  <2>1. PipeOf(b, <<>>, <<>>, <<>>, <<>>, <<>>)
    BY OtherBoard DEF NfcInit, PipeOf, OnAir, Silent, Boards
  <2>2. OnTheWay(b) = OfParts(<<>>, <<>>, <<>>, <<>>)
    BY <2>1, PartsOnTheWay
  <2> QED
    BY <2>1, <2>2 DEF OfParts, Range, NfcInit, PipeOf
<1> QED
  BY <1>1 DEF ToTarget!Init, ToInitiator!Init, Boards, Other

\* ... and the steps of the streams are those of LossyStream.
LEMMA StreamsGoOn == Streaming => [ToTarget!Next]_ToTarget!streamVars /\ [ToInitiator!Next]_ToInitiator!streamVars
<1> SUFFICES ASSUME Streaming PROVE ToTarget!Next /\ ToInitiator!Next
  OBVIOUS
<1>0. Other("initiator") = "target" /\ Other("target") = "initiator" /\ "initiator" \in Boards /\ "target" \in Boards
  BY DEF Other, Boards
<1>1. ToTarget!Next
  <2>1. CASE StreamLoses("initiator")
    BY <1>0, <2>1 DEF StreamLoses, ToTarget!Next, ToTarget!Lose
  <2>2. CASE StreamGives("initiator")
    <3> DEFINE m == came["initiator"]
    <3>1. m \in Nat /\ came'["initiator"] = m + 1
      BY <2>2 DEF StreamGives
    <3>2. m + 1 \in Nat /\ m + 1 > m /\ {m + 1} = m + 1 .. m + 1
      BY <3>1
    <3> QED
      BY <1>0, <2>2, <3>1, <3>2 DEF StreamGives, ToTarget!Next, ToTarget!Give
  <2>3. CASE StreamPutsOut("initiator")
    BY <1>0, <2>3 DEF StreamPutsOut, Delivers, ToTarget!Next, ToTarget!Deliver
  <2> QED
    BY <1>0, <2>1, <2>2, <2>3 DEF Streaming
<1>2. ToInitiator!Next
  <2>1. CASE StreamLoses("target")
    BY <1>0, <2>1 DEF StreamLoses, ToInitiator!Next, ToInitiator!Lose
  <2>2. CASE StreamGives("target")
    <3> DEFINE m == came["target"]
    <3>1. m \in Nat /\ came'["target"] = m + 1
      BY <2>2 DEF StreamGives
    <3>2. m + 1 \in Nat /\ m + 1 > m /\ {m + 1} = m + 1 .. m + 1
      BY <3>1
    <3> QED
      BY <1>0, <2>2, <3>1, <3>2 DEF StreamGives, ToInitiator!Next, ToInitiator!Give
  <2>3. CASE StreamPutsOut("target")
    BY <1>0, <2>3 DEF StreamPutsOut, Delivers, ToInitiator!Next, ToInitiator!Deliver
  <2> QED
    BY <1>0, <2>1, <2>2, <2>3 DEF Streaming
<1> QED
  BY <1>1, <1>2

\* main.c:60-85, 122-143: the bridge is a lossy stream in each direction, for FIFOs
\* and frames of every length and however many exchanges fail: no byte that was given
\* up comes out behind bytes that came after it.
THEOREM BridgeIsLossyStream == NfcSpec => CarriesStreams
<1>1. NfcInv /\ [NfcNext]_nfcVars =>
        [ToTarget!Next]_ToTarget!streamVars /\ [ToInitiator!Next]_ToInitiator!streamVars
  BY NfcStreams, StreamsGoOn
<1> QED
  BY <1>1, StreamStarts, NfcAlways, PTL DEF NfcSpec, CarriesStreams, ToTarget!Spec, ToInitiator!Spec

-----------------------------------------------------------------------------
(***************************************************************************)
(* UsbCom: wherever the host's fetch falls between the callback's accesses,*)
(* it gets every byte once and in order but those of packets of which one  *)
(* was put over the other.                                                 *)
(***************************************************************************)

\* The bytes EP1_IN_Callback has read from the FIFO.
Passed == accepted - Len(sendFIFO)

\* The places of the packet memory the host may read, and their bytes.
Readable == {i \in 1..PacketLen : i <= txCount \/ i <= sending}
Legible == {pma[i] : i \in Readable}

UsbShapes ==
  /\ accepted \in 0..UsbMaxBytes /\ frameCount \in 0..FrameInterval
  /\ sendFIFO \in Seq(Nat) /\ Len(sendFIFO) <= UsbFifoLen /\ Len(sendFIFO) <= accepted
  /\ usbRx \in Seq(Nat) /\ Len(usbRx) <= PacketLen /\ Len(usbRx) <= Passed
  /\ loaded \in 0 .. Len(usbRx) + 1 /\ (Len(usbRx) = 0 => loaded = 0)
  /\ valid \in BOOLEAN
  /\ pma \in [1..PacketLen -> 0..Passed]
  /\ txCount \in 0..PacketLen /\ sending \in 0..PacketLen
  /\ sent \in Seq(Nat) /\ Len(sent) <= sending
  /\ fetched \in Seq(Nat) /\ mixed \in Seq(Nat)

\* The bytes in the FIFO and in the callback are the last that were written and read,
\* and the callback's are in the packet memory as far as it has come.
InTurn ==
  /\ \A i \in 1 .. Len(sendFIFO) : sendFIFO[i] = Passed + i
  /\ \A i \in 1 .. Len(usbRx) : usbRx[i] = Passed - Len(usbRx) + i
  /\ \A i \in 1 .. Len(usbRx) : i <= loaded => pma[i] = usbRx[i]
  /\ loaded > Len(usbRx) => txCount = Len(usbRx)

\* What the host may read was written, and a fetch makes no packet valid.
Sensible ==
  /\ \A i \in Readable : pma[i] # 0
  /\ \A i \in 1 .. Len(sent) : sent[i] \in 1..Passed
  /\ exposed \subseteq 1..Passed
  /\ ~valid => sending = 0

\* No byte is at two places of packets.
Places ==
  /\ \A i, j \in 1..PacketLen : pma[i] = pma[j] /\ pma[i] # 0 => i = j
  /\ \A i \in 1 .. Len(sent), j \in 1..PacketLen : sent[i] = pma[j] => i = j
  /\ \A i, j \in 1 .. Len(sent) : sent[i] = sent[j] => i = j
  /\ \A i \in 1 .. Len(usbRx), j \in 1..PacketLen : usbRx[i] = pma[j] => i = j
  /\ \A i \in 1 .. Len(usbRx), j \in 1 .. Len(sent) : usbRx[i] = sent[j] => i = j

\* A byte that is in a run at most once, and one that is in it at most twice.
Once(run, b) == \A i, j \in DOMAIN run : run[i] = b /\ run[j] = b => i = j
Twice(run, b) ==
  \A i, j, k \in DOMAIN run : i < j /\ j < k => ~(run[i] = b /\ run[j] = b /\ run[k] = b)

NeverThrice ==
  /\ \A b \in Nat : Twice(mixed, b)
  /\ \A i \in 1 .. Len(usbRx) : Once(mixed, usbRx[i])
  /\ valid => /\ \A i \in 1 .. Len(usbRx) : usbRx[i] \notin BytesOf(mixed)
              /\ \A b \in Legible \cup BytesOf(sent) : Once(mixed, b)

\* The packet on offer was put over another, ...
Overwritten == Legible \cup BytesOf(usbRx) \cup BytesOf(sent) \subseteq exposed

\* ... or it is the last that was read from the FIFO, as it was read.
AsRead ==
  /\ usbRx = <<>> /\ txCount <= Passed /\ sending \in {0, txCount}
  /\ \A i \in 1..txCount : pma[i] = Passed - txCount + i /\ pma[i] \notin exposed
  /\ \A i \in 1 .. Len(sent) : sent[i] = Passed - txCount + i
  /\ \A i \in 1 .. Len(fetched) : fetched[i] <= Passed - txCount

Offered ==
  /\ valid => Overwritten \/ AsRead
  /\ ~valid => BytesOf(usbRx) \subseteq exposed \/ BytesOf(usbRx) \cap exposed = {}

Arrived ==
  /\ \A i, j \in 1 .. Len(fetched) : i < j => fetched[i] < fetched[j]
  /\ \A i \in 1 .. Len(fetched) : fetched[i] \in 1 .. Passed - Len(usbRx) /\ fetched[i] \notin exposed
  /\ 1..Passed \subseteq BytesOf(fetched) \cup BytesOf(usbRx) \cup OnOffer \cup exposed
  /\ BytesOf(mixed) \subseteq exposed

UsbInv == UsbShapes /\ InTurn /\ Sensible /\ Places /\ NeverThrice /\ Offered /\ Arrived
-----------------------------------------------------------------------------

\* The sequences and what they are made of.
LEMMA UsbSequences ==
  UsbShapes =>
    /\ DOMAIN sendFIFO = 1 .. Len(sendFIFO) /\ Len(sendFIFO) \in Nat
    /\ DOMAIN usbRx = 1 .. Len(usbRx) /\ Len(usbRx) \in Nat
    /\ DOMAIN sent = 1 .. Len(sent) /\ Len(sent) \in Nat
    /\ DOMAIN fetched = 1 .. Len(fetched) /\ Len(fetched) \in Nat
    /\ DOMAIN mixed = 1 .. Len(mixed) /\ Len(mixed) \in Nat
    /\ PacketLen \in Nat /\ PacketLen > 0 /\ UsbMaxBytes \in Nat /\ FrameInterval \in Nat
    /\ UsbFifoLen \in Nat /\ UsbFifoLen > 0
    /\ accepted \in Nat /\ Passed \in Nat /\ Passed = accepted - Len(sendFIFO) /\ loaded \in Nat
    /\ txCount \in Nat /\ sending \in Nat
<1> SUFFICES ASSUME UsbShapes
    PROVE  /\ DOMAIN sendFIFO = 1 .. Len(sendFIFO) /\ Len(sendFIFO) \in Nat
           /\ DOMAIN usbRx = 1 .. Len(usbRx) /\ Len(usbRx) \in Nat
           /\ DOMAIN sent = 1 .. Len(sent) /\ Len(sent) \in Nat
           /\ DOMAIN fetched = 1 .. Len(fetched) /\ Len(fetched) \in Nat
           /\ DOMAIN mixed = 1 .. Len(mixed) /\ Len(mixed) \in Nat
           /\ PacketLen \in Nat /\ PacketLen > 0 /\ UsbMaxBytes \in Nat /\ FrameInterval \in Nat
           /\ UsbFifoLen \in Nat /\ UsbFifoLen > 0
           /\ accepted \in Nat /\ Passed \in Nat /\ Passed = accepted - Len(sendFIFO) /\ loaded \in Nat
           /\ txCount \in Nat /\ sending \in Nat
  OBVIOUS
<1>1. /\ DOMAIN sendFIFO = 1 .. Len(sendFIFO) /\ Len(sendFIFO) \in Nat
      /\ DOMAIN usbRx = 1 .. Len(usbRx) /\ Len(usbRx) \in Nat
      /\ DOMAIN sent = 1 .. Len(sent) /\ Len(sent) \in Nat
      /\ DOMAIN fetched = 1 .. Len(fetched) /\ Len(fetched) \in Nat
      /\ DOMAIN mixed = 1 .. Len(mixed) /\ Len(mixed) \in Nat
  BY LenProperties DEF UsbShapes
<1>2. accepted \in Nat /\ loaded \in Nat /\ txCount \in Nat /\ sending \in Nat
  BY <1>1, UsbAssumption DEF UsbShapes
<1> QED
  BY <1>1, <1>2, UsbAssumption DEF UsbShapes, Passed

\* No bytes are written, no packet is made.
LEMMA UsbStarts == UsbInit => UsbInv
<1> SUFFICES ASSUME UsbInit PROVE UsbInv
  OBVIOUS
<1>1. Len(<<>>) = 0 /\ <<>> \in Seq(Nat) /\ DOMAIN <<>> = {}
  BY EmptySeq
<1>a. 1..0 = {}
  OBVIOUS
<1>2. Passed = 0
  <2>1. accepted = 0 /\ Len(sendFIFO) = 0
    BY <1>1 DEF UsbInit
  <2> QED
    BY <2>1 DEF Passed
<1>b. Readable = {}
  BY UsbAssumption DEF UsbInit, Readable
<1>c. Legible = {}
  BY <1>b DEF Legible
<1>3. UsbShapes
  <2>1. pma \in [1..PacketLen -> 0..Passed]
    BY <1>2 DEF UsbInit
  <2>2. /\ Len(sendFIFO) = 0 /\ Len(usbRx) = 0 /\ Len(sent) = 0
        /\ sendFIFO \in Seq(Nat) /\ usbRx \in Seq(Nat) /\ sent \in Seq(Nat) /\ fetched \in Seq(Nat)
        /\ mixed \in Seq(Nat)
    BY <1>1 DEF UsbInit
  <2>3. accepted = 0 /\ frameCount = 0 /\ loaded = 0 /\ valid \in BOOLEAN /\ txCount = 0
        /\ sending = 0
    BY DEF UsbInit
  <2> QED
    BY <1>2, <2>1, <2>2, <2>3, UsbAssumption DEF UsbShapes
<1>4. InTurn /\ Sensible /\ Places
  <2>1. sendFIFO = <<>> /\ usbRx = <<>> /\ sent = <<>> /\ exposed = {} /\ loaded = 0 /\ sending = 0
    BY DEF UsbInit
  <2>2. 1 .. Len(sendFIFO) = {} /\ 1 .. Len(usbRx) = {} /\ 1 .. Len(sent) = {} /\ Len(usbRx) = 0
    BY <1>1, <1>a, <2>1
  <2>3. InTurn
    BY <2>1, <2>2 DEF InTurn
  <2>4. Sensible
    BY <1>b, <2>1, <2>2 DEF Sensible
  <2>5. \A i \in 1..PacketLen : pma[i] = 0
    BY DEF UsbInit
  <2> QED
    BY <2>2, <2>3, <2>4, <2>5 DEF Places
<1>5. NeverThrice /\ Offered
  BY <1>1, <1>a, <1>2, <1>c DEF UsbInit, NeverThrice, Offered, BytesOf, Once, Twice
<1>6. Arrived
  BY <1>1, <1>a, <1>2 DEF UsbInit, Arrived, BytesOf
<1> QED
  BY <1>3, <1>4, <1>5, <1>6 DEF UsbInv

\* Steps that change nothing the invariant speaks of.
LEMMA FramesKeep ==
  ASSUME UsbInv, frameCount' \in 0..FrameInterval,
         UNCHANGED <<callbackVars, loaded, pma, txCount, valid, hostVars, accepted>>
  PROVE  UsbInv'
<1> USE DEF callbackVars, hostVars
<1>1. Passed' = Passed /\ Readable' = Readable /\ Legible' = Legible /\ OnOffer' = OnOffer
  BY DEF Passed, Readable, Legible, OnOffer
<1>2. UsbShapes' /\ InTurn' /\ Sensible' /\ Places'
  BY <1>1, SMTT(20) DEF UsbInv, UsbShapes, InTurn, Sensible, Places
<1>3. NeverThrice'
  <2>1. mixed' = mixed /\ usbRx' = usbRx /\ sent' = sent /\ valid' = valid
    OBVIOUS
  <2>2. NeverThrice
    BY DEF UsbInv
  <2>3. \A b \in Nat : Twice(mixed, b)'
    BY <2>1, <2>2 DEF NeverThrice, Twice
  <2>4. \A i \in 1 .. Len(usbRx') : Once(mixed, usbRx[i])'
    BY <2>1, <2>2 DEF NeverThrice, Once
  <2>5. CASE valid'
    <3>1. \A i \in 1 .. Len(usbRx') : usbRx'[i] \notin BytesOf(mixed)'
      BY <2>1, <2>2, <2>5 DEF NeverThrice, BytesOf
    <3>2. \A b \in Legible' \cup BytesOf(sent)' : Once(mixed, b)'
      BY <1>1, <2>1, <2>2, <2>5 DEF NeverThrice, Once, BytesOf
    <3> QED
      BY <2>3, <2>4, <3>1, <3>2 DEF NeverThrice
  <2> QED
    BY <2>3, <2>4, <2>5 DEF NeverThrice
<1>4. Offered'
  BY <1>1 DEF UsbInv, Offered, Overwritten, AsRead, BytesOf
<1>5. Arrived'
  BY <1>1 DEF UsbInv, Arrived, BytesOf
<1> QED
  BY <1>2, <1>3, <1>4, <1>5 DEF UsbInv

\* The program writes.
LEMMA WriteKeeps ==
  ASSUME UsbInv, NEW len \in 1..UsbFifoLen, USBComWrite(len)
  PROVE  UsbInv'
<1> DEFINE room == UsbFifoLen - Len(sendFIFO)
           n == IF len < room THEN len ELSE room
           t == [i \in 1..n |-> accepted + i]
<1> USE DEF callbackVars, hostVars
<1>1. /\ UsbShapes /\ Len(sendFIFO) \in Nat /\ Len(sendFIFO) <= UsbFifoLen /\ accepted \in Nat
      /\ UsbFifoLen \in Nat /\ sendFIFO \in Seq(Nat)
  BY UsbSequences DEF UsbInv, UsbShapes
<1>2. n \in Nat /\ Len(sendFIFO) + n <= UsbFifoLen
  BY <1>1
<1>3. sendFIFO' = sendFIFO \o t /\ accepted' = accepted + n /\ accepted' <= UsbMaxBytes
  BY DEF USBComWrite
<1>u. UNCHANGED <<usbRx, exposed, loaded, configured, frameCount, pma, txCount, valid, pending, hostVars>>
  BY DEF USBComWrite
<1> HIDE DEF n
<1>4. t \in Seq(Nat) /\ Len(t) = n
  BY <1>1, <1>2, NewBytes DEF Runs
<1>5. \A i \in 1..n : t[i] = accepted + i
  OBVIOUS
<1> HIDE DEF t
<1>6. /\ sendFIFO' \in Seq(Nat) /\ Len(sendFIFO') = Len(sendFIFO) + n
      /\ \A i \in 1 .. Len(sendFIFO') :
           sendFIFO'[i] = IF i <= Len(sendFIFO) THEN sendFIFO[i] ELSE t[i - Len(sendFIFO)]
  BY <1>1, <1>3, <1>4, ConcatProperties
<1>7. Passed' = Passed /\ Readable' = Readable /\ Legible' = Legible /\ OnOffer' = OnOffer
  BY <1>1, <1>2, <1>3, <1>6, <1>u DEF Passed, Readable, Legible, OnOffer
<1>8. UsbShapes'
  BY <1>1, <1>2, <1>3, <1>6, <1>7, <1>u, SMTT(20) DEF UsbInv, UsbShapes
<1>9. InTurn'
  <2>1. ASSUME NEW i \in 1 .. Len(sendFIFO') PROVE sendFIFO'[i] = Passed' + i
    <3>1. Passed = accepted - Len(sendFIFO)
      BY DEF Passed
    <3>2. CASE i <= Len(sendFIFO)
      BY <1>1, <1>6, <1>7, <3>2, SMTT(20) DEF UsbInv, InTurn
    <3>3. CASE ~(i <= Len(sendFIFO))
      <4>1. i - Len(sendFIFO) \in 1..n
        BY <1>1, <1>2, <1>6, <3>3
      <4>2. t[i - Len(sendFIFO)] = accepted + (i - Len(sendFIFO))
        BY <1>5, <4>1
      <4>3. sendFIFO'[i] = accepted + (i - Len(sendFIFO))
        BY <1>6, <3>3, <4>2
      <4> QED
        BY <1>1, <1>6, <1>7, <3>1, <4>3
    <3> QED
      BY <3>2, <3>3
  <2> QED
    BY <1>7, <1>u, <2>1 DEF UsbInv, InTurn
<1>10. Sensible' /\ Places'
  BY <1>7, <1>u DEF UsbInv, Sensible, Places
<1>11. NeverThrice'
  BY <1>7, <1>u DEF UsbInv, NeverThrice, Once, Twice, BytesOf
<1>12. Offered'
  BY <1>7, <1>u DEF UsbInv, Offered, Overwritten, AsRead, BytesOf
<1>13. Arrived'
  BY <1>7, <1>u DEF UsbInv, Arrived, BytesOf
<1> QED
  BY <1>8, <1>9, <1>10, <1>11, <1>12, <1>13 DEF UsbInv

\* What EP1_IN_Callback reads.
LEMMA CallbackCuts ==
  ASSUME UsbShapes, InTurn, usbRx = <<>>, EP1_IN_Callback, UNCHANGED accepted
  PROVE  /\ usbRx' \in Seq(Nat) /\ sendFIFO' \in Seq(Nat)
         /\ Len(usbRx') \in Nat /\ Len(usbRx') <= PacketLen /\ Len(usbRx') <= Len(sendFIFO)
         /\ Len(sendFIFO') = Len(sendFIFO) - Len(usbRx')
         /\ Passed' = Passed + Len(usbRx')
         /\ \A i \in 1 .. Len(usbRx') : usbRx'[i] = Passed + i
         /\ \A i \in 1 .. Len(sendFIFO') : sendFIFO'[i] = Passed' + i
         /\ sendFIFO = <<>> => usbRx' = <<>> /\ Len(usbRx') = 0
<1> DEFINE n == PacketSize
<1>1. sendFIFO \in Seq(Nat) /\ Len(sendFIFO) \in Nat /\ Passed = accepted - Len(sendFIFO)
      /\ accepted \in Nat /\ PacketLen \in Nat
  BY UsbSequences DEF UsbShapes
<1>2. n \in 0 .. Len(sendFIFO) /\ n <= PacketLen /\ n \in Nat
  BY <1>1 DEF PacketSize
<1>3. usbRx' = SubSeq(sendFIFO, 1, n) /\ sendFIFO' = SubSeq(sendFIFO, n + 1, Len(sendFIFO))
  BY DEF EP1_IN_Callback
<1> HIDE DEF n
<1>4. /\ usbRx' \in Seq(Nat) /\ Len(usbRx') = n
      /\ sendFIFO' \in Seq(Nat) /\ Len(sendFIFO') = Len(sendFIFO) - n
  BY <1>1, <1>2, <1>3, CutInTwo, SMTT(20)
<1>5. \A i \in 1..n : usbRx'[i] = sendFIFO[i]
  <2>1. SubSeq(sendFIFO, 1, n) = [i \in 1..n |-> sendFIFO[i]]
    BY <1>1, <1>2
  <2> QED
    BY <1>3, <2>1
<1>6. \A i \in 1 .. Len(sendFIFO) - n : sendFIFO'[i] = sendFIFO[n + i]
  BY <1>1, <1>2, <1>3
<1>7. \A i \in 1 .. Len(sendFIFO) : sendFIFO[i] = Passed + i
  BY DEF InTurn
<1>8. Passed' = Passed + n
  BY <1>1, <1>2, <1>4 DEF Passed
<1>9. \A i \in 1..n : usbRx'[i] = Passed + i
  BY <1>1, <1>2, <1>5, <1>7
<1>10. ASSUME NEW i \in 1 .. Len(sendFIFO) - n PROVE sendFIFO'[i] = Passed' + i
  <2>1. n + i \in 1 .. Len(sendFIFO)
    BY <1>1, <1>2
  <2>2. sendFIFO'[i] = Passed + (n + i)
    BY <1>6, <1>7, <2>1
  <2> QED
    BY <1>1, <1>2, <1>8, <2>2, SMTT(20) DEF Passed
<1>11. sendFIFO = <<>> => usbRx' = <<>> /\ Len(usbRx') = 0
  <2> SUFFICES ASSUME sendFIFO = <<>> PROVE usbRx' = <<>> /\ Len(usbRx') = 0
    OBVIOUS
  <2>1. n = 0
    BY <1>2, EmptySeq
  <2> QED
    BY <1>4, <2>1, EmptySeq
<1> QED
  BY <1>2, <1>4, <1>8, <1>9, <1>10, <1>11

\* EP1_IN_Callback begins, and what it reads belongs to nobody yet.
LEMMA CallbackKeeps ==
  ASSUME UsbInv, usbRx = <<>>, EP1_IN_Callback, frameCount' \in 0..FrameInterval,
         UNCHANGED <<loaded, pma, txCount, valid, hostVars, accepted>>
  PROVE  UsbInv'
<1> USE DEF hostVars
<1>0. UsbShapes /\ InTurn /\ Sensible /\ Places /\ NeverThrice /\ Offered /\ Arrived
  BY DEF UsbInv
<1>1. /\ usbRx' \in Seq(Nat) /\ sendFIFO' \in Seq(Nat)
      /\ Len(usbRx') \in Nat /\ Len(usbRx') <= PacketLen /\ Len(usbRx') <= Len(sendFIFO)
      /\ Len(sendFIFO') = Len(sendFIFO) - Len(usbRx')
      /\ Passed' = Passed + Len(usbRx')
      /\ \A i \in 1 .. Len(usbRx') : usbRx'[i] = Passed + i
      /\ \A i \in 1 .. Len(sendFIFO') : sendFIFO'[i] = Passed' + i
      /\ sendFIFO = <<>> => usbRx' = <<>> /\ Len(usbRx') = 0
  BY <1>0, CallbackCuts
<1>2. /\ Len(sendFIFO) \in Nat /\ Len(sendFIFO) <= UsbFifoLen /\ Len(sendFIFO) <= accepted
      /\ Passed \in Nat /\ Passed = accepted - Len(sendFIFO) /\ accepted \in Nat
      /\ UsbFifoLen \in Nat /\ PacketLen \in Nat
      /\ Len(usbRx) = 0 /\ loaded = 0 /\ DOMAIN sent = 1 .. Len(sent) /\ DOMAIN mixed = 1 .. Len(mixed)
  BY <1>0, UsbSequences, EmptySeq DEF UsbShapes
<1>3. Passed' = accepted - Len(sendFIFO') /\ Passed' \in Nat
  BY <1>1, <1>2
<1>4. DOMAIN usbRx' = 1 .. Len(usbRx')
  BY <1>1, LenProperties
<1>5. Readable' = Readable /\ Legible' = Legible /\ OnOffer' = OnOffer
  BY DEF Readable, Legible, OnOffer
<1>6. UsbShapes'
  <2>1. pma' \in [1..PacketLen -> 0..Passed']
    <3>1. 0..Passed \subseteq 0..Passed'
      BY <1>1, <1>2, <1>3, SMTT(20)
    <3> QED
      BY <1>0, <3>1 DEF UsbShapes
  <2>2. Len(sendFIFO') <= UsbFifoLen /\ Len(sendFIFO') <= accepted' /\ Len(usbRx') <= Passed'
        /\ loaded' \in 0 .. Len(usbRx') + 1 /\ loaded' = 0
    BY <1>1, <1>2, <1>3, SMTT(20)
  <2> QED
    BY <1>0, <1>1, <2>1, <2>2 DEF UsbShapes
<1>7. InTurn'
  <2>1. \A i \in 1 .. Len(usbRx') : usbRx'[i] = Passed' - Len(usbRx') + i
    BY <1>1, <1>2
  <2>2. loaded' = 0
    BY <1>2
  <2> QED
    BY <1>1, <2>1, <2>2 DEF InTurn
<1>8. /\ \A i \in 1 .. Len(usbRx') : usbRx'[i] > Passed /\ usbRx'[i] \in 1..Passed' /\ usbRx'[i] \in Nat
  <2>1. ASSUME NEW i \in 1 .. Len(usbRx')
        PROVE  usbRx'[i] > Passed /\ usbRx'[i] \in 1..Passed' /\ usbRx'[i] \in Nat
    <3>1. usbRx'[i] = Passed + i /\ Passed' = Passed + Len(usbRx')
      BY <1>1
    <3>2. i \in Nat /\ i > 0 /\ i <= Len(usbRx')
      BY <1>1
    <3> QED
      BY <1>1, <1>2, <3>1, <3>2, SMTT(20)
  <2> QED
    BY <2>1
<1>9. 1..Passed \subseteq 1..Passed' /\ \A b : b \in 1..Passed => ~(b > Passed)
  BY <1>1, <1>2, <1>3, SMTT(20)
<1>10. OnOffer \subseteq Legible /\ Legible \subseteq 1..Passed /\ BytesOf(sent) \subseteq 1..Passed
  <2>1. ASSUME valid PROVE OnOffer \subseteq Legible
    BY <1>0, <1>2, <2>1 DEF OnOffer, Legible, Readable, UsbShapes
  <2>2. Legible \subseteq 1..Passed
    BY <1>0, <1>2, SMTT(20) DEF Legible, Readable, UsbShapes, Sensible
  <2>3. BytesOf(sent) \subseteq 1..Passed
    BY <1>0, <1>2 DEF BytesOf, Sensible
  <2> QED
    BY <2>1, <2>2, <2>3 DEF OnOffer
<1>11. BytesOf(usbRx') \subseteq 1..Passed' /\ BytesOf(usbRx') \cap 1..Passed = {}
  BY <1>4, <1>8, <1>9 DEF BytesOf
<1>12. exposed \subseteq exposed' /\ exposed' \subseteq exposed \cup OnOffer \cup BytesOf(usbRx')
  BY DEF EP1_IN_Callback
<1>13. Sensible'
  <2>1. exposed' \subseteq 1..Passed'
    BY <1>0, <1>9, <1>10, <1>11, <1>12 DEF Sensible
  <2> QED
    BY <1>0, <1>5, <1>9, <2>1 DEF Sensible
<1>14. Places'
  <2>1. \A i \in 1 .. Len(usbRx'), j \in 1..PacketLen : usbRx'[i] # pma[j]
    BY <1>0, <1>2, <1>8, SMTT(20) DEF UsbShapes
  <2>2. \A i \in 1 .. Len(usbRx'), j \in 1 .. Len(sent) : usbRx'[i] # sent[j]
    BY <1>0, <1>2, <1>8 DEF Sensible
  <2> QED
    BY <1>0, <2>1, <2>2 DEF Places
<1>15. NeverThrice'
  <2>1. \A i \in 1 .. Len(usbRx') : usbRx'[i] \notin BytesOf(mixed)
    <3>1. BytesOf(mixed) \subseteq 1..Passed
      BY <1>0 DEF Arrived, Sensible
    <3> QED
      BY <1>8, <1>9, <3>1
  <2>2. \A i \in 1 .. Len(usbRx') : Once(mixed, usbRx'[i])
    BY <1>2, <2>1 DEF Once, BytesOf
  <2> QED
    BY <1>0, <1>5, <2>1, <2>2 DEF NeverThrice, Once, Twice, BytesOf
<1>16. Offered'
  <2>1. CASE ~valid
    <3>1. exposed' = exposed /\ exposed \subseteq 1..Passed
      BY <1>0, <2>1 DEF EP1_IN_Callback, Sensible
    <3>2. BytesOf(usbRx') \cap exposed' = {}
      BY <1>11, <3>1
    <3>3. BytesOf(usbRx)' = BytesOf(usbRx')
      BY DEF BytesOf
    <3> QED
      BY <2>1, <3>2, <3>3 DEF Offered
  <2>2. CASE valid /\ sendFIFO = <<>>
    <3>1. exposed' = exposed /\ usbRx' = usbRx /\ Passed' = Passed
      BY <1>1, <1>2, <2>2 DEF EP1_IN_Callback
    <3> QED
      BY <1>0, <1>5, <2>2, <3>1 DEF Offered, Overwritten, AsRead, BytesOf
  <2>3. CASE valid /\ sendFIFO # <<>>
    <3>1. exposed' = exposed \cup OnOffer \cup BytesOf(usbRx')
      BY <2>3 DEF EP1_IN_Callback
    <3>2. Legible \cup BytesOf(sent) \subseteq exposed \cup OnOffer
      <4>1. CASE Overwritten
        BY <4>1 DEF Overwritten
      <4>2. CASE AsRead
        <5>1. Legible \subseteq OnOffer
          BY <1>0, <1>2, <2>3, <4>2 DEF AsRead, Legible, Readable, OnOffer, UsbShapes
        <5>2. BytesOf(sent) \subseteq OnOffer
          <6>1. Len(sent) \in Nat /\ Len(sent) <= sending /\ sending \in {0, txCount} /\ txCount \in Nat
            BY <1>0, <4>2, UsbSequences DEF UsbShapes, AsRead
          <6>2. \A i \in 1 .. Len(sent) : i \in 1..txCount
            BY <6>1
          <6>3. \A i \in 1 .. Len(sent) : sent[i] = pma[i]
            BY <4>2, <6>2 DEF AsRead
          <6> QED
            BY <1>2, <2>3, <6>2, <6>3 DEF BytesOf, OnOffer
        <5> QED
          BY <5>1, <5>2
      <4> QED
        BY <1>0, <2>3, <4>1, <4>2 DEF Offered
    <3>3. Overwritten'
      BY <1>5, <3>1, <3>2 DEF Overwritten, BytesOf
    <3> QED
      BY <2>3, <3>3 DEF Offered
  <2> QED
    BY <2>1, <2>2, <2>3
<1>17. Arrived'
  <2>1. \A i \in 1 .. Len(fetched) : fetched[i] \in 1..Passed /\ fetched[i] \notin exposed
    BY <1>0, <1>2 DEF Arrived
  <2>2. ASSUME NEW i \in 1 .. Len(fetched) PROVE fetched[i] \notin exposed'
    <3>1. fetched[i] \notin BytesOf(usbRx')
      BY <1>11, <2>1
    <3>2. CASE exposed' = exposed
      BY <2>1, <3>2
    <3>3. CASE exposed' # exposed
      <4>1. valid
        BY <3>3 DEF EP1_IN_Callback
      <4>2. fetched[i] \notin OnOffer
        <5>1. CASE Overwritten
          BY <1>10, <2>1, <5>1 DEF Overwritten
        <5>2. CASE AsRead
          <6>1. \A j \in 1..txCount : pma[j] = Passed - txCount + j
            BY <5>2 DEF AsRead
          <6>2. fetched[i] <= Passed - txCount /\ txCount \in Nat /\ fetched[i] \in Nat
            BY <1>0, <2>1, <5>2, UsbSequences, SMTT(20) DEF AsRead
          <6>3. \A j \in 1..txCount : pma[j] # fetched[i]
            BY <1>2, <6>1, <6>2
          <6> QED
            BY <6>3 DEF OnOffer
        <5> QED
          BY <1>0, <4>1, <5>1, <5>2 DEF Offered
      <4> QED
        BY <1>12, <2>1, <3>1, <4>2
    <3> QED
      BY <3>2, <3>3
  <2>3. 1..Passed' \subseteq BytesOf(fetched) \cup BytesOf(usbRx') \cup OnOffer \cup exposed'
    <3>1. ASSUME NEW b \in 1..Passed', b \notin 1..Passed PROVE b \in BytesOf(usbRx')
      <4>1. b - Passed \in 1 .. Len(usbRx') /\ Passed + (b - Passed) = b
        BY <1>1, <1>2, <3>1
      <4>2. usbRx'[b - Passed] = b
        BY <1>1, <4>1
      <4> QED
        BY <1>4, <4>1, <4>2 DEF BytesOf
    <3>2. 1..Passed \subseteq BytesOf(fetched) \cup OnOffer \cup exposed'
      <4>1. BytesOf(usbRx) = {}
        BY EmptySeq DEF BytesOf
      <4> QED
        BY <1>0, <1>12, <4>1 DEF Arrived
    <3> QED
      BY <3>1, <3>2
  <2>4. Passed' - Len(usbRx') = Passed
    BY <1>1, <1>2
  <2> QED
    BY <1>0, <1>5, <1>12, <2>1, <2>2, <2>3, <2>4 DEF Arrived, BytesOf
<1> QED
  BY <1>6, <1>7, <1>13, <1>14, <1>15, <1>16, <1>17 DEF UsbInv

\* UserToPMABufferCopy copies a byte.
LEMMA CopyKeeps == ASSUME UsbInv, UserToPMABufferCopy PROVE UsbInv'
<1> USE DEF callbackVars, hostVars
<1>0. UsbShapes /\ InTurn /\ Sensible /\ Places /\ NeverThrice /\ Offered /\ Arrived
  BY DEF UsbInv
<1> DEFINE k == loaded + 1
           b == usbRx[k]
<1>1. /\ Len(usbRx) \in Nat /\ Len(usbRx) <= PacketLen /\ PacketLen \in Nat /\ Len(usbRx) <= Passed
      /\ Passed \in Nat /\ loaded \in Nat /\ loaded < Len(usbRx)
      /\ DOMAIN usbRx = 1 .. Len(usbRx) /\ DOMAIN sent = 1 .. Len(sent)
  BY <1>0, UsbSequences DEF UsbShapes, UserToPMABufferCopy
<1>2. k \in 1 .. Len(usbRx) /\ k \in 1..PacketLen /\ loaded' = k
  BY <1>1 DEF UserToPMABufferCopy
<1>3. b = Passed - Len(usbRx) + k /\ b \in 1..Passed /\ b # 0 /\ b \in BytesOf(usbRx)
  BY <1>0, <1>1, <1>2, SMTT(20) DEF InTurn, BytesOf
<1>4. pma' = [pma EXCEPT ![k] = b]
  BY DEF UserToPMABufferCopy
<1>u. UNCHANGED <<callbackVars, frameCount, txCount, valid, hostVars, accepted>>
  BY DEF UserToPMABufferCopy
<1>5. Passed' = Passed /\ Readable' = Readable
  BY <1>u DEF Passed, Readable
<1>6. pma \in [1..PacketLen -> 0..Passed]
  BY <1>0 DEF UsbShapes
<1> HIDE DEF k, b
<1>7. /\ \A i \in 1..PacketLen : pma'[i] = IF i = k THEN b ELSE pma[i]
      /\ pma' \in [1..PacketLen -> 0..Passed]
  BY <1>2, <1>3, <1>4, <1>6
<1>8. Legible' \subseteq Legible \cup BytesOf(usbRx) /\ OnOffer' \subseteq OnOffer \cup BytesOf(usbRx)
  <2>1. Legible' \subseteq Legible \cup BytesOf(usbRx)
    BY <1>3, <1>5, <1>7 DEF Legible, Readable
  <2>2. \A i \in 1..txCount : i \in 1..PacketLen
    BY <1>0, <1>1 DEF UsbShapes
  <2>3. OnOffer' \subseteq OnOffer \cup BytesOf(usbRx)
    BY <1>3, <1>7, <1>u, <2>2 DEF OnOffer
  <2> QED
    BY <2>1, <2>3
<1>9. usbRx # <<>>
  BY <1>1, EmptySeq
<1>10. UsbShapes'
  <2>1. loaded' \in 0 .. Len(usbRx') + 1 /\ (Len(usbRx') = 0 => loaded' = 0)
    BY <1>1, <1>2, <1>u
  <2> QED
    BY <1>0, <1>5, <1>7, <1>u, <2>1 DEF UsbShapes
<1>11. InTurn'
  <2>1. \A i \in 1 .. Len(usbRx) : i <= k => pma'[i] = usbRx[i]
    <3>1. \A i \in 1 .. Len(usbRx) : i \in 1..PacketLen /\ (i <= k => i = k \/ i <= loaded)
      BY <1>1 DEF k
    <3> QED
      BY <1>0, <1>7, <3>1 DEF InTurn, b
  <2>2. ~(k > Len(usbRx))
    BY <1>1, <1>2
  <2> QED
    BY <1>0, <1>2, <1>5, <1>u, <2>1, <2>2 DEF InTurn
<1>12. Sensible'
  <2>1. \A i \in Readable : pma'[i] # 0
    BY <1>0, <1>3, <1>7 DEF Sensible, Readable
  <2> QED
    BY <1>0, <1>5, <1>u, <2>1 DEF Sensible
<1>13. Places'
  <2>1. /\ \A i \in 1..PacketLen : pma[i] = b => i = k
        /\ \A i \in 1 .. Len(sent) : sent[i] = b => i = k
    BY <1>0, <1>2 DEF Places, b
  <2>2. ASSUME NEW i \in 1 .. Len(usbRx), usbRx[i] = b PROVE i = k
    <3>1. usbRx[i] = Passed - Len(usbRx) + i
      BY <1>0 DEF InTurn
    <3>2. i \in Int /\ k \in Int
      BY <1>1, <1>2
    <3>3. Passed - Len(usbRx) + i = Passed - Len(usbRx) + k
      BY <1>3, <2>2, <3>1
    <3>4. Passed - Len(usbRx) \in Int
      BY <1>1
    <3> QED
      BY <3>2, <3>3, <3>4
  <2>3. \A i, j \in 1..PacketLen : pma'[i] = pma'[j] /\ pma'[i] # 0 => i = j
    BY <1>0, <1>7, <2>1 DEF Places
  <2>4. \A i \in 1 .. Len(sent), j \in 1..PacketLen : sent[i] = pma'[j] => i = j
    BY <1>0, <1>7, <2>1 DEF Places
  <2>5. \A i \in 1 .. Len(usbRx), j \in 1..PacketLen : usbRx[i] = pma'[j] => i = j
    BY <1>0, <1>7, <2>2 DEF Places
  <2> QED
    BY <1>0, <1>u, <2>3, <2>4, <2>5 DEF Places
<1>14. NeverThrice'
  <2>1. valid => \A x \in Legible' \cup BytesOf(sent) : Once(mixed, x)
    <3>1. \A x \in BytesOf(usbRx) : Once(mixed, x)
      BY <1>0, <1>1 DEF NeverThrice, BytesOf
    <3> QED
      BY <1>0, <1>8, <3>1 DEF NeverThrice
  <2> QED
    BY <1>0, <1>u, <2>1 DEF NeverThrice, Once, Twice, BytesOf
<1>15. Offered'
  <2>1. valid => Overwritten
    BY <1>0, <1>9 DEF Offered, AsRead
  <2>2. Overwritten => Overwritten'
    BY <1>8, <1>u DEF Overwritten, BytesOf
  <2> QED
    BY <1>0, <1>u, <2>1, <2>2 DEF Offered, BytesOf
<1>16. Arrived'
  <2>1. valid => OnOffer \subseteq exposed
    <3>1. valid => Overwritten
      BY <1>0, <1>9 DEF Offered, AsRead
    <3>2. OnOffer \subseteq Legible
      BY <1>0, <1>1 DEF OnOffer, Legible, Readable, UsbShapes
    <3> QED
      BY <3>1, <3>2 DEF Overwritten
  <2>2. OnOffer \subseteq exposed
    BY <2>1 DEF OnOffer
  <2> QED
    BY <1>0, <1>5, <1>u, <2>2 DEF Arrived, BytesOf
<1> QED
  BY <1>10, <1>11, <1>12, <1>13, <1>14, <1>15, <1>16 DEF UsbInv

\* SetEPTxCount: the host may read what the callback has copied.
LEMMA CountKeeps == ASSUME UsbInv, SetEPTxCount PROVE UsbInv'
<1> USE DEF callbackVars, hostVars
<1>0. UsbShapes /\ InTurn /\ Sensible /\ Places /\ NeverThrice /\ Offered /\ Arrived
  BY DEF UsbInv
<1>1. /\ Len(usbRx) \in Nat /\ Len(usbRx) <= PacketLen /\ PacketLen \in Nat /\ Len(usbRx) <= Passed
      /\ Passed \in Nat /\ loaded = Len(usbRx) /\ usbRx # <<>> /\ Len(usbRx) > 0
      /\ DOMAIN usbRx = 1 .. Len(usbRx) /\ txCount \in Nat /\ sending \in Nat
  BY <1>0, UsbSequences, EmptySeq, SMTT(20) DEF UsbShapes, SetEPTxCount, CallbackDone
<1>u. /\ UNCHANGED <<callbackVars, frameCount, pma, valid, hostVars, accepted>>
      /\ loaded' = Len(usbRx) + 1 /\ txCount' = Len(usbRx)
  BY <1>1 DEF SetEPTxCount
<1>2. Passed' = Passed
  BY <1>u DEF Passed
<1>3. \A i \in 1 .. Len(usbRx) : pma[i] = usbRx[i] /\ pma[i] # 0 /\ i \in 1..PacketLen
  BY <1>0, <1>1 DEF InTurn
<1>4. Readable' \subseteq Readable \cup 1 .. Len(usbRx)
  BY <1>1, <1>u DEF Readable
<1>5. Legible' \subseteq Legible \cup BytesOf(usbRx) /\ OnOffer' \subseteq BytesOf(usbRx)
  BY <1>1, <1>3, <1>4, <1>u DEF Legible, OnOffer, BytesOf
<1>6. UsbShapes'
  <2>1. loaded' \in 0 .. Len(usbRx') + 1 /\ (Len(usbRx') = 0 => loaded' = 0) /\ txCount' \in 0..PacketLen
    BY <1>1, <1>u
  <2> QED
    BY <1>0, <1>2, <1>u, <2>1 DEF UsbShapes
<1>7. InTurn'
  BY <1>0, <1>1, <1>2, <1>u DEF InTurn
<1>8. Sensible' /\ Places'
  BY <1>0, <1>2, <1>3, <1>4, <1>u DEF Sensible, Places
<1>9. NeverThrice'
  <2>1. \A x \in BytesOf(usbRx) : Once(mixed, x)
    BY <1>0, <1>1 DEF NeverThrice, BytesOf
  <2>2. valid => \A x \in Legible' \cup BytesOf(sent) : Once(mixed, x)
    BY <1>0, <1>5, <2>1 DEF NeverThrice
  <2> QED
    BY <1>0, <1>u, <2>2 DEF NeverThrice, Once, Twice, BytesOf
<1>10. valid => Overwritten
  BY <1>0, <1>1 DEF Offered, AsRead
<1>11. Offered'
  <2>1. Overwritten => Overwritten'
    BY <1>5, <1>u DEF Overwritten, BytesOf
  <2> QED
    BY <1>0, <1>u, <1>10, <2>1 DEF Offered, BytesOf
<1>12. Arrived'
  <2>1. OnOffer \subseteq Legible
    BY <1>0, <1>1 DEF OnOffer, Legible, Readable, UsbShapes
  <2>2. OnOffer \subseteq exposed
    BY <1>10, <2>1 DEF Overwritten, OnOffer
  <2> QED
    BY <1>0, <1>2, <1>u, <2>2 DEF Arrived, BytesOf
<1> QED
  BY <1>6, <1>7, <1>8, <1>9, <1>11, <1>12 DEF UsbInv

\* SetEPTxValid: the packet is on offer, as it was read.
LEMMA ValidKeeps == ASSUME UsbInv, SetEPTxValid PROVE UsbInv'
<1> USE DEF callbackVars, hostVars
<1>0. UsbShapes /\ InTurn /\ Sensible /\ Places /\ NeverThrice /\ Offered /\ Arrived
  BY DEF UsbInv
<1>1. /\ Len(usbRx) \in Nat /\ Len(usbRx) <= PacketLen /\ PacketLen \in Nat /\ Len(usbRx) <= Passed
      /\ Passed \in Nat /\ loaded > Len(usbRx) /\ loaded \in Nat
      /\ DOMAIN usbRx = 1 .. Len(usbRx) /\ txCount \in Nat /\ sending \in Nat
      /\ DOMAIN sent = 1 .. Len(sent) /\ Len(sent) \in Nat /\ Len(sent) <= sending
      /\ DOMAIN fetched = 1 .. Len(fetched)
  BY <1>0, UsbSequences DEF UsbShapes, SetEPTxValid
<1>u. /\ UNCHANGED <<sendFIFO, exposed, frameCount, pma, txCount, hostVars, accepted>>
      /\ loaded' = 0 /\ usbRx' = <<>> /\ valid' = TRUE
  BY DEF SetEPTxValid
<1>2. Passed' = Passed /\ Readable' = Readable /\ Legible' = Legible
  BY <1>u DEF Passed, Readable, Legible
<1>3. txCount = Len(usbRx) /\ \A i \in 1 .. Len(usbRx) : pma[i] = usbRx[i] /\ i \in 1..PacketLen
  <2>1. \A i \in 1 .. Len(usbRx) : i <= loaded /\ i \in 1..PacketLen
    BY <1>1
  <2> QED
    BY <1>0, <1>1, <2>1 DEF InTurn
<1>4. OnOffer' = BytesOf(usbRx)
  BY <1>1, <1>3, <1>u DEF OnOffer, BytesOf
<1>5. Len(usbRx') = 0 /\ usbRx' \in Seq(Nat) /\ BytesOf(usbRx') = {} /\ 1 .. Len(usbRx') = {}
  BY <1>u, EmptySeq DEF BytesOf
<1>6. UsbShapes'
  BY <1>0, <1>1, <1>2, <1>5, <1>u, SMTT(20) DEF UsbShapes
<1>7. InTurn'
  <2>1. ~(loaded' > Len(usbRx'))
    BY <1>5, <1>u
  <2> QED
    BY <1>0, <1>2, <1>5, <1>u, <2>1 DEF InTurn
<1>8. Sensible' /\ Places'
  BY <1>0, <1>2, <1>5, <1>u DEF Sensible, Places
<1>9. ~valid => sending = 0 /\ Len(sent) = 0 /\ Legible = BytesOf(usbRx) /\ BytesOf(sent) = {}
  <2> SUFFICES ASSUME ~valid
               PROVE  sending = 0 /\ Len(sent) = 0 /\ Legible = BytesOf(usbRx) /\ BytesOf(sent) = {}
    OBVIOUS
  <2>1. sending = 0 /\ Len(sent) = 0
    BY <1>0, <1>1 DEF Sensible
  <2>2. BytesOf(sent) = {}
    BY <1>1, <2>1 DEF BytesOf
  <2>3. Readable = 1 .. Len(usbRx)
    BY <1>1, <1>3, <2>1 DEF Readable
  <2> QED
    BY <1>1, <1>3, <2>1, <2>2, <2>3 DEF Legible, BytesOf
<1>10. NeverThrice'
  <2>1. \A x \in BytesOf(usbRx) : Once(mixed, x)
    BY <1>0, <1>1 DEF NeverThrice, BytesOf
  <2>2. \A x \in Legible \cup BytesOf(sent) : Once(mixed, x)
    BY <1>0, <1>9, <2>1 DEF NeverThrice
  <2> QED
    BY <1>0, <1>2, <1>5, <1>u, <2>2 DEF NeverThrice, Once, Twice, BytesOf
<1>11. Offered'
  <2>1. CASE Overwritten
    BY <1>2, <1>5, <1>u, <2>1 DEF Overwritten, Offered, BytesOf
  <2>2. CASE ~valid /\ BytesOf(usbRx) \subseteq exposed
    BY <1>2, <1>5, <1>9, <1>u, <2>2 DEF Overwritten, Offered, BytesOf
  <2>3. CASE ~valid /\ BytesOf(usbRx) \cap exposed = {}
    <3>1. \A i \in 1..txCount : pma[i] = Passed - txCount + i /\ pma[i] \notin exposed
      BY <1>0, <1>1, <1>3, <2>3 DEF InTurn, BytesOf
    <3>2. \A i \in 1 .. Len(sent) : FALSE
      BY <1>9, <2>3
    <3>3. \A i \in 1 .. Len(fetched) : fetched[i] <= Passed - txCount
      BY <1>0, <1>1, <1>3 DEF Arrived
    <3>4. txCount <= Passed /\ sending \in {0, txCount}
      BY <1>1, <1>3, <1>9, <2>3
    <3> QED
      BY <1>2, <1>u, <3>1, <3>2, <3>3, <3>4 DEF Offered, AsRead
  <2>4. CASE valid /\ AsRead
    BY <1>1, <2>4, EmptySeq, <1>0 DEF AsRead, UsbShapes
  <2> QED
    BY <1>0, <2>1, <2>2, <2>3, <2>4 DEF Offered
<1>12. Arrived'
  <2>1. OnOffer \subseteq exposed
    <3>1. usbRx # <<>>
      BY <1>0, <1>1, EmptySeq DEF UsbShapes
    <3>2. valid => Overwritten
      BY <1>0, <3>1 DEF Offered, AsRead
    <3>3. OnOffer \subseteq Legible
      BY <1>1, <1>3 DEF OnOffer, Legible, Readable
    <3> QED
      BY <3>2, <3>3 DEF Overwritten, OnOffer
  <2>2. \A i \in 1 .. Len(fetched) : fetched[i] \in 1 .. Passed
    BY <1>0, <1>1 DEF Arrived
  <2>3. 1 .. Passed' - Len(usbRx') = 1 .. Passed
    BY <1>1, <1>2, <1>5
  <2>4. 1..Passed \subseteq BytesOf(fetched) \cup BytesOf(usbRx') \cup OnOffer' \cup exposed
    BY <1>0, <1>4, <2>1 DEF Arrived
  <2> QED
    BY <1>0, <1>2, <1>u, <2>2, <2>3, <2>4 DEF Arrived, BytesOf
<1> QED
  BY <1>6, <1>7, <1>8, <1>10, <1>11, <1>12 DEF UsbInv

\* The host asks for the packet.
LEMMA AskKeeps == ASSUME UsbInv, InToken PROVE UsbInv'
<1> USE DEF callbackVars, hostVars
<1>0. UsbShapes /\ InTurn /\ Sensible /\ Places /\ NeverThrice /\ Offered /\ Arrived
  BY DEF UsbInv
<1>1. /\ valid /\ sending = 0 /\ sending' = txCount
      /\ UNCHANGED <<callbackVars, loaded, frameCount, pma, txCount, valid, sent, fetched, mixed,
                     accepted>>
  BY DEF InToken
<1>2. /\ DOMAIN sent = 1 .. Len(sent) /\ Len(sent) \in Nat /\ Len(sent) <= sending
      /\ txCount \in Nat /\ txCount \in 0..PacketLen
  BY <1>0, UsbSequences DEF UsbShapes
<1>3. Passed' = Passed /\ OnOffer' = OnOffer
  BY <1>1 DEF Passed, OnOffer
<1>4. Readable' = Readable
  BY <1>1, <1>2 DEF Readable
<1>5. Legible' = Legible
  BY <1>1, <1>4 DEF Legible
<1>6. UsbShapes'
  <2>1. Len(sent') <= sending' /\ sending' \in 0..PacketLen
    BY <1>1, <1>2
  <2> QED
    BY <1>0, <1>1, <1>3, <2>1 DEF UsbShapes
<1>7. InTurn' /\ Places'
  BY <1>0, <1>1, <1>3 DEF InTurn, Places
<1>a. Sensible'
  <2>1. valid'
    BY <1>1
  <2> QED
    BY <1>0, <1>1, <1>3, <1>4, <2>1 DEF Sensible
<1>8. NeverThrice'
  <2>1. UNCHANGED <<usbRx, valid, sent, mixed>>
    BY <1>1
  <2> QED
    BY <1>0, <1>5, <2>1 DEF NeverThrice, Once, Twice, BytesOf
<1>9. Offered'
  BY <1>0, <1>1, <1>3, <1>5 DEF Offered, Overwritten, AsRead, BytesOf
<1>10. Arrived'
  BY <1>0, <1>1, <1>3 DEF Arrived, BytesOf
<1> QED
  BY <1>6, <1>7, <1>a, <1>8, <1>9, <1>10 DEF UsbInv

\* The host gets a byte.
LEMMA TransmitKeeps == ASSUME UsbInv, Transmit PROVE UsbInv'
<1> USE DEF callbackVars, hostVars
<1>0. UsbShapes /\ InTurn /\ Sensible /\ Places /\ NeverThrice /\ Offered /\ Arrived
  BY DEF UsbInv
<1> DEFINE k == Len(sent) + 1
           b == pma[k]
<1>1. /\ DOMAIN sent = 1 .. Len(sent) /\ Len(sent) \in Nat /\ Len(sent) < sending
      /\ sending \in Nat /\ sending <= PacketLen /\ PacketLen \in Nat /\ Passed \in Nat
      /\ sent \in Seq(Nat) /\ txCount \in Nat
  BY <1>0, UsbSequences, SMTT(20) DEF UsbShapes, Transmit
<1>2. k \in 1..PacketLen /\ k <= sending /\ k \in Readable
  BY <1>1 DEF Readable
<1>3. b \in 1..Passed /\ b \in Legible /\ b \in Nat
  <2>1. b \in 0..Passed
    BY <1>0, <1>2 DEF UsbShapes
  <2>2. b # 0
    BY <1>0, <1>2 DEF Sensible
  <2>3. b \in Legible
    BY <1>2 DEF Legible
  <2> QED
    BY <1>1, <2>1, <2>2, <2>3
<1>4. sent' = Append(sent, b)
  BY DEF Transmit
<1>u. UNCHANGED <<callbackVars, loaded, frameCount, pma, txCount, valid, sending, fetched, mixed, accepted>>
  BY DEF Transmit
<1> HIDE DEF b
<1>5. /\ sent' \in Seq(Nat) /\ Len(sent') = k
      /\ \A i \in 1 .. k : sent'[i] = IF i = k THEN b ELSE sent[i]
  BY <1>1, <1>3, <1>4, AppendProperties
<1>6. DOMAIN sent' = 1 .. k /\ \A i \in 1 .. k : i = k \/ i \in 1 .. Len(sent)
  BY <1>1, <1>5, LenProperties
<1> HIDE DEF k
<1>7. BytesOf(sent)' = BytesOf(sent') /\ BytesOf(sent') \subseteq BytesOf(sent) \cup {b}
  BY <1>1, <1>5, <1>6 DEF BytesOf
<1>8. Passed' = Passed /\ OnOffer' = OnOffer /\ Readable' = Readable /\ Legible' = Legible
  BY <1>u DEF Passed, OnOffer, Readable, Legible
<1>9. UsbShapes'
  BY <1>0, <1>1, <1>2, <1>5, <1>8, <1>u DEF UsbShapes
<1>10. InTurn'
  BY <1>0, <1>8, <1>u DEF InTurn
<1>11. Sensible'
  <2>1. \A i \in 1 .. k : sent'[i] \in 1..Passed
    BY <1>0, <1>3, <1>5, <1>6 DEF Sensible
  <2> QED
    BY <1>0, <1>5, <1>8, <1>u, <2>1 DEF Sensible
<1>12. Places'
  <2>1. /\ \A j \in 1..PacketLen : pma[j] = b => k = j
        /\ \A i \in 1 .. Len(sent) : sent[i] = b => i = k
        /\ \A i \in 1 .. Len(usbRx) : usbRx[i] = b => i = k
    <3>1. b # 0
      BY <1>3
    <3> QED
      BY <1>0, <1>2, <3>1 DEF Places, b
  <2>2. ASSUME NEW i \in 1 .. k, NEW j \in 1..PacketLen, sent'[i] = pma[j] PROVE i = j
    BY <1>0, <1>5, <1>6, <2>1, <2>2 DEF Places
  <2>3. ASSUME NEW i \in 1 .. k, NEW j \in 1 .. k, sent'[i] = sent'[j] PROVE i = j
    <3>1. sent'[i] = (IF i = k THEN b ELSE sent[i]) /\ sent'[j] = (IF j = k THEN b ELSE sent[j])
      BY <1>5
    <3> QED
      BY <1>0, <1>6, <2>1, <2>3, <3>1 DEF Places
  <2>4. ASSUME NEW i \in 1 .. Len(usbRx), NEW j \in 1 .. k, usbRx[i] = sent'[j] PROVE i = j
    <3>1. sent'[j] = (IF j = k THEN b ELSE sent[j])
      BY <1>5
    <3> QED
      BY <1>0, <1>6, <2>1, <2>4, <3>1 DEF Places
  <2> QED
    BY <1>0, <1>5, <1>u, <2>2, <2>3, <2>4 DEF Places
<1>13. NeverThrice'
  <2>1. valid => \A x \in Legible \cup BytesOf(sent') : Once(mixed, x)
    BY <1>0, <1>3, <1>7 DEF NeverThrice
  <2> QED
    BY <1>0, <1>7, <1>8, <1>u, <2>1 DEF NeverThrice, Once, Twice, BytesOf
<1>14. Offered'
  <2>1. Overwritten => Overwritten'
    BY <1>3, <1>7, <1>8, <1>u DEF Overwritten, BytesOf
  <2>2. AsRead => AsRead'
    <3> SUFFICES ASSUME AsRead PROVE AsRead'
      OBVIOUS
    <3>1. k \in 1..txCount
      BY <1>1, <1>2 DEF AsRead
    <3>2. b = Passed - txCount + k
      BY <3>1 DEF AsRead, b
    <3>3. \A i \in 1 .. k : sent'[i] = Passed - txCount + i
      BY <1>5, <1>6, <3>2 DEF AsRead
    <3> QED
      BY <1>5, <1>8, <1>u, <3>3 DEF AsRead
  <2> QED
    BY <1>0, <1>u, <2>1, <2>2 DEF Offered, BytesOf
<1>15. Arrived'
  BY <1>0, <1>8, <1>u DEF Arrived, BytesOf
<1> QED
  BY <1>9, <1>10, <1>11, <1>12, <1>13, <1>14, <1>15 DEF UsbInv

\* A run with each byte once, behind another.
LEMMA RunsMixed ==
  ASSUME NEW s \in Runs(Nat), NEW t \in Runs(Nat), \A i, j \in DOMAIN t : t[i] = t[j] => i = j
  PROVE  /\ BytesOf(Then(s, t)) = BytesOf(s) \cup BytesOf(t)
         /\ \A b : b \notin BytesOf(s) => Once(Then(s, t), b)
         /\ \A b : b \notin BytesOf(t) /\ Once(s, b) => Once(Then(s, t), b)
         /\ \A b : Once(s, b) => Twice(Then(s, t), b)
         /\ \A b : b \notin BytesOf(t) /\ Twice(s, b) => Twice(Then(s, t), b)
<1> DEFINE u == Then(s, t)
           m == Len(s)
           n == Len(t)
<1>1. /\ DOMAIN s = 1 .. m /\ DOMAIN t = 1 .. n /\ m \in Nat /\ n \in Nat
      /\ DOMAIN u = 1 .. m + n
      /\ \A i \in 1 .. m : u[i] = s[i]
      /\ \A i \in 1 .. n : u[m + i] = t[i]
  BY ThenElements
<1> HIDE DEF u, m, n
<1>2. ASSUME NEW i \in DOMAIN u
      PROVE  \/ i \in DOMAIN s /\ u[i] = s[i] /\ i <= m
             \/ i - m \in DOMAIN t /\ u[i] = t[i - m] /\ i > m
  <2>1. CASE i <= m
    BY <1>1, <2>1
  <2>2. CASE ~(i <= m)
    <3>1. i - m \in 1 .. n /\ m + (i - m) = i /\ i > m
      BY <1>1, <2>2
    <3> QED
      BY <1>1, <3>1
  <2> QED
    BY <2>1, <2>2
<1>3. \A i \in DOMAIN u : i \in Nat
  BY <1>1
<1>4. BytesOf(u) = BytesOf(s) \cup BytesOf(t)
  <2>1. BytesOf(u) \subseteq BytesOf(s) \cup BytesOf(t)
    BY <1>2 DEF BytesOf
  <2>2. \A i \in DOMAIN s : i \in DOMAIN u /\ u[i] = s[i]
    BY <1>1
  <2>3. \A i \in DOMAIN t : m + i \in DOMAIN u /\ u[m + i] = t[i]
    BY <1>1
  <2>4. BytesOf(s) \subseteq BytesOf(u)
    BY <2>2 DEF BytesOf
  <2>5. BytesOf(t) \subseteq BytesOf(u)
    BY <2>3 DEF BytesOf
  <2> QED
    BY <2>1, <2>4, <2>5
<1>5. ASSUME NEW i \in DOMAIN u, NEW j \in DOMAIN u, u[i] = u[j], i > m, j > m
      PROVE  i = j
  <2>1. i \in Nat /\ j \in Nat /\ m \in Nat /\ ~(i <= m) /\ ~(j <= m)
    BY <1>1, <1>3, <1>5
  <2>a. i - m \in DOMAIN t /\ u[i] = t[i - m] /\ j - m \in DOMAIN t /\ u[j] = t[j - m]
    BY <1>2, <2>1
  <2>2. i - m = j - m
    BY <1>5, <2>a
  <2> QED
    BY <1>1, <1>3, <2>2
<1>6. ASSUME NEW b, b \notin BytesOf(s) PROVE Once(u, b)
  <2> SUFFICES ASSUME NEW i \in DOMAIN u, NEW j \in DOMAIN u, u[i] = b, u[j] = b PROVE i = j
    BY DEF Once
  <2>1. i > m /\ j > m
    BY <1>2, <1>6 DEF BytesOf
  <2> QED
    BY <1>5, <2>1
<1>7. ASSUME NEW b, b \notin BytesOf(t), Once(s, b) PROVE Once(u, b)
  <2> SUFFICES ASSUME NEW i \in DOMAIN u, NEW j \in DOMAIN u, u[i] = b, u[j] = b PROVE i = j
    BY DEF Once
  <2>1. i \in DOMAIN s /\ j \in DOMAIN s /\ s[i] = b /\ s[j] = b
    BY <1>2, <1>7 DEF BytesOf
  <2> QED
    BY <1>7, <2>1 DEF Once
<1>8. ASSUME NEW b, Once(s, b) PROVE Twice(u, b)
  <2> SUFFICES ASSUME NEW i \in DOMAIN u, NEW j \in DOMAIN u, NEW k \in DOMAIN u, i < j, j < k,
                      u[i] = b, u[j] = b, u[k] = b
               PROVE  FALSE
    BY DEF Twice
  <2>1. CASE j > m
    <3>1. k > m /\ j # k
      BY <1>1, <1>3, <2>1
    <3> QED
      BY <1>5, <2>1, <3>1
  <2>2. CASE ~(j > m)
    <3>1. ~(i > m) /\ i # j
      BY <1>1, <1>3, <2>2
    <3>2. i \in DOMAIN s /\ j \in DOMAIN s /\ s[i] = b /\ s[j] = b
      BY <1>2, <2>2, <3>1
    <3> QED
      BY <1>8, <3>1, <3>2 DEF Once
  <2> QED
    BY <2>1, <2>2
<1>9. ASSUME NEW b, b \notin BytesOf(t), Twice(s, b) PROVE Twice(u, b)
  <2> SUFFICES ASSUME NEW i \in DOMAIN u, NEW j \in DOMAIN u, NEW k \in DOMAIN u, i < j, j < k,
                      u[i] = b, u[j] = b, u[k] = b
               PROVE  FALSE
    BY DEF Twice
  <2>1. /\ i \in DOMAIN s /\ j \in DOMAIN s /\ k \in DOMAIN s
        /\ s[i] = b /\ s[j] = b /\ s[k] = b
    BY <1>2, <1>9 DEF BytesOf
  <2> QED
    BY <1>9, <2>1 DEF Twice
<1> QED
  BY <1>4, <1>6, <1>7, <1>8, <1>9 DEF u

\* The host acknowledges the packet.
LEMMA AckKeeps == ASSUME UsbInv, HostAck PROVE UsbInv'
<1> USE DEF callbackVars
<1>0. UsbShapes /\ InTurn /\ Sensible /\ Places /\ NeverThrice /\ Offered /\ Arrived
  BY DEF UsbInv
<1>1. /\ DOMAIN sent = 1 .. Len(sent) /\ Len(sent) \in Nat /\ Len(sent) = sending /\ sending > 0
      /\ sending \in Nat /\ txCount \in Nat /\ Passed \in Nat
      /\ sent \in Runs(Nat) /\ mixed \in Runs(Nat) /\ fetched \in Runs(Nat)
      /\ DOMAIN fetched = 1 .. Len(fetched) /\ Len(fetched) \in Nat
      /\ DOMAIN usbRx = 1 .. Len(usbRx)
  BY <1>0, UsbSequences DEF UsbShapes, HostAck, Runs
<1>2. /\ UNCHANGED <<callbackVars, loaded, frameCount, pma, txCount, accepted>>
      /\ sending' = 0 /\ sent' = <<>>
  BY DEF HostAck
<1>v. ~valid' /\ valid' \in BOOLEAN
  BY DEF HostAck
<1>3. \/ /\ BytesOf(sent) \cap exposed = {} /\ fetched' = Then(fetched, sent) /\ mixed' = mixed
      \/ /\ BytesOf(sent) \cap exposed # {} /\ mixed' = Then(mixed, sent) /\ fetched' = fetched
  BY DEF HostAck, Then
<1>4. valid
  BY <1>0, <1>1 DEF Sensible, UsbShapes
<1>5. Passed' = Passed /\ OnOffer' = {} /\ ~valid'
  BY <1>2, <1>v DEF Passed, OnOffer
<1>6. Readable' \subseteq Readable
  BY <1>1, <1>2 DEF Readable
<1>7. Len(sent') = 0 /\ sent' \in Seq(Nat) /\ 1 .. Len(sent') = {}
  BY <1>2, EmptySeq
<1>8. fetched' \in Seq(Nat) /\ mixed' \in Seq(Nat)
  BY <1>1, <1>3, ThenIsRun DEF Runs
<1>9. UsbShapes'
  <2>1. Len(sent') <= sending' /\ sending' \in 0..PacketLen
    BY <1>2, <1>7, UsbAssumption
  <2> QED
    BY <1>0, <1>2, <1>v, <1>5, <1>7, <1>8, <2>1 DEF UsbShapes
<1>10. InTurn' /\ Places'
  BY <1>0, <1>2, <1>5, <1>7 DEF InTurn, Places
<1>11. Sensible'
  BY <1>0, <1>2, <1>5, <1>6, <1>7 DEF Sensible
<1>12. BytesOf(usbRx') = BytesOf(usbRx)
  BY <1>2 DEF BytesOf
<1>13. CASE Overwritten
  <2>1. BytesOf(sent) \subseteq exposed
    BY <1>13 DEF Overwritten
  <2>2. mixed' = Then(mixed, sent) /\ fetched' = fetched
    <3>1. 1 \in DOMAIN sent
      BY <1>1
    <3>2. sent[1] \in BytesOf(sent)
      BY <3>1 DEF BytesOf
    <3> QED
      BY <1>3, <2>1, <3>2
  <2>3. \A i, j \in DOMAIN sent : sent[i] = sent[j] => i = j
    BY <1>0, <1>1 DEF Places
  <2>4. /\ BytesOf(mixed') = BytesOf(mixed) \cup BytesOf(sent)
        /\ \A b : b \notin BytesOf(mixed) => Once(mixed', b)
        /\ \A b : Once(mixed, b) => Twice(mixed', b)
        /\ \A b : b \notin BytesOf(sent) /\ Twice(mixed, b) => Twice(mixed', b)
    BY <1>1, <2>2, <2>3, RunsMixed
  <2>5. NeverThrice'
    <3>1. \A b \in Nat : Twice(mixed', b)
      BY <1>0, <1>4, <2>4 DEF NeverThrice
    <3>2. \A i \in 1 .. Len(usbRx') : Once(mixed', usbRx'[i])
      BY <1>0, <1>2, <1>4, <2>4 DEF NeverThrice
    <3> QED
      BY <1>5, <3>1, <3>2 DEF NeverThrice
  <2>6. Offered'
    <3>1. BytesOf(usbRx) \subseteq exposed /\ BytesOf(usbRx)' = BytesOf(usbRx')
      BY <1>13 DEF Overwritten, BytesOf
    <3> QED
      BY <1>2, <1>v, <1>12, <3>1 DEF Offered
  <2>7. Arrived'
    <3>1. OnOffer \subseteq exposed
      <4>1. txCount <= PacketLen /\ PacketLen \in Nat
        BY <1>0, UsbAssumption DEF UsbShapes
      <4>2. \A i \in 1..txCount : i \in Readable
        BY <1>1, <4>1 DEF Readable
      <4>3. OnOffer \subseteq Legible
        BY <4>2 DEF OnOffer, Legible
      <4> QED
        BY <1>13, <4>3 DEF Overwritten
    <3>2. BytesOf(mixed') \subseteq exposed
      BY <1>0, <2>1, <2>4 DEF Arrived
    <3> QED
      BY <1>0, <1>2, <1>5, <2>2, <3>1, <3>2 DEF Arrived, BytesOf
  <2> QED
    BY <1>9, <1>10, <1>11, <2>5, <2>6, <2>7 DEF UsbInv
<1>14. CASE AsRead
  <2>1. /\ usbRx = <<>> /\ txCount = Len(sent) /\ txCount <= Passed
        /\ \A i \in 1..txCount : sent[i] = Passed - txCount + i /\ sent[i] = pma[i] /\ pma[i] \notin exposed
        /\ \A i \in 1 .. Len(fetched) : fetched[i] <= Passed - txCount
    BY <1>1, <1>14 DEF AsRead
  <2>2. BytesOf(sent) \cap exposed = {}
    BY <1>1, <2>1 DEF BytesOf
  <2>3. fetched' = Then(fetched, sent) /\ mixed' = mixed
    <3>1. \A i \in DOMAIN sent : sent[i] \notin exposed
      BY <1>1, <2>1
    <3> QED
      BY <1>3, <2>2
  <2> DEFINE m == Len(fetched)
             n == Len(sent)
             u == Then(fetched, sent)
  <2>4. /\ DOMAIN u = 1 .. m + n
        /\ \A i \in 1 .. m : u[i] = fetched[i]
        /\ \A i \in 1 .. n : u[m + i] = sent[i]
    BY <1>1, ThenElements, SMTT(20)
  <2>5. Len(u) = m + n
    BY <1>1, ThenLength
  <2> HIDE DEF u
  <2>6. ASSUME NEW i \in 1 .. m + n
        PROVE  \/ i <= m /\ u[i] = fetched[i] /\ i \in 1..m
               \/ /\ i > m /\ u[i] = Passed - txCount + (i - m) /\ u[i] = sent[i - m]
                  /\ i - m \in 1 .. n
    <3>1. CASE i <= m
      BY <1>1, <2>4, <3>1
    <3>2. CASE ~(i <= m)
      <4>1. i - m \in 1 .. n /\ m + (i - m) = i /\ i > m
        BY <1>1, <3>2
      <4>2. u[i] = sent[i - m]
        BY <2>4, <4>1
      <4> QED
        BY <2>1, <4>1, <4>2
    <3> QED
      BY <3>1, <3>2
  <2>7. ASSUME NEW i \in 1 .. m + n PROVE u[i] \in 1..Passed /\ u[i] \notin exposed
    <3>1. CASE i <= m
      <4>1. i \in 1..m /\ u[i] = fetched[i]
        BY <1>1, <2>4, <3>1
      <4> QED
        BY <1>0, <2>1, <4>1, UsbSequences, EmptySeq DEF Arrived
    <3>2. CASE i > m
      <4>1. u[i] = sent[i - m] /\ i - m \in 1 .. n
        BY <1>1, <2>6, <3>2
      <4> QED
        BY <1>0, <2>1, <4>1 DEF Sensible
    <3> QED
      BY <1>1, <3>1, <3>2
  <2>8. ASSUME NEW i \in 1 .. m + n, NEW j \in 1 .. m + n, i < j PROVE u[i] < u[j]
    <3>1. \A k \in 1..m : fetched[k] \in Nat /\ fetched[k] <= Passed - txCount
      BY <1>0, <2>1 DEF Arrived
    <3>2. CASE j <= m
      BY <1>0, <1>1, <2>6, <2>8, <3>2 DEF Arrived
    <3>3. CASE i <= m /\ ~(j <= m)
      BY <1>1, <2>6, <3>1, <3>3
    <3>4. CASE ~(i <= m) /\ ~(j <= m)
      BY <1>1, <2>6, <2>8, <3>4
    <3> QED
      BY <1>1, <2>8, <3>2, <3>3, <3>4
  <2>9. BytesOf(u) = BytesOf(fetched) \cup OnOffer
    <3>1. OnOffer = BytesOf(sent)
      BY <1>1, <1>4, <2>1 DEF OnOffer, BytesOf
    <3>2. \A i, j \in DOMAIN sent : sent[i] = sent[j] => i = j
      BY <1>0, <1>1 DEF Places
    <3> QED
      BY <1>1, <3>1, <3>2, RunsMixed DEF u
  <2>10. NeverThrice'
    <3>1. 1 .. Len(usbRx') = {}
      BY <1>2, <2>1, EmptySeq
    <3> QED
      BY <1>0, <1>5, <2>3, <3>1 DEF NeverThrice
  <2>11. Offered'
    <3>1. BytesOf(usbRx') = {}
      BY <1>2, <2>1, EmptySeq DEF BytesOf
    <3>2. BytesOf(usbRx)' = BytesOf(usbRx')
      BY DEF BytesOf
    <3> QED
      BY <1>5, <3>1, <3>2 DEF Offered
  <2>12. Arrived'
    <3>1. /\ fetched' = u /\ Len(fetched') = m + n
          /\ \A i, j \in 1 .. m + n : i < j => fetched'[i] < fetched'[j]
          /\ \A i \in 1 .. m + n : fetched'[i] \in 1..Passed /\ fetched'[i] \notin exposed
          /\ BytesOf(fetched') = BytesOf(fetched) \cup OnOffer
      BY <2>3, <2>5, <2>7, <2>8, <2>9 DEF u
    <3>2. Passed' - Len(usbRx') = Passed /\ BytesOf(usbRx) = {}
      BY <1>1, <1>2, <1>5, <2>1, EmptySeq DEF BytesOf
    <3>3. BytesOf(fetched)' = BytesOf(fetched') /\ BytesOf(mixed)' = BytesOf(mixed)
      BY <2>3 DEF BytesOf
    <3>4. 1..Passed \subseteq BytesOf(fetched') \cup exposed
      BY <1>0, <3>1, <3>2 DEF Arrived
    <3> QED
      BY <1>0, <1>2, <1>5, <3>1, <3>2, <3>3, <3>4 DEF Arrived
  <2> QED
    BY <1>9, <1>10, <1>11, <2>10, <2>11, <2>12 DEF UsbInv
<1> QED
  BY <1>0, <1>4, <1>13, <1>14 DEF Offered

\* Every step keeps the invariant, ...
LEMMA UsbGoesOn == UsbInv /\ [UsbNext]_usbVars => UsbInv'
<1> SUFFICES ASSUME UsbInv, [UsbNext]_usbVars PROVE UsbInv'
  OBVIOUS
<1>1. frameCount \in 0..FrameInterval /\ FrameInterval \in Nat
  BY UsbAssumption DEF UsbInv, UsbShapes
<1>2. CASE SOF_Callback
  <2>1. CASE frameCount = FrameInterval
    <3>1. frameCount' \in 0..FrameInterval
      BY <1>1, <1>2, <2>1 DEF SOF_Callback
    <3> QED
      BY <1>2, <2>1, <3>1, CallbackKeeps DEF SOF_Callback, CallbackDone
  <2>2. CASE frameCount # FrameInterval
    <3>1. frameCount' \in 0..FrameInterval
      BY <1>1, <1>2, <2>2 DEF SOF_Callback
    <3> QED
      BY <1>2, <2>2, <3>1, FramesKeep DEF SOF_Callback
  <2> QED
    BY <2>1, <2>2
<1>3. CASE CTR_LP
  <2>1. frameCount' \in 0..FrameInterval
    BY <1>1, <1>3 DEF CTR_LP
  <2> QED
    BY <1>3, <2>1, CallbackKeeps DEF CTR_LP, CallbackDone
<1>4. CASE Configure \/ UNCHANGED usbVars
  <2>1. frameCount' \in 0..FrameInterval
    BY <1>1, <1>4 DEF Configure, usbVars
  <2> QED
    BY <1>4, <2>1, FramesKeep DEF Configure, usbVars
<1> QED
  BY <1>2, <1>3, <1>4, WriteKeeps, CopyKeeps, CountKeeps, ValidKeeps, AskKeeps, TransmitKeeps,
     AckKeeps DEF UsbNext, Load

\* ... which holds in every state.
LEMMA UsbAlways == UsbSpec => []UsbInv
BY UsbStarts, UsbGoesOn, PTL DEF UsbSpec

\* The FIFO, the callback and the host's fetch stay within their sizes.
THEOREM UsbTypeCorrect == UsbSpec => []UsbTypeOK
<1>1. UsbInv => UsbTypeOK
  BY DEF UsbInv, UsbShapes, UsbTypeOK
<1> QED
  BY <1>1, UsbAlways, PTL

\* usb_endp.c:58-92, 120-133, usb_istr.c:84-106: the host gets the bytes in order and
\* none twice, and misses only those of packets of which one was put over the other,
\* for FIFOs and packets of every size and wherever the host's fetch falls.
THEOREM HostMissesReplacedOnly == UsbSpec => []HostGetsTheRest
<1>1. UsbInv => HostGetsTheRest
  <2> SUFFICES ASSUME UsbInv PROVE HostGetsTheRest
    OBVIOUS
  <2>0. UsbShapes /\ InTurn /\ Sensible /\ Places /\ NeverThrice /\ Offered /\ Arrived
    BY DEF UsbInv
  <2>1. /\ DOMAIN sendFIFO = 1 .. Len(sendFIFO) /\ Len(sendFIFO) \in Nat
        /\ DOMAIN usbRx = 1 .. Len(usbRx) /\ Len(usbRx) \in Nat /\ Len(usbRx) <= Passed
        /\ DOMAIN fetched = 1 .. Len(fetched) /\ DOMAIN mixed = 1 .. Len(mixed)
        /\ Passed \in Nat /\ accepted \in Nat /\ Passed = accepted - Len(sendFIFO)
        /\ txCount <= PacketLen /\ PacketLen \in Nat /\ txCount \in Nat
        /\ mixed \in Seq(Nat)
    BY <2>0, UsbSequences DEF UsbShapes
  <2>2. BytesOf(sendFIFO) = Passed + 1 .. accepted
    <3>1. ASSUME NEW b \in Passed + 1 .. accepted PROVE b \in BytesOf(sendFIFO)
      <4>1. b - Passed \in 1 .. Len(sendFIFO) /\ Passed + (b - Passed) = b
        BY <2>1
      <4>2. sendFIFO[b - Passed] = b
        BY <2>0, <4>1 DEF InTurn
      <4> QED
        BY <2>1, <4>1, <4>2 DEF BytesOf
    <3>2. ASSUME NEW i \in 1 .. Len(sendFIFO) PROVE sendFIFO[i] \in Passed + 1 .. accepted
      <4>1. sendFIFO[i] = Passed + i
        BY <2>0 DEF InTurn
      <4> QED
        BY <2>1, <4>1
    <3> QED
      BY <2>1, <3>1, <3>2 DEF BytesOf
  <2>3. BytesOf(usbRx) \subseteq 1..Passed
    <3>1. ASSUME NEW i \in 1 .. Len(usbRx) PROVE usbRx[i] \in 1..Passed
      <4>1. usbRx[i] = Passed - Len(usbRx) + i
        BY <2>0 DEF InTurn
      <4> QED
        BY <2>1, <4>1
    <3> QED
      BY <2>1, <3>1 DEF BytesOf
  <2>4. OnOffer \subseteq 1..Passed
    <3>1. \A i \in 1..txCount : i \in 1..PacketLen /\ i \in Readable
      BY <2>1 DEF Readable
    <3>2. \A i \in 1..txCount : pma[i] \in 0..Passed /\ pma[i] # 0
      BY <2>0, <3>1 DEF Sensible, UsbShapes
    <3> QED
      BY <2>1, <3>2 DEF OnOffer
  <2>5. BytesOf(fetched) \subseteq 1..Passed /\ BytesOf(fetched) \cap exposed = {}
    <3>1. \A i \in 1 .. Len(fetched) : fetched[i] \in 1..Passed /\ fetched[i] \notin exposed
      BY <2>0, <2>1 DEF Arrived
    <3> QED
      BY <2>1, <3>1 DEF BytesOf
  <2>6. /\ 1..accepted = 1..Passed \cup Passed + 1 .. accepted
        /\ 1..Passed \cap Passed + 1 .. accepted = {}
    BY <2>1
  <2>7. exposed \subseteq 1..Passed
    BY <2>0 DEF Sensible
  <2>8. BytesOf(fetched) \cup Waiting = 1..accepted \ exposed
    <3>1. 1..Passed \subseteq BytesOf(fetched) \cup BytesOf(usbRx) \cup OnOffer \cup exposed
      BY <2>0 DEF Arrived
    <3> QED
      BY <2>2, <2>3, <2>4, <2>5, <2>6, <2>7, <3>1 DEF Waiting
  <2>9. \A i, j, k \in DOMAIN mixed :
          i < j /\ j < k => ~(mixed[i] = mixed[j] /\ mixed[j] = mixed[k])
    <3> SUFFICES ASSUME NEW i \in DOMAIN mixed, NEW j \in DOMAIN mixed, NEW k \in DOMAIN mixed,
                        i < j, j < k, mixed[i] = mixed[j], mixed[j] = mixed[k]
                 PROVE  FALSE
      OBVIOUS
    <3>1. mixed[k] \in Nat
      BY <2>1, ElementOfSeq
    <3>2. Twice(mixed, mixed[k])
      BY <2>0, <3>1 DEF NeverThrice
    <3> QED
      BY <3>2 DEF Twice
  <2>10. BytesOf(mixed) \subseteq exposed /\ \A i, j \in DOMAIN fetched : i < j => fetched[i] < fetched[j]
    BY <2>0, <2>1 DEF Arrived
  <2> QED
    BY <2>8, <2>9, <2>10 DEF HostGetsTheRest
<1> QED
  BY <1>1, UsbAlways, PTL

\* Nothing in the FIFO was exposed, and it is newer than what has left it.
LEMMA UsbWaiting ==
  ASSUME UsbInv
  PROVE  /\ BytesOf(sendFIFO) \cap exposed = {} /\ exposed \subseteq 1..Passed
         /\ \A b \in BytesOf(sendFIFO) : b > Passed /\ b \in Nat
         /\ Passed \in Nat /\ accepted \in Nat /\ Passed <= accepted
         /\ DOMAIN sendFIFO = 1 .. Len(sendFIFO)
<1>0. UsbShapes /\ InTurn /\ Sensible
  BY DEF UsbInv
<1>1. /\ DOMAIN sendFIFO = 1 .. Len(sendFIFO) /\ Passed \in Nat /\ accepted \in Nat
      /\ Passed = accepted - Len(sendFIFO) /\ Len(sendFIFO) \in Nat
  BY <1>0, UsbSequences
<1>2. ASSUME NEW i \in 1 .. Len(sendFIFO) PROVE sendFIFO[i] > Passed /\ sendFIFO[i] \in Nat
  <2>1. sendFIFO[i] = Passed + i
    BY <1>0 DEF InTurn
  <2> QED
    BY <1>1, <2>1
<1>3. \A b \in BytesOf(sendFIFO) : b > Passed /\ b \in Nat
  BY <1>1, <1>2 DEF BytesOf
<1>4. exposed \subseteq 1..Passed
  BY <1>0 DEF Sensible
<1>5. \A b \in 1..Passed : ~(b > Passed)
  BY <1>1
<1>6. Passed <= accepted
  BY <1>1
<1> QED
  BY <1>1, <1>3, <1>4, <1>5, <1>6

\* What is written goes in, if anything fits, ...
LEMMA WriteGives ==
  ASSUME UsbInv, NEW len \in 1..UsbFifoLen, USBComWrite(len)
  PROVE  [ToHost!Next]_ToHost!streamVars
<1> DEFINE room == UsbFifoLen - Len(sendFIFO)
           n == IF len < room THEN len ELSE room
           t == [i \in 1..n |-> accepted + i]
<1>0. UsbShapes
  BY DEF UsbInv
<1>1. /\ Len(sendFIFO) \in Nat /\ Len(sendFIFO) <= UsbFifoLen /\ accepted \in Nat
      /\ UsbFifoLen \in Nat /\ sendFIFO \in Runs(Nat)
  BY <1>0, UsbSequences DEF UsbShapes, Runs
<1>2. n \in Nat
  BY <1>1
<1>3. sendFIFO' = Then(sendFIFO, t) /\ accepted' = accepted + n
  BY DEF USBComWrite, Then
<1>u. UNCHANGED <<usbRx, exposed, pma, txCount, valid, fetched>>
  BY DEF USBComWrite, hostVars
<1> HIDE DEF n
<1>4. t \in Runs(Nat) /\ Len(t) = n /\ Range(t) = accepted + 1 .. accepted + n
  BY <1>1, <1>2, NewBytes
<1> HIDE DEF t
<1>5. Range(Then(sendFIFO, t)) = Range(sendFIFO) \cup Range(t)
  BY <1>1, <1>4, RangeThen
<1>6. BytesOf(sendFIFO') = BytesOf(sendFIFO) \cup accepted + 1 .. accepted + n
  BY <1>3, <1>4, <1>5 DEF BytesOf, Range
<1>7. BytesOf(usbRx') = BytesOf(usbRx) /\ OnOffer' = OnOffer
  BY <1>u DEF BytesOf, OnOffer
<1>8. (accepted + 1 .. accepted + n) \cap exposed = {}
  <2>1. exposed \subseteq 1..Passed /\ Passed <= accepted /\ Passed \in Nat
    BY UsbWaiting
  <2> QED
    BY <1>1, <2>1
<1>9. Waiting' = Waiting \cup accepted + 1 .. accepted'
  <2>1. Waiting' = (BytesOf(sendFIFO') \cup BytesOf(usbRx') \cup OnOffer') \ exposed'
    BY DEF Waiting, BytesOf
  <2> QED
    BY <1>3, <1>6, <1>7, <1>8, <1>u, <2>1 DEF Waiting
<1>10. CASE n = 0
  <2>1. accepted' = accepted /\ accepted + 1 .. accepted' = {}
    BY <1>1, <1>3, <1>10
  <2> QED
    BY <1>9, <1>u, <2>1 DEF ToHost!streamVars
<1>11. CASE n # 0
  <2>1. accepted' \in Nat /\ accepted' > accepted
    BY <1>1, <1>2, <1>3, <1>11
  <2> QED
    BY <1>9, <1>u, <2>1 DEF ToHost!Next, ToHost!Give
<1> QED
  BY <1>10, <1>11

\* ... what the callback does gives the host nothing new to wait for, ...
LEMMA CallbackLoses ==
  ASSUME UsbInv, usbRx = <<>>, EP1_IN_Callback, UNCHANGED <<pma, txCount, valid, fetched, accepted>>
  PROVE  ToHost!Next
<1> DEFINE n == PacketSize
<1>0. UsbShapes /\ sendFIFO \in Seq(Nat) /\ Len(sendFIFO) \in Nat /\ PacketLen \in Nat
  BY UsbSequences DEF UsbInv, UsbShapes
<1>1. n \in 0 .. Len(sendFIFO)
  BY <1>0 DEF PacketSize
<1>2. usbRx' = SubSeq(sendFIFO, 1, n) /\ sendFIFO' = SubSeq(sendFIFO, n + 1, Len(sendFIFO))
  BY DEF EP1_IN_Callback
<1> HIDE DEF n
<1>3. usbRx' \in Runs(Nat) /\ sendFIFO' \in Runs(Nat) /\ sendFIFO = Then(usbRx', sendFIFO')
  BY <1>0, <1>1, <1>2, CutInTwo DEF Runs, Then
<1>4. BytesOf(sendFIFO) = BytesOf(usbRx') \cup BytesOf(sendFIFO')
  <2>1. Range(Then(usbRx', sendFIFO')) = Range(usbRx') \cup Range(sendFIFO')
    BY <1>3, RangeThen
  <2> QED
    BY <1>3, <2>1 DEF BytesOf, Range
<1>5. exposed \subseteq exposed' /\ OnOffer' = OnOffer
  BY DEF EP1_IN_Callback, OnOffer
<1>6. Waiting' \subseteq Waiting
  <2>1. Waiting' = (BytesOf(sendFIFO') \cup BytesOf(usbRx') \cup OnOffer') \ exposed'
    BY DEF Waiting, BytesOf
  <2> QED
    BY <1>4, <1>5, <2>1 DEF Waiting
<1> QED
  BY <1>6 DEF ToHost!Next, ToHost!Lose

\* ... not even when the packet is loaded, ...
LEMMA LoadLoses ==
  ASSUME UsbInv, Load
  PROVE  ToHost!Next
<1> USE DEF callbackVars, hostVars
<1>0. UsbShapes /\ InTurn
  BY DEF UsbInv
<1>1. /\ DOMAIN usbRx = 1 .. Len(usbRx) /\ Len(usbRx) \in Nat /\ Len(usbRx) <= PacketLen
      /\ PacketLen \in Nat /\ loaded \in Nat /\ pma \in [1..PacketLen -> 0..Passed]
      /\ txCount \in 0..PacketLen
  BY <1>0, UsbSequences DEF UsbShapes
<1>2. \A i \in 1 .. Len(usbRx) : usbRx[i] \in BytesOf(usbRx) /\ i \in 1..PacketLen
  BY <1>1 DEF BytesOf
<1>3. UNCHANGED <<sendFIFO, exposed, fetched, accepted>>
  BY DEF Load, UserToPMABufferCopy, SetEPTxCount, SetEPTxValid
<1>4. BytesOf(usbRx') \subseteq BytesOf(usbRx)
  <2>1. CASE UNCHANGED usbRx
    BY <2>1
  <2>2. CASE usbRx' = <<>>
    BY <2>2, EmptySeq DEF BytesOf
  <2> QED
    BY <2>1, <2>2 DEF Load, UserToPMABufferCopy, SetEPTxCount, SetEPTxValid
<1>5. OnOffer' \subseteq OnOffer \cup BytesOf(usbRx)
  <2>1. CASE UserToPMABufferCopy
    <3>1. /\ loaded + 1 \in 1 .. Len(usbRx) /\ pma' = [pma EXCEPT ![loaded + 1] = usbRx[loaded + 1]]
          /\ UNCHANGED <<txCount, valid>>
      BY <1>1, <2>1 DEF UserToPMABufferCopy
    <3>2. ASSUME NEW i \in 1..txCount PROVE pma'[i] = pma[i] \/ pma'[i] \in BytesOf(usbRx)
      BY <1>1, <1>2, <3>1
    <3> QED
      BY <3>1, <3>2 DEF OnOffer
  <2>2. CASE SetEPTxCount
    <3>1. /\ loaded = Len(usbRx) /\ txCount' = Len(usbRx) /\ UNCHANGED <<pma, valid>>
      BY <2>2 DEF SetEPTxCount
    <3>2. \A i \in 1 .. Len(usbRx) : pma[i] = usbRx[i]
      <4>1. \A i \in 1 .. Len(usbRx) : i <= loaded
        BY <1>1, <3>1
      <4> QED
        BY <1>0, <4>1 DEF InTurn
    <3> QED
      BY <1>2, <3>1, <3>2 DEF OnOffer
  <2>3. CASE SetEPTxValid
    <3>1. /\ loaded > Len(usbRx) /\ UNCHANGED <<pma, txCount>>
      BY <2>3 DEF SetEPTxValid
    <3>2. txCount = Len(usbRx) /\ \A i \in 1 .. Len(usbRx) : pma[i] = usbRx[i]
      <4>1. \A i \in 1 .. Len(usbRx) : i <= loaded
        BY <1>1, <3>1
      <4> QED
        BY <1>0, <3>1, <4>1 DEF InTurn
    <3> QED
      BY <1>2, <3>1, <3>2 DEF OnOffer
  <2> QED
    BY <2>1, <2>2, <2>3 DEF Load
<1>6. Waiting' \subseteq Waiting
  <2>1. Waiting' = (BytesOf(sendFIFO') \cup BytesOf(usbRx') \cup OnOffer') \ exposed'
    BY DEF Waiting, BytesOf
  <2> QED
    BY <1>3, <1>4, <1>5, <2>1 DEF Waiting
<1> QED
  BY <1>3, <1>6 DEF ToHost!Next, ToHost!Lose

\* ... and what the host fetches comes out, or was lost already.
LEMMA AckDelivers == ASSUME UsbInv, HostAck PROVE ToHost!Next
<1> USE DEF callbackVars
<1>0. UsbShapes /\ Sensible /\ Offered /\ Places /\ Arrived
  BY DEF UsbInv
<1>1. /\ DOMAIN sent = 1 .. Len(sent) /\ Len(sent) \in Nat /\ Len(sent) = sending /\ sending > 0
      /\ sending \in Nat /\ txCount \in Nat /\ Passed \in Nat
      /\ sent \in Runs(Nat) /\ fetched \in Runs(Nat) /\ Len(fetched) \in Nat
      /\ DOMAIN fetched = 1 .. Len(fetched)
  BY <1>0, UsbSequences DEF UsbShapes, HostAck, Runs
<1>2. UNCHANGED <<sendFIFO, usbRx, exposed, accepted>>
  BY DEF HostAck
<1>3. \/ /\ BytesOf(sent) \cap exposed = {} /\ fetched' = Then(fetched, sent)
      \/ /\ BytesOf(sent) \cap exposed # {} /\ fetched' = fetched
  BY DEF HostAck, Then
<1>4. valid
  BY <1>0, <1>1 DEF Sensible, UsbShapes
<1>5. Waiting' = (BytesOf(sendFIFO) \cup BytesOf(usbRx)) \ exposed
  <2>1. OnOffer' = {}
    BY DEF HostAck, OnOffer
  <2>2. Waiting' = (BytesOf(sendFIFO') \cup BytesOf(usbRx') \cup OnOffer') \ exposed'
    BY DEF Waiting, BytesOf
  <2> QED
    BY <1>2, <2>1, <2>2
<1>6. CASE fetched' = fetched
  BY <1>2, <1>5, <1>6 DEF Waiting, ToHost!Next, ToHost!Lose
<1>7. CASE fetched' # fetched
  <2>1. BytesOf(sent) \cap exposed = {} /\ fetched' = Then(fetched, sent)
    BY <1>3, <1>7
  <2>2. ~Overwritten
    <3>1. 1 \in DOMAIN sent
      BY <1>1
    <3>2. sent[1] \in BytesOf(sent)
      BY <3>1 DEF BytesOf
    <3> QED
      BY <2>1, <3>2 DEF Overwritten
  <2>3. AsRead
    BY <1>0, <1>4, <2>2 DEF Offered
  <2>4. /\ usbRx = <<>> /\ txCount = Len(sent) /\ txCount <= Passed
        /\ \A i \in 1 .. Len(sent) : sent[i] = Passed - txCount + i /\ sent[i] = pma[i]
    BY <1>1, <2>3 DEF AsRead
  <2>5. OnOffer = Range(sent)
    BY <1>1, <1>4, <2>4 DEF OnOffer, Range
  <2> DEFINE w == Range(sent) \cup BytesOf(sendFIFO)
             v == BytesOf(sendFIFO)
  <2>6. Waiting = w /\ Waiting' = v
    <3>1. BytesOf(usbRx) = {} /\ Range(sent) \cap exposed = {}
      BY <2>1, <2>4, EmptySeq DEF BytesOf, Range
    <3>2. BytesOf(sendFIFO) \cap exposed = {}
      BY UsbWaiting
    <3> QED
      BY <1>5, <2>5, <3>1, <3>2 DEF Waiting
  <2>7. \A x \in Range(sent), y \in v : x < y
    <3>1. \A b \in BytesOf(sendFIFO) : b > Passed /\ b \in Nat
      BY UsbWaiting
    <3>2. \A x \in Range(sent) : x \in 1..Passed
      BY <1>0, <1>1 DEF Sensible, Range
    <3>3. ASSUME NEW x \in 1..Passed, NEW y \in Nat, y > Passed PROVE x < y
      BY <1>1, <3>3
    <3> QED
      BY <3>1, <3>2, <3>3
  <2>8. Rises(Then(fetched, sent), Passed)
    <3> DEFINE m == Len(fetched)
               n == Len(sent)
               u == Then(fetched, sent)
    <3>1. /\ DOMAIN u = 1 .. m + n
          /\ \A i \in 1 .. m : u[i] = fetched[i]
          /\ \A i \in 1 .. n : u[m + i] = sent[i]
      <4>1. sent \in Runs(Nat) /\ fetched \in Runs(Nat)
        BY <1>1
      <4> QED
        BY <4>1, ThenElements
    <3> HIDE DEF u
    <3>2. ASSUME NEW i \in 1 .. m + n
          PROVE  \/ i <= m /\ u[i] = fetched[i] /\ i \in 1..m
                 \/ i > m /\ u[i] = Passed - txCount + (i - m)
      <4>1. CASE i <= m
        BY <1>1, <3>1, <4>1
      <4>2. CASE ~(i <= m)
        <5>1. i - m \in 1 .. n /\ m + (i - m) = i /\ i > m
          BY <1>1, <4>2
        <5>2. u[i] = sent[i - m]
          BY <3>1, <5>1
        <5> QED
          BY <2>4, <5>1, <5>2
      <4> QED
        BY <4>1, <4>2
    <3>3. \A k \in 1..m : fetched[k] \in Nat /\ fetched[k] <= Passed - txCount
      BY <1>0, <1>1, <2>3, ElementOfSeq DEF AsRead, Runs
    <3>4. \A i \in 1 .. m + n : u[i] <= Passed
      BY <1>1, <2>4, <3>2, <3>3
    <3>5. ASSUME NEW i \in 1 .. m + n, NEW j \in 1 .. m + n, i < j PROVE u[i] < u[j]
      <4>2. CASE j <= m
        BY <1>0, <1>1, <3>2, <3>5, <4>2 DEF Arrived
      <4>3. CASE i <= m /\ ~(j <= m)
        BY <1>1, <3>2, <3>3, <4>3
      <4>4. CASE ~(i <= m) /\ ~(j <= m)
        BY <1>1, <3>2, <3>5, <4>4
      <4> QED
        BY <1>1, <3>5, <4>2, <4>3, <4>4
    <3> QED
      BY <3>1, <3>4, <3>5 DEF Rises, u
  <2>9. w = Range(sent) \cup v
    OBVIOUS
  <2> HIDE DEF w, v
  <2>10. Delivers(w, v, fetched, Then(fetched, sent))
    BY <1>1, <2>7, <2>8, <2>9, FirstComeOut
  <2> QED
    BY <1>2, <2>1, <2>6, <2>10 DEF Delivers, ToHost!Next, ToHost!Deliver
<1> QED
  BY <1>6, <1>7

\* usb_endp.c:58-92: the serial port is a lossy stream to the host, for FIFOs and
\* packets of every size: the bytes of packets that were put over unfetched ones
\* count as lost, and no other comes out late, twice or out of turn.
THEOREM UsbIsLossyStream == UsbSpec => SendsStream
<1>1. UsbInit => ToHost!Init
  BY DEF UsbInit, ToHost!Init, Waiting, OnOffer, BytesOf
<1>2. UsbInv /\ [UsbNext]_usbVars => [ToHost!Next]_ToHost!streamVars
  <2> SUFFICES ASSUME UsbInv, [UsbNext]_usbVars PROVE [ToHost!Next]_ToHost!streamVars
    OBVIOUS
  <2>1. CASE SOF_Callback \/ CTR_LP
    <3>1. CASE EP1_IN_Callback
      BY <2>1, <3>1, CallbackLoses DEF SOF_Callback, CTR_LP, CallbackDone, hostVars
    <3>2. CASE UNCHANGED callbackVars
      BY <2>1, <3>2
         DEF SOF_Callback, CTR_LP, hostVars, callbackVars, Waiting, OnOffer, BytesOf, ToHost!streamVars
    <3> QED
      BY <2>1, <3>1, <3>2 DEF SOF_Callback, CTR_LP
  <2>2. CASE Configure \/ InToken \/ Transmit \/ UNCHANGED usbVars
    BY <2>2 DEF Configure, InToken, Transmit, usbVars, hostVars, callbackVars, Waiting, OnOffer,
                BytesOf, ToHost!streamVars
  <2> QED
    BY <2>1, <2>2, WriteGives, LoadLoses, AckDelivers DEF UsbNext
<1> QED
  BY <1>1, <1>2, UsbAlways, PTL DEF UsbSpec, SendsStream, ToHost!Spec

-----------------------------------------------------------------------------
(***************************************************************************)
(* HexCmd: for any rows and any buffer, the parser reports a row only when *)
(* its bytes were the last to come, and misses none until the buffer wraps.*)
(***************************************************************************)

\* The buffer is the end of what came since the last report, all of it when it
\* has not wrapped, and no row is in it.
BufferInv ==
  /\ EndOf(hexBuf, unread) /\ Found(hexBuf) = {}
  /\ Len(unread) < HexBufLen => hexBuf = unread

\* The first part of ReportsAreExact.
ReportInv ==
  report.row # 0 =>
    /\ Len(report.bytes) = Len(CMDList[report.row])
    /\ MatchesAt(report.row, report.bytes, 0)
    /\ Len(report.came) >= Len(report.bytes)
    /\ report.bytes = SubSeq(report.came, Len(report.came) - Len(report.bytes) + 1, Len(report.came))

HexInv == HexTypeOK /\ BufferInv /\ ReportInv

-----------------------------------------------------------------------------

\* Rows are not empty and shorter than the buffer.
LEMMA RowsHaveBytes ==
  \A r \in DOMAIN CMDList : /\ r \in Nat /\ r > 0
                            /\ Len(CMDList[r]) \in Nat /\ Len(CMDList[r]) > 0
                            /\ DOMAIN CMDList[r] = 1 .. Len(CMDList[r])
<1> SUFFICES ASSUME NEW r \in DOMAIN CMDList
             PROVE  /\ r \in Nat /\ r > 0
                    /\ Len(CMDList[r]) \in Nat /\ Len(CMDList[r]) > 0
                    /\ DOMAIN CMDList[r] = 1 .. Len(CMDList[r])
  OBVIOUS
<1>1. CMDList[r] \in Seq(SUBSET HexByte) /\ CMDList[r] # <<>> /\ r \in Nat /\ r > 0
  <2> DEFINE T == Seq(SUBSET HexByte) \ {<<>>}
  <2>1. CMDList \in Seq(T)
    BY HexAssumption
  <2> HIDE DEF T
  <2>2. r \in 1 .. Len(CMDList) /\ Len(CMDList) \in Nat
    BY <2>1, LenProperties
  <2>3. CMDList[r] \in T
    BY <2>1, <2>2, ElementOfSeq
  <2> QED
    BY <2>2, <2>3 DEF T
<1> QED
  BY <1>1, LenProperties, EmptySeq

\* Nothing is found in an empty buffer.
LEMMA NothingFound == Found(<<>>) = {}
<1> SUFFICES ASSUME NEW r \in DOMAIN CMDList PROVE Starts(r, <<>>) = {}
  BY DEF Found
<1>1. Len(CMDList[r]) \in Nat /\ Len(CMDList[r]) > 0 /\ Len(<<>>) = 0
  BY RowsHaveBytes
<1> QED
  BY <1>1 DEF Starts

\* A row found when a byte has come ends with it.
LEMMA FoundAtTheEnd ==
  ASSUME NEW s \in Seq(HexByte), NEW b \in HexByte, Found(s) = {},
         NEW r \in DOMAIN CMDList, NEW k \in Starts(r, Append(s, b)), MatchesAt(r, Append(s, b), k)
  PROVE  k + Len(CMDList[r]) = Len(s) + 1
<1> DEFINE t == Append(s, b)
           n == Len(CMDList[r])
<1>1. /\ Len(s) \in Nat /\ Len(t) = Len(s) + 1 /\ \A i \in 1 .. Len(s) : t[i] = s[i]
      /\ n \in Nat /\ n > 0 /\ DOMAIN CMDList[r] = 1 .. n
  BY AppendProperties, LenProperties, RowsHaveBytes
<1>2. k \in 0 .. Len(t) - n /\ \A m \in DOMAIN CMDList[r] : t[k + m] \in CMDList[r][m]
  BY DEF Starts, MatchesAt
<1>3. ASSUME k + n <= Len(s) PROVE FALSE
  <2>1. \A m \in 1 .. n : t[k + m] = s[k + m]
    BY <1>1, <1>2, <1>3
  <2>2. MatchesAt(r, s, k)
    BY <1>1, <1>2, <2>1 DEF MatchesAt
  <2>3. k \in Starts(r, s)
    BY <1>1, <1>2, <1>3 DEF Starts
  <2> QED
    BY <2>2, <2>3 DEF Found
<1> QED
  BY <1>1, <1>2, <1>3

\* At finds the last place where the row matches.
LEMMA AtIsPlace ==
  ASSUME NEW s \in Seq(HexByte), NEW r \in Found(s)
  PROVE  At(r, s) \in Starts(r, s) /\ MatchesAt(r, s, At(r, s))
<1> DEFINE T == {k \in Starts(r, s) : MatchesAt(r, s, k)}
<1>1. r \in DOMAIN CMDList /\ T # {}
  BY DEF Found
<1>2. Len(s) \in Nat /\ Len(CMDList[r]) \in Nat /\ Len(CMDList[r]) > 0
  BY <1>1, LenProperties, RowsHaveBytes
<1>3. T \subseteq 0 .. Len(s)
  BY <1>2 DEF Starts
<1>4. \E k \in T : \A l \in T : l <= k
  BY <1>1, <1>2, <1>3, GreatestExists
<1>5. \E k \in Starts(r, s) :
        MatchesAt(r, s, k) /\ \A l \in Starts(r, s) : MatchesAt(r, s, l) => l <= k
  BY <1>4
<1> QED
  BY <1>5 DEF At

\* The row P_HexCmdReadCMD reports is one it found.
LEMMA FirstFound ==
  ASSUME NEW s, Found(s) # {}
  PROVE  (CHOOSE r \in Found(s) : \A q \in Found(s) : r <= q) \in Found(s)
<1>1. Found(s) \subseteq Nat
  BY RowsHaveBytes DEF Found
<1>2. \E r \in Found(s) : \A q \in Found(s) : r <= q
  BY <1>1, LeastExists
<1> QED
  BY <1>2

\* The buffer after it has started again, if it must.
LEMMA WrappedFits ==
  HexInv =>
    /\ HexWrapped \in Seq(HexByte) /\ Len(HexWrapped) < HexBufLen - 1
    /\ EndOf(HexWrapped, unread) /\ Found(HexWrapped) = {}
    /\ Len(unread) < HexBufLen - 1 => HexWrapped = unread
<1> SUFFICES ASSUME HexInv
             PROVE  /\ HexWrapped \in Seq(HexByte) /\ Len(HexWrapped) < HexBufLen - 1
                    /\ EndOf(HexWrapped, unread) /\ Found(HexWrapped) = {}
                    /\ Len(unread) < HexBufLen - 1 => HexWrapped = unread
  OBVIOUS
<1>1. /\ hexBuf \in Seq(HexByte) /\ Len(hexBuf) \in Nat /\ unread \in Seq(HexByte) /\ Len(unread) \in Nat
      /\ HexBufLen \in Nat /\ HexBufLen >= 2 /\ <<>> \in Seq(HexByte) /\ Len(<<>>) = 0
      /\ Len(hexBuf) < HexBufLen
  BY LenProperties, EmptySeq, HexAssumption DEF HexInv, HexTypeOK
<1>2. EndOf(<<>>, unread)
  BY <1>1 DEF EndOf
<1>3. CASE Len(hexBuf) > HexBufLen - 2
  <2>1. HexWrapped = <<>>
    BY <1>3 DEF HexWrapped
  <2>2. ~(Len(unread) < HexBufLen - 1)
    BY <1>1, <1>3 DEF HexInv, BufferInv
  <2> QED
    BY <1>1, <1>2, <2>1, <2>2, NothingFound
<1>4. CASE ~(Len(hexBuf) > HexBufLen - 2)
  <2>1. HexWrapped = hexBuf
    BY <1>4 DEF HexWrapped
  <2>2. Len(hexBuf) < HexBufLen - 1
    BY <1>1, <1>4
  <2> QED
    BY <1>1, <2>1, <2>2 DEF HexInv, BufferInv
<1> QED
  BY <1>3, <1>4

\* The invariant holds of an empty buffer.
LEMMA HexStarts == HexInit => HexInv
<1> SUFFICES ASSUME HexInit PROVE HexInv
  OBVIOUS
<1>1. <<>> \in Seq(HexByte) /\ Len(<<>>) = 0 /\ HexBufLen \in Nat /\ HexBufLen >= 2
  BY EmptySeq, HexAssumption
<1>2. HexTypeOK
  BY <1>1 DEF HexInit, HexTypeOK, Nothing
<1>3. BufferInv
  BY <1>1, NothingFound DEF HexInit, BufferInv, EndOf
<1> QED
  BY <1>2, <1>3 DEF HexInit, HexInv, ReportInv, Nothing

\* The buffer is cleared.
LEMMA ClearKeeps ==
  ASSUME HexInv, P_HexCmd_Buf_Clear
  PROVE  HexInv'
<1>1. <<>> \in Seq(HexByte) /\ Len(<<>>) = 0 /\ HexBufLen \in Nat /\ HexBufLen >= 2
  BY EmptySeq, HexAssumption
<1>2. HexTypeOK'
  BY <1>1 DEF P_HexCmd_Buf_Clear, HexTypeOK, Nothing
<1>3. BufferInv'
  BY <1>1, NothingFound DEF P_HexCmd_Buf_Clear, BufferInv, EndOf
<1> QED
  BY <1>2, <1>3 DEF P_HexCmd_Buf_Clear, HexInv, ReportInv, Nothing

\* A byte comes.
LEMMA ByteKeeps ==
  ASSUME HexInv, NEW b \in HexByte, P_HexCmdReadCMD(b)
  PROVE  HexInv'
<1> DEFINE s == Append(HexWrapped, b)
           news == Append(unread, b)
           row == IF Found(s) = {} THEN 0
                  ELSE CHOOSE r \in Found(s) : \A q \in Found(s) : r <= q
<1>1. /\ HexWrapped \in Seq(HexByte) /\ Len(HexWrapped) \in Nat /\ Len(HexWrapped) < HexBufLen - 1
      /\ EndOf(HexWrapped, unread) /\ Found(HexWrapped) = {}
      /\ Len(unread) < HexBufLen - 1 => HexWrapped = unread
      /\ unread \in Seq(HexByte) /\ Len(unread) \in Nat /\ Len(unread) <= HexBufLen
      /\ HexBufLen \in Nat /\ HexBufLen >= 2
  BY WrappedFits, LenProperties, HexAssumption DEF HexInv, HexTypeOK
<1>2. /\ s \in Seq(HexByte) /\ Len(s) = Len(HexWrapped) + 1
      /\ news \in Seq(HexByte) /\ Len(news) = Len(unread) + 1
      /\ EndOf(s, news)
  BY <1>1, AppendProperties, EndGrows
<1>3. /\ hexBuf' = Kept(s, row)
      /\ report' = IF row = 0 THEN Nothing
                   ELSE [row |-> row,
                         bytes |-> SubSeq(s, At(row, s) + 1, At(row, s) + Len(CMDList[row])),
                         came |-> news]
      /\ unread' = IF row # 0 THEN <<>>
                   ELSE IF Len(unread) < HexBufLen THEN news
                   ELSE Append(Tail(unread), b)
  BY DEF P_HexCmdReadCMD
<1>4. row # 0 => row \in Found(s) /\ row \in DOMAIN CMDList
  BY FirstFound DEF Found
<1>5. row = 0 => Found(s) = {}
  <2>1. \A r \in Found(s) : r # 0
    BY RowsHaveBytes DEF Found
  <2> QED
    BY <2>1, FirstFound
<1>6. \A r \in DOMAIN CMDList : \A k \in Starts(r, s) :
        MatchesAt(r, s, k) => k + Len(CMDList[r]) = Len(s)
  BY <1>1, <1>2, FoundAtTheEnd
<1> HIDE DEF s, news, row
<1>7. CASE row = 0
  <2>1. hexBuf' = s /\ report' = Nothing
    BY <1>3, <1>7 DEF Kept
  <2>2. /\ unread' \in Seq(HexByte) /\ Len(unread') <= HexBufLen /\ EndOf(s, unread')
        /\ Len(unread') < HexBufLen => s = unread'
    <3>1. CASE Len(unread) < HexBufLen
      <4>1. unread' = news
        BY <1>3, <1>7, <3>1
      <4>2. Len(news) < HexBufLen => s = news
        BY <1>1, <1>2 DEF s, news
      <4> QED
        BY <1>1, <1>2, <3>1, <4>1, <4>2
    <3>2. CASE ~(Len(unread) < HexBufLen)
      <4>1. unread' = Append(Tail(unread), b) /\ Len(unread) = HexBufLen /\ unread # <<>>
        BY <1>1, <1>3, <1>7, <3>2, EmptySeq
      <4>2. Tail(unread) \in Seq(HexByte) /\ Len(Tail(unread)) = HexBufLen - 1
        BY <1>1, <4>1, HeadTailProperties
      <4>3. unread' \in Seq(HexByte) /\ Len(unread') = HexBufLen
        BY <1>1, <4>1, <4>2, AppendProperties
      <4>4. EndOf(HexWrapped, Tail(unread))
        BY <1>1, <4>1, EndShrinks
      <4>5. EndOf(s, unread')
        BY <1>1, <4>1, <4>2, <4>4, EndGrows DEF s
      <4> QED
        BY <1>1, <4>3, <4>5
    <3> QED
      BY <3>1, <3>2
  <2>3. BufferInv'
    BY <1>5, <1>7, <2>1, <2>2 DEF BufferInv
  <2>4. HexTypeOK'
    <3>1. Nothing \in [row : {0} \cup DOMAIN CMDList, bytes : Seq(HexByte), came : Seq(HexByte)]
      BY EmptySeq DEF Nothing
    <3> QED
      BY <1>1, <1>2, <2>1, <2>2, <3>1 DEF HexTypeOK
  <2>5. ReportInv'
    BY <2>1 DEF ReportInv, Nothing
  <2> QED
    BY <2>3, <2>4, <2>5 DEF HexInv
<1>8. CASE row # 0
  <2> DEFINE k == At(row, s)
             n == Len(CMDList[row])
             bytes == SubSeq(s, k + 1, k + n)
  <2>1. /\ row \in DOMAIN CMDList /\ k \in Starts(row, s) /\ MatchesAt(row, s, k)
        /\ n \in Nat /\ n > 0 /\ DOMAIN CMDList[row] = 1 .. n /\ k + n = Len(s) /\ k \in Nat
    <3>1. row \in DOMAIN CMDList /\ k \in Starts(row, s) /\ MatchesAt(row, s, k)
      BY <1>2, <1>4, <1>8, AtIsPlace
    <3> QED
      BY <1>2, <1>6, <3>1, RowsHaveBytes DEF Starts
  <2>2. /\ bytes \in Seq(HexByte) /\ Len(bytes) = n
        /\ \A i \in 1 .. n : bytes[i] = s[k + i]
    <3>1. \A i \in k + 1 .. k + n : s[i] \in HexByte
      BY <1>2, <2>1, ElementOfSeq
    <3> HIDE DEF k, n
    <3>2. k \in Nat /\ n \in Nat /\ n > 0
      BY <2>1
    <3>3. SubSeq(s, k + 1, k + n) \in Seq(HexByte) /\ Len(SubSeq(s, k + 1, k + n)) = n
          /\ \A i \in 1 .. n : SubSeq(s, k + 1, k + n)[i] = s[k + i]
      BY <3>1, <3>2, MiddleCut
    <3> QED
      BY <3>3
  <2>3. hexBuf' = <<>> /\ unread' = <<>> /\ report' = [row |-> row, bytes |-> bytes, came |-> news]
    BY <1>3, <1>8 DEF Kept
  <2> HIDE DEF k, n, bytes
  <2>4. Len(news) >= Len(bytes)
    BY <1>1, <1>2, <2>1, <2>2
  <2>5. EndOf(bytes, news)
    <3>1. ASSUME NEW i \in 1 .. Len(bytes) PROVE bytes[i] = news[Len(news) - Len(bytes) + i]
      <4>1. i \in 1 .. n /\ k + i \in 1 .. Len(s)
            /\ Len(news) - Len(s) + (k + i) = Len(news) - Len(bytes) + i
        <5>1. \A c \in Int : c - (k + n) + (k + i) = c - n + i
          BY <2>1
        <5>2. i \in 1 .. n /\ k + i \in 1 .. k + n
          BY <2>1, <2>2
        <5>3. Len(news) \in Int
          BY <1>1, <1>2
        <5> QED
          BY <2>1, <2>2, <5>1, <5>2, <5>3
      <4> QED
        BY <1>2, <2>2, <4>1 DEF EndOf
    <3> QED
      BY <2>4, <3>1 DEF EndOf
  <2>6. bytes = SubSeq(news, Len(news) - Len(bytes) + 1, Len(news))
    BY <1>2, <2>2, <2>5, EndIsCut
  <2>7. MatchesAt(row, bytes, 0)
    <3>1. \A i \in 1 .. n : 0 + i = i
      BY <2>1
    <3> QED
      BY <2>1, <2>2, <3>1 DEF MatchesAt
  <2>8. ReportInv'
    BY <2>2, <2>3, <2>4, <2>6, <2>7 DEF ReportInv, n
  <2>9. <<>> \in Seq(HexByte) /\ Len(<<>>) = 0
    BY EmptySeq
  <2>10. BufferInv'
    BY <1>1, <2>3, <2>9, NothingFound DEF BufferInv, EndOf
  <2>11. HexTypeOK'
    BY <1>1, <1>2, <2>1, <2>2, <2>3, <2>9 DEF HexTypeOK
  <2> QED
    BY <2>8, <2>10, <2>11 DEF HexInv
<1> QED
  BY <1>7, <1>8

\* The invariant holds in every state.
LEMMA HexAlways == HexSpec => []HexInv
<1>1. HexInv /\ [HexNext]_hexVars => HexInv'
  <2>1. HexInv /\ UNCHANGED hexVars => HexInv'
    BY DEF hexVars, HexInv, HexTypeOK, BufferInv, ReportInv
  <2> QED
    BY <2>1, ByteKeeps, ClearKeeps DEF HexNext
<1> QED
  BY <1>1, HexStarts, PTL DEF HexSpec

\* The buffer leaves room for its terminator, and the history is as bounded as
\* it is meant to be.
THEOREM HexTypeCorrect == HexSpec => []HexTypeOK
<1>1. HexInv => HexTypeOK
  BY DEF HexInv
<1> QED
  BY <1>1, HexAlways, PTL

\* Public_SoftHexCmd.c:32-66: for any table of rows, any buffer they fit in and
\* any bytes: a report is about the bytes that have just come, all of its
\* command's and none that an earlier report used; and as long as the buffer has
\* not wrapped no command goes by.
THEOREM CommandsAreFound == HexSpec => []ReportsAreExact
<1>1. HexInv => ReportsAreExact
  <2> SUFFICES ASSUME HexInv PROVE ReportsAreExact
    OBVIOUS
  <2>1. Len(report.came) \in Nat /\ Len(report.bytes) \in Nat
    BY LenProperties DEF HexInv, HexTypeOK
  <2>2. Len(report.came) >= Len(report.bytes) => Len(report.came) - Len(report.bytes) >= 0
    BY <2>1
  <2>3. Len(unread) < HexBufLen => Found(unread) = {}
    BY DEF HexInv, BufferInv
  <2> QED
    BY <2>2, <2>3 DEF HexInv, ReportInv, ReportsAreExact
<1> QED
  BY <1>1, HexAlways, PTL

-----------------------------------------------------------------------------
(***************************************************************************)
(* StringCmd: for lines, FIFOs and buffers of any length, a command is what*)
(* is left of its line, and of a line that was stored whole it is the end. *)
(***************************************************************************)

Entry == [byte : Letter \cup {"CR", "LF"}, typed : Seq(Letter), whole : BOOLEAN]

\* The buffer s after the test of its length.
Cleared(s) == IF Len(s) > CMDBufLen - 2 THEN <<>> ELSE s

\* Entry j of the FIFO q ends the line that the bytes behind entry i are of; Len(q) + 1
\* stands for the line feed that has not come.
EndsLine(q, i, j) ==
  /\ i < j /\ (j = Len(q) + 1 \/ q[j].byte = "LF")
  /\ \A k \in i + 1 .. j - 1 : q[k].byte # "LF"

\* The letters of that line, and whether all of it was stored.
LineOf(q, t, j) == IF j = Len(q) + 1 THEN t ELSE q[j].typed
WholeOf(q, w, j) == IF j = Len(q) + 1 THEN w ELSE q[j].whole

\* The letters of s are some of the first k of line t, in their order.
SomeOf(s, t, k) ==
  \E from \in [DOMAIN s -> 1 .. k] :
    /\ \A i \in DOMAIN s : s[i] = t[from[i]]
    /\ \A i, j \in DOMAIN s : i < j => from[i] < from[j]

\* They are the last of those k, as many as the buffer has not been emptied of.
LastOf(s, t, k) ==
  /\ Len(s) = k % (CMDBufLen - 1) /\ Len(s) <= k
  /\ \A i \in 1 .. Len(s) : s[i] = t[k - Len(s) + i]

\* Behind entry i of q, at[i] letters of the line t had been typed when entry i
\* came: every letter is where it was typed, and of a line that is whole none is
\* missing.  Entry 0 is what has been read, of which s is in the buffer.
Place(at, q, s, i, t, w, j) ==
  /\ at[i] <= Len(t)
  /\ w /\ j = i + 1 => at[i] = Len(t)
  /\ i > 0 /\ q[i].byte \in Letter => t[at[i]] = q[i].byte /\ (w => at[i] = at[i - 1] + 1)
  /\ i = 0 => SomeOf(s, t, at[0]) /\ (w => LastOf(Cleared(s), t, at[0]))

Follows(at, q, s, t, w) ==
  /\ at \in [0 .. Len(q) -> Nat]
  /\ \A i \in 1 .. Len(q) :
       /\ q[i].byte = "LF" => at[i] = 0
       /\ q[i].byte = "CR" => at[i] = at[i - 1]
       /\ q[i].byte \in Letter => at[i - 1] < at[i]
  /\ \A i \in 0 .. Len(q), j \in 1 .. Len(q) + 1 :
       EndsLine(q, i, j) => Place(at, q, s, i, LineOf(q, t, j), WholeOf(q, w, j), j)

StrInv ==
  /\ StrTypeOK /\ CommandIsLinesEnd
  /\ \E at : Follows(at, strFifo, CMDBuf, typed, whole)

-----------------------------------------------------------------------------

\* The bytes are letters or one of the two others.
LEMMA ByteKinds ==
  ASSUME NEW b \in Letter \cup {"CR", "LF"}
  PROVE  \/ b = "LF" /\ b # "CR" /\ b \notin Letter
         \/ b = "CR" /\ b # "LF" /\ b \notin Letter
         \/ b \in Letter /\ b # "CR" /\ b # "LF"
BY StrAssumption

\* The letters that were some of a line's are some of it when there are more of them.
LEMMA SomeOfMore ==
  ASSUME NEW s \in Seq(Letter), NEW t, NEW u, NEW k \in Nat, NEW m \in Nat, k <= m,
         SomeOf(s, t, k), \A i \in 1 .. k : u[i] = t[i]
  PROVE  SomeOf(s, u, m)
<1>1. PICK from \in [DOMAIN s -> 1 .. k] :
        /\ \A i \in DOMAIN s : s[i] = t[from[i]]
        /\ \A i, j \in DOMAIN s : i < j => from[i] < from[j]
  BY DEF SomeOf
<1>2. from \in [DOMAIN s -> 1 .. m] /\ \A i \in DOMAIN s : from[i] \in 1 .. k
  BY <1>1
<1>3. \A i \in DOMAIN s : s[i] = u[from[i]]
  BY <1>1, <1>2
<1> QED
  BY <1>1, <1>2, <1>3 DEF SomeOf

\* The next letter of the line behind them.
LEMMA SomeOfNext ==
  ASSUME NEW s \in Seq(Letter), NEW t, NEW k \in Nat, NEW m \in Nat, k < m,
         SomeOf(s, t, k), NEW b \in Letter, t[m] = b
  PROVE  SomeOf(Append(s, b), t, m)
<1> DEFINE u == Append(s, b)
<1>1. PICK from \in [DOMAIN s -> 1 .. k] :
        /\ \A i \in DOMAIN s : s[i] = t[from[i]]
        /\ \A i, j \in DOMAIN s : i < j => from[i] < from[j]
  BY DEF SomeOf
<1>2. /\ Len(s) \in Nat /\ DOMAIN s = 1 .. Len(s) /\ Len(u) = Len(s) + 1 /\ DOMAIN u = 1 .. Len(u)
      /\ \A i \in 1 .. Len(s) : u[i] = s[i]
      /\ u[Len(s) + 1] = b
  BY AppendProperties, LenProperties
<1> HIDE DEF u
<1>3. \A i \in DOMAIN u : i \in DOMAIN s \/ i = Len(s) + 1
  BY <1>2
<1>4. \A i \in DOMAIN s : from[i] \in 1 .. k
  BY <1>1
<1> DEFINE new == [i \in DOMAIN u |-> IF i \in DOMAIN s THEN from[i] ELSE m]
<1>5. new \in [DOMAIN u -> 1 .. m]
  <2>1. \A i \in DOMAIN s : from[i] \in 1 .. m
    BY <1>4
  <2>2. m \in 1 .. m
    OBVIOUS
  <2> QED
    BY <2>1, <2>2
<1>6. \A i \in DOMAIN u : u[i] = t[new[i]]
  BY <1>1, <1>2, <1>3
<1>7. ASSUME NEW i \in DOMAIN u, NEW j \in DOMAIN u, i < j PROVE new[i] < new[j]
  <2>1. i \in DOMAIN s
    BY <1>2, <1>3, <1>7
  <2>2. CASE j \in DOMAIN s
    BY <1>1, <1>7, <2>1, <2>2
  <2>3. CASE j \notin DOMAIN s
    <3>1. new[i] = from[i] /\ new[j] = m /\ from[i] \in 1 .. k
      BY <1>4, <2>1, <2>3
    <3> QED
      BY <3>1
  <2> QED
    BY <2>2, <2>3
<1> HIDE DEF new
<1>8. SomeOf(u, t, m)
  BY <1>5, <1>6, <1>7 DEF SomeOf
<1> QED
  BY <1>8 DEF u

\* Nothing is some of every line.
LEMMA SomeOfNone == \A t, k : SomeOf(<<>>, t, k)
<1>1. DOMAIN <<>> = {}
  OBVIOUS
<1> SUFFICES ASSUME NEW t, NEW k PROVE SomeOf(<<>>, t, k)
  OBVIOUS
<1> DEFINE from == [i \in {} |-> i]
<1>2. from \in [DOMAIN <<>> -> 1 .. k]
  BY <1>1
<1> QED
  BY <1>1, <1>2 DEF SomeOf

\* The test of the length leaves the buffer's letters or none.
LEMMA ClearedFits ==
  ASSUME NEW s \in Seq(Letter)
  PROVE  /\ Cleared(s) \in Seq(Letter) /\ Len(Cleared(s)) \in Nat /\ Len(Cleared(s)) <= CMDBufLen - 2
         /\ Cleared(Cleared(s)) = Cleared(s)
         /\ \A t, k : SomeOf(s, t, k) => SomeOf(Cleared(s), t, k)
<1>1. <<>> \in Seq(Letter) /\ Len(<<>>) = 0 /\ Len(s) \in Nat /\ CMDBufLen \in Nat /\ CMDBufLen >= 2
  BY EmptySeq, LenProperties, StrAssumption
<1>2. CASE Len(s) > CMDBufLen - 2
  <2>1. Cleared(s) = <<>> /\ Cleared(<<>>) = <<>>
    BY <1>1, <1>2 DEF Cleared
  <2> QED
    BY <1>1, <2>1, SomeOfNone
<1>3. CASE ~(Len(s) > CMDBufLen - 2)
  <2>1. Cleared(s) = s
    BY <1>3 DEF Cleared
  <2> QED
    BY <1>1, <1>3, <2>1
<1> QED
  BY <1>2, <1>3

\* The next letter of a line of which none is missing.
LEMMA LastOfNext ==
  ASSUME NEW s \in Seq(Letter), NEW t, NEW k \in Nat, NEW b \in Letter, t[k + 1] = b,
         Len(s) <= CMDBufLen - 2, LastOf(s, t, k)
  PROVE  LastOf(Cleared(Append(s, b)), t, k + 1)
<1> DEFINE u == Append(s, b)
           m == CMDBufLen - 1
<1>1. /\ Len(s) \in Nat /\ Len(u) = Len(s) + 1
      /\ \A i \in 1 .. Len(s) : u[i] = s[i]
      /\ u[Len(s) + 1] = b
      /\ m \in Nat \ {0} /\ CMDBufLen = m + 1
  BY AppendProperties, LenProperties, StrAssumption
<1>2. /\ Len(s) = k % m /\ Len(s) <= k
      /\ \A i \in 1 .. Len(s) : s[i] = t[k - Len(s) + i]
  BY DEF LastOf
<1>3. (k + 1) % m = IF k % m = m - 1 THEN 0 ELSE (k % m) + 1
  BY <1>1, RemainderCounts
<1> HIDE DEF u
<1>4. CASE Len(s) = m - 1
  <2>1. Cleared(u) = <<>>
    BY <1>1, <1>4 DEF Cleared
  <2>2. (k + 1) % m = 0 /\ Len(<<>>) = 0
    BY <1>2, <1>3, <1>4
  <2>3. LastOf(<<>>, t, k + 1)
    BY <2>2 DEF LastOf
  <2> QED
    BY <2>1, <2>3 DEF u
<1>5. CASE Len(s) # m - 1
  <2>1. Cleared(u) = u
    BY <1>1, <1>5 DEF Cleared
  <2>2. Len(u) = (k + 1) % m /\ Len(u) <= k + 1
    BY <1>1, <1>2, <1>3, <1>5
  <2>3. ASSUME NEW i \in 1 .. Len(u) PROVE u[i] = t[(k + 1) - Len(u) + i]
    <3>1. (k + 1) - Len(u) + i = k - Len(s) + i
      BY <1>1
    <3>2. CASE i = Len(u)
      <4>1. k - Len(s) + i = k + 1 /\ i = Len(s) + 1
        BY <1>1, <3>2
      <4> QED
        BY <1>1, <3>1, <4>1
    <3>3. CASE i # Len(u)
      <4>1. i \in 1 .. Len(s)
        BY <1>1, <3>3
      <4> QED
        BY <1>1, <1>2, <3>1, <4>1
    <3> QED
      BY <3>2, <3>3
  <2>4. LastOf(u, t, k + 1)
    BY <2>2, <2>3 DEF LastOf, m
  <2> QED
    BY <2>1, <2>4 DEF u
<1> QED
  BY <1>4, <1>5

-----------------------------------------------------------------------------

\* More of line u has been typed than of t.
Extends(u, t) == Len(t) <= Len(u) /\ \A k \in 1 .. Len(t) : u[k] = t[k]

\* Entry i is where it was in a line of which more has been typed.
LEMMA PlaceMore ==
  ASSUME NEW at, NEW q, NEW s \in Seq(Letter), NEW i \in Nat, NEW t \in Seq(Letter), NEW w, NEW j,
         Place(at, q, s, i, t, w, j), at[i] \in Nat, i > 0 /\ q[i].byte \in Letter => at[i] > 0,
         NEW u \in Seq(Letter), NEW v, NEW k, Extends(u, t), v => w /\ (k = i + 1 => FALSE)
  PROVE  Place(at, q, s, i, u, v, k)
<1>1. Len(t) \in Nat /\ Len(u) \in Nat /\ at[i] <= Len(t) /\ Len(t) <= Len(u)
  BY LenProperties DEF Place, Extends
<1>2. at[i] <= Len(u) /\ (v /\ k = i + 1 => at[i] = Len(u))
  BY <1>1
<1>3. i > 0 /\ q[i].byte \in Letter => u[at[i]] = q[i].byte /\ (v => at[i] = at[i - 1] + 1)
  <2> SUFFICES ASSUME i > 0, q[i].byte \in Letter
               PROVE  u[at[i]] = q[i].byte /\ (v => at[i] = at[i - 1] + 1)
    OBVIOUS
  <2>1. at[i] \in 1 .. Len(t)
    BY <1>1
  <2>2. t[at[i]] = q[i].byte /\ (w => at[i] = at[i - 1] + 1)
    BY DEF Place
  <2> QED
    BY <2>1, <2>2 DEF Extends
<1>4. ASSUME i = 0 PROVE SomeOf(s, u, at[0]) /\ (v => LastOf(Cleared(s), u, at[0]))
  <2>1. SomeOf(s, t, at[0]) /\ (w => LastOf(Cleared(s), t, at[0])) /\ at[0] \in Nat
    BY <1>4 DEF Place
  <2>2. \A m \in 1 .. at[0] : u[m] = t[m]
    BY <1>1, <1>4 DEF Extends
  <2>3. SomeOf(s, u, at[0])
    BY <2>1, <2>2, SomeOfMore
  <2>4. ASSUME v PROVE LastOf(Cleared(s), u, at[0])
    <3> DEFINE c == Cleared(s)
    <3>1. LastOf(c, t, at[0]) /\ Len(c) \in Nat
      BY <2>1, <2>4, ClearedFits
    <3> HIDE DEF c
    <3>2. \A m \in 1 .. Len(c) : at[0] - Len(c) + m \in 1 .. at[0]
      BY <2>1, <3>1 DEF LastOf
    <3>3. LastOf(c, u, at[0])
      BY <2>2, <3>1, <3>2 DEF LastOf
    <3> QED
      BY <3>3 DEF c
  <2> QED
    BY <2>3, <2>4
<1> QED
  BY <1>2, <1>3, <1>4 DEF Place

\* Or in a line of which no more has been.
LEMMA PlaceSame ==
  ASSUME NEW at, NEW q, NEW s, NEW i, NEW t, NEW w, NEW j, Place(at, q, s, i, t, w, j),
         NEW at2, NEW q2, at2[i] = at[i], i > 0 => at2[i - 1] = at[i - 1] /\ q2[i] = q[i]
  PROVE  Place(at2, q2, s, i, t, w, j)
<1>1. i = 0 => at2[0] = at[0]
  OBVIOUS
<1> QED
  BY <1>1 DEF Place

\* What Follows says of one entry.
LEMMA FollowsPlace ==
  ASSUME NEW q \in Seq(Entry), NEW s, NEW t, NEW w, NEW at, Follows(at, q, s, t, w)
  PROVE  /\ \A i \in 0 .. Len(q) : at[i] \in Nat
         /\ \A i \in 1 .. Len(q) : q[i].byte \in Letter => at[i] > 0
         /\ Len(q) \in Nat
         /\ at[Len(q)] <= Len(t) /\ (w => at[Len(q)] = Len(t))
<1>1. Len(q) \in Nat /\ \A i \in 0 .. Len(q) : at[i] \in Nat
  BY LenProperties DEF Follows
<1>2. ASSUME NEW i \in 1 .. Len(q), q[i].byte \in Letter PROVE at[i] > 0
  <2>1. at[i - 1] < at[i] /\ at[i - 1] \in Nat /\ at[i] \in Nat
    BY <1>1, <1>2 DEF Follows
  <2> QED
    BY <2>1
<1>3. EndsLine(q, Len(q), Len(q) + 1) /\ Len(q) \in 0 .. Len(q) /\ Len(q) + 1 \in 1 .. Len(q) + 1
  BY <1>1 DEF EndsLine
<1>4. Place(at, q, s, Len(q), LineOf(q, t, Len(q) + 1), WholeOf(q, w, Len(q) + 1), Len(q) + 1)
  BY <1>1, <1>3 DEF Follows
<1>5. LineOf(q, t, Len(q) + 1) = t /\ WholeOf(q, w, Len(q) + 1) = w
  BY DEF LineOf, WholeOf
<1> QED
  BY <1>1, <1>2, <1>4, <1>5 DEF Place

\* A byte that finds the FIFO full.
LEMMA FollowsDropped ==
  ASSUME NEW q \in Seq(Entry), NEW s \in Seq(Letter), NEW t \in Seq(Letter), NEW w, NEW at,
         Follows(at, q, s, t, w), NEW t2 \in Seq(Letter), Extends(t2, t)
  PROVE  Follows(at, q, s, t2, FALSE)
<1>1. Len(q) \in Nat /\ (\A i \in 0 .. Len(q) : at[i] \in Nat)
      /\ \A i \in 1 .. Len(q) : q[i].byte \in Letter => at[i] > 0
  BY FollowsPlace
<1>2. ASSUME NEW i \in 0 .. Len(q), NEW j \in 1 .. Len(q) + 1, EndsLine(q, i, j)
      PROVE  Place(at, q, s, i, LineOf(q, t2, j), WholeOf(q, FALSE, j), j)
  <2>1. Place(at, q, s, i, LineOf(q, t, j), WholeOf(q, w, j), j)
    BY <1>2 DEF Follows
  <2>2. CASE j = Len(q) + 1
    <3>1. /\ LineOf(q, t, j) = t /\ LineOf(q, t2, j) = t2 /\ WholeOf(q, FALSE, j) = FALSE
          /\ i \in Nat /\ at[i] \in Nat /\ (i > 0 /\ q[i].byte \in Letter => at[i] > 0)
      BY <1>1, <2>2 DEF LineOf, WholeOf
    <3>2. Place(at, q, s, i, t, WholeOf(q, w, j), j)
      BY <2>1, <3>1
    <3>3. Place(at, q, s, i, t2, FALSE, j)
      BY <3>1, <3>2, PlaceMore
    <3> QED
      BY <3>1, <3>3
  <2>3. CASE j # Len(q) + 1
    BY <2>1, <2>3 DEF LineOf, WholeOf
  <2> QED
    BY <2>2, <2>3
<1> QED
  BY <1>2 DEF Follows

\* A byte that is put into the FIFO.
LEMMA FollowsStored ==
  ASSUME NEW q \in Seq(Entry), NEW s \in Seq(Letter), NEW t \in Seq(Letter), NEW w \in BOOLEAN, NEW at,
         Follows(at, q, s, t, w), NEW b \in Letter \cup {"CR", "LF"},
         NEW e \in Entry, e.byte = b, b = "LF" => e.typed = t /\ e.whole = w
  PROVE  \E at2 : Follows(at2, Append(q, e), s,
                          IF b = "LF" THEN <<>> ELSE IF b \in Letter THEN Append(t, b) ELSE t,
                          w \/ b = "LF")
<1> DEFINE n == Len(q)
           q2 == Append(q, e)
           t2 == IF b = "LF" THEN <<>> ELSE IF b \in Letter THEN Append(t, b) ELSE t
           w2 == w \/ b = "LF"
           new == IF b = "LF" THEN 0 ELSE IF b \in Letter THEN Len(t) + 1 ELSE at[n]
           at2 == [i \in 0 .. n + 1 |-> IF i <= n THEN at[i] ELSE new]
<1>1. /\ n \in Nat /\ (\A i \in 0 .. n : at[i] \in Nat)
      /\ (\A i \in 1 .. n : q[i].byte \in Letter => at[i] > 0)
      /\ at[n] <= Len(t) /\ (w => at[n] = Len(t))
  BY FollowsPlace
<1>2. /\ Len(q2) = n + 1 /\ q2[n + 1] = e /\ \A i \in 1 .. n : q2[i] = q[i]
  BY AppendProperties
<1>3. /\ Len(t) \in Nat /\ t2 \in Seq(Letter) /\ Len(t2) \in Nat
      /\ b # "LF" => Len(t) <= Len(t2) /\ \A k \in 1 .. Len(t) : t2[k] = t[k]
      /\ b = "LF" => Len(t2) = 0
      /\ b \in Letter => Len(t2) = Len(t) + 1 /\ t2[Len(t) + 1] = b
      /\ b = "CR" => t2 = t
  <2>1. Len(t) \in Nat /\ <<>> \in Seq(Letter) /\ Len(<<>>) = 0
    BY LenProperties, EmptySeq
  <2>2. CASE b = "LF"
    BY <2>1, <2>2, ByteKinds
  <2>3. CASE b = "CR"
    BY <2>1, <2>3, ByteKinds
  <2>4. CASE b \in Letter
    <3>1. t2 = Append(t, b) /\ b # "CR" /\ b # "LF"
      BY <2>4, ByteKinds
    <3> HIDE DEF t2
    <3> QED
      BY <2>1, <2>4, <3>1, AppendProperties
  <2> QED
    BY <2>2, <2>3, <2>4
<1>a. DOMAIN at2 = 0 .. n + 1 /\ at2 = [i \in 0 .. n + 1 |-> at2[i]]
  OBVIOUS
<1>4. /\ \A i \in 0 .. n : at2[i] = at[i]
      /\ b = "LF" => at2[n + 1] = 0
      /\ b \in Letter => at2[n + 1] = Len(t) + 1
      /\ b = "CR" => at2[n + 1] = at[n]
  <2>1. n + 1 \in 0 .. n + 1 /\ ~(n + 1 <= n) /\ \A i \in 0 .. n : i \in 0 .. n + 1 /\ i <= n
    BY <1>1
  <2>2. /\ b = "LF" => new = 0
        /\ b \in Letter => new = Len(t) + 1
        /\ b = "CR" => new = at[n]
    BY ByteKinds
  <2> HIDE DEF n, new
  <2>3. at2[n + 1] = new
    BY <2>1
  <2>4. \A i \in 0 .. n : at2[i] = at[i]
    BY <2>1
  <2> QED
    BY <2>2, <2>3, <2>4
<1> HIDE DEF n, q2, t2, w2, at2
<1>5. at2 \in [0 .. n + 1 -> Nat]
  <2>1. at2[n + 1] \in Nat
    BY <1>1, <1>3, <1>4
  <2>2. \A i \in 0 .. n + 1 : at2[i] \in Nat
    <3>1. \A i \in 0 .. n + 1 : i \in 0 .. n \/ i = n + 1
      BY <1>1
    <3> QED
      BY <1>1, <1>4, <2>1, <3>1
  <2> QED
    BY <1>a, <2>2
<1>6. ASSUME NEW i \in 1 .. n + 1
      PROVE  /\ q2[i].byte = "LF" => at2[i] = 0
             /\ q2[i].byte = "CR" => at2[i] = at2[i - 1]
             /\ q2[i].byte \in Letter => at2[i - 1] < at2[i]
  <2>1. CASE i = n + 1
    <3>1. i - 1 = n /\ n \in 0 .. n
      <4>1. n \in Nat
        BY <1>1
      <4>2. \A x \in Nat : (x + 1) - 1 = x /\ x \in 0 .. x
        OBVIOUS
      <4> QED
        BY <2>1, <4>1, <4>2, Zenon
    <3>2. q2[i].byte = b /\ at2[i - 1] = at[n] /\ at[n] \in Nat /\ at2[i] = at2[n + 1]
      BY <1>1, <1>2, <1>4, <2>1, <3>1
    <3>3. b \in Letter => at[n] < at2[n + 1]
      BY <1>1, <1>3, <1>4, <3>2
    <3> QED
      BY <1>4, <3>2, <3>3
  <2>2. CASE i # n + 1
    <3>1. i \in 1 .. n /\ i \in 0 .. n /\ i - 1 \in 0 .. n
      BY <1>1, <2>2
    <3> QED
      BY <1>2, <1>4, <3>1 DEF Follows, n
  <2> QED
    BY <2>1, <2>2
<1>7. ASSUME NEW i \in 0 .. n + 1, NEW j \in 1 .. n + 2, EndsLine(q2, i, j)
      PROVE  Place(at2, q2, s, i, LineOf(q2, t2, j), WholeOf(q2, w2, j), j)
  <2>1. i < j /\ (j = n + 2 \/ q2[j].byte = "LF") /\ \A k \in i + 1 .. j - 1 : q2[k].byte # "LF"
    BY <1>1, <1>2, <1>7 DEF EndsLine
  <2>2. CASE i = n + 1
    <3>1. j = n + 2 /\ j = i + 1 /\ i > 0 /\ i - 1 = n /\ n \in 0 .. n
      BY <1>1, <2>1, <2>2
    <3>2. LineOf(q2, t2, j) = t2 /\ WholeOf(q2, w2, j) = w2
      BY <1>1, <1>2, <3>1 DEF LineOf, WholeOf
    <3>3. CASE b = "LF"
      BY <1>2, <1>3, <1>4, <2>2, <3>1, <3>2, <3>3, ByteKinds DEF Place
    <3>4. CASE b = "CR"
      BY <1>1, <1>2, <1>3, <1>4, <2>2, <3>1, <3>2, <3>4, ByteKinds DEF Place, w2
    <3>5. CASE b \in Letter
      <4>1. /\ at2[i] = Len(t) + 1 /\ at2[i - 1] = at[n] /\ q2[i].byte = b /\ i # 0
            /\ Len(t2) = Len(t) + 1 /\ t2[Len(t) + 1] = b
        <5>1. at2[i] = Len(t) + 1 /\ q2[i].byte = b /\ i # 0
          BY <1>2, <1>4, <2>2, <3>1, <3>5
        <5>2. at2[i - 1] = at[n]
          BY <1>4, <3>1
        <5> QED
          BY <1>3, <3>5, <5>1, <5>2
      <4>2. w2 => w
        BY <3>5, ByteKinds DEF w2
      <4>3. at2[i] <= Len(t2) /\ at2[i] = Len(t2) /\ t2[at2[i]] = b /\ (w => at2[i] = at2[i - 1] + 1)
        BY <1>1, <1>3, <4>1
      <4> QED
        BY <3>2, <4>1, <4>2, <4>3 DEF Place
    <3> QED
      BY <3>3, <3>4, <3>5
  <2>3. CASE i # n + 1
    <3> DEFINE h == IF j = n + 2 THEN n + 1 ELSE j
    <3>1. i \in 0 .. n /\ i \in Nat /\ h \in 1 .. n + 1 /\ (i > 0 => i \in 1 .. n /\ i - 1 \in 0 .. n)
      <4>1. n \in Nat /\ i \in 0 .. n + 1 /\ j \in 1 .. n + 2 /\ i # n + 1
        BY <1>1, <2>3
      <4>2. i \in 0 .. n /\ i \in Nat /\ (i > 0 => i \in 1 .. n /\ i - 1 \in 0 .. n)
        BY <4>1
      <4>3. h \in 1 .. n + 1
        BY <4>1
      <4> QED
        BY <4>2, <4>3
    <3>2. EndsLine(q, i, h)
      <4>1. i < h
        <5>1. i < n + 1
          BY <1>1, <3>1
        <5> QED
          BY <2>1, <5>1
      <4>2. h = n + 1 \/ q[h].byte = "LF"
        <5>1. CASE j = n + 2
          BY <5>1
        <5>2. CASE j # n + 2 /\ j # n + 1
          <6>1. j \in 1 .. n /\ h = j
            <7>1. n \in Nat
              BY <1>1
            <7>2. \A x \in Nat : \A y \in 1 .. x + 2 : y # x + 2 /\ y # x + 1 => y \in 1 .. x
              OBVIOUS
            <7>3. j \in 1 .. n
              BY <5>2, <7>1, <7>2, Zenon
            <7> QED
              BY <5>2, <7>3, Zenon
          <6> QED
            BY <1>2, <2>1, <5>2, <6>1
        <5>3. CASE j = n + 1
          BY <1>1, <5>3
        <5> QED
          BY <5>1, <5>2, <5>3
      <4>3. \A k \in i + 1 .. h - 1 : q[k].byte # "LF"
        <5>1. \A k \in i + 1 .. h - 1 : k \in i + 1 .. j - 1 /\ k \in 1 .. n
          BY <1>1, <3>1
        <5> QED
          BY <1>2, <2>1, <5>1
      <4> QED
        BY <4>1, <4>2, <4>3 DEF EndsLine, n
    <3>3. Place(at, q, s, i, LineOf(q, t, h), WholeOf(q, w, h), h)
      BY <3>1, <3>2 DEF Follows, n
    <3>4. /\ at2[i] = at[i] /\ (i > 0 => at2[i - 1] = at[i - 1] /\ q2[i] = q[i])
          /\ at[i] \in Nat /\ (i > 0 /\ q[i].byte \in Letter => at[i] > 0)
      BY <1>1, <1>2, <1>4, <3>1
    <3>5. CASE j = n + 2
      <4>1. b # "LF"
        <5>1. n + 1 \in i + 1 .. j - 1
          BY <1>1, <2>3, <3>5
        <5> QED
          BY <1>2, <2>1, <5>1
      <4>2. LineOf(q, t, h) = t /\ LineOf(q2, t2, j) = t2 /\ WholeOf(q, w, h) = w
            /\ WholeOf(q2, w2, j) = w2 /\ w2 = w /\ j # i + 1
        BY <1>1, <1>2, <2>3, <3>5, <4>1 DEF LineOf, WholeOf, w2, n
      <4>3. Place(at, q, s, i, t, w, h)
        BY <3>3, <4>2
      <4>4. Place(at2, q2, s, i, t2, w2, j)
        <5>1. Extends(t2, t) /\ (w2 => w /\ (j = i + 1 => FALSE)) /\ t2 \in Seq(Letter)
          BY <1>3, <4>1, <4>2 DEF Extends
        <5> HIDE DEF h
        <5>2. Place(at, q, s, i, t2, w2, j)
          BY <3>1, <3>4, <4>3, <5>1, PlaceMore
        <5>3. Place(at2, q2, s, i, t2, w2, j)
          BY <3>4, <5>2, PlaceSame
        <5> QED
          BY <5>3
      <4> QED
        BY <4>2, <4>4
    <3>6. CASE j # n + 2
      <4>1. h = j /\ (j = n + 1 => b = "LF") /\ (j # n + 1 => j \in 1 .. n)
        BY <1>1, <1>2, <2>1, <3>6
      <4>2. LineOf(q2, t2, j) = LineOf(q, t, j) /\ WholeOf(q2, w2, j) = WholeOf(q, w, j)
        <5>1. Len(q2) + 1 = n + 2
          BY <1>1, <1>2
        <5> QED
          BY <1>2, <3>6, <4>1, <5>1 DEF LineOf, WholeOf, n
      <4>3. LineOf(q, t, j) \in Seq(Letter)
        <5>1. \A k \in 1 .. n : q[k] \in Entry
          BY ElementOfSeq DEF n
        <5> QED
          BY <4>1, <5>1 DEF LineOf, Entry, n
      <4> DEFINE u == LineOf(q, t, j)
                 v == WholeOf(q, w, j)
      <4>4. Place(at, q, s, i, u, v, j) /\ u \in Seq(Letter) /\ Len(u) \in Nat
        BY <3>3, <4>1, <4>3, LenProperties
      <4> HIDE DEF u, v
      <4>5. Place(at2, q2, s, i, u, v, j)
        BY <3>4, <4>4, PlaceSame
      <4> QED
        BY <4>2, <4>5 DEF u, v
    <3> QED
      BY <3>5, <3>6
  <2> QED
    BY <2>2, <2>3
<1>8. Follows(at2, q2, s, t2, w2)
  <2>1. (n + 1) + 1 = n + 2
    BY <1>1
  <2> QED
    BY <1>2, <1>5, <1>6, <1>7, <2>1 DEF Follows
<1> QED
  BY <1>8 DEF q2, t2, w2

\* A byte that is read: the buffer takes a letter, and is empty after a line feed.
LEMMA FollowsRead ==
  ASSUME NEW q \in Seq(Entry), q # <<>>, NEW s \in Seq(Letter), NEW t \in Seq(Letter), NEW w, NEW at,
         Follows(at, q, s, t, w), NEW b, b = q[1].byte
  PROVE  \E at2 : Follows(at2, Tail(q),
                          IF b \in Letter THEN Append(Cleared(s), b)
                          ELSE IF b = "LF" THEN <<>> ELSE Cleared(s), t, w)
<1> DEFINE n == Len(q) - 1
           r == Tail(q)
           s2 == IF b \in Letter THEN Append(Cleared(s), b)
                 ELSE IF b = "LF" THEN <<>> ELSE Cleared(s)
           at2 == [i \in 0 .. n |-> at[i + 1]]
<1>1. /\ Len(q) = n + 1 /\ n \in Nat /\ (\A i \in 0 .. n + 1 : at[i] \in Nat)
      /\ Len(r) = n /\ \A i \in 1 .. n : r[i] = q[i + 1]
  <2>1. Len(q) \in Nat /\ Len(q) # 0
    BY LenProperties, EmptySeq
  <2>2. Len(q) = n + 1 /\ n \in Nat
    BY <2>1
  <2>3. \A i \in 0 .. Len(q) : at[i] \in Nat
    BY FollowsPlace
  <2>4. Len(r) = Len(q) - 1 /\ \A i \in 1 .. Len(r) : r[i] = q[i + 1]
    BY HeadTailProperties
  <2> QED
    BY <2>2, <2>3, <2>4
<1>2. b \in Letter \cup {"CR", "LF"}
  <2>1. q[1] \in Entry
    <3>1. 1 \in 1 .. Len(q)
      BY <1>1
    <3> QED
      BY <3>1, ElementOfSeq
  <2> QED
    BY <2>1 DEF Entry
<1>3. at2 \in [0 .. n -> Nat] /\ \A i \in 0 .. n : at2[i] = at[i + 1]
  BY <1>1
<1>4. /\ Cleared(s) \in Seq(Letter) /\ Len(Cleared(s)) <= CMDBufLen - 2
      /\ Cleared(Cleared(s)) = Cleared(s)
      /\ \A u, k : SomeOf(s, u, k) => SomeOf(Cleared(s), u, k)
  BY ClearedFits
<1>5. /\ b \in Letter => s2 = Append(Cleared(s), b)
      /\ b = "LF" => s2 = <<>>
      /\ b = "CR" => s2 = Cleared(s)
  BY <1>2, ByteKinds
<1>6. /\ b = "LF" => at[1] = 0
      /\ b = "CR" => at[1] = at[0]
      /\ b \in Letter => at[0] < at[1]
  <2>1. 1 \in 1 .. Len(q) /\ 1 - 1 = 0
    BY <1>1
  <2> QED
    BY <2>1 DEF Follows
<1> HIDE DEF n, r, s2, at2
<1>7. ASSUME NEW i \in 1 .. n
      PROVE  /\ r[i].byte = "LF" => at2[i] = 0
             /\ r[i].byte = "CR" => at2[i] = at2[i - 1]
             /\ r[i].byte \in Letter => at2[i - 1] < at2[i]
  <2>1. /\ i + 1 \in 1 .. Len(q) /\ r[i] = q[i + 1] /\ at2[i] = at[i + 1] /\ at2[i - 1] = at[i]
        /\ (i + 1) - 1 = i
    <3>1. i \in 0 .. n /\ i - 1 \in 0 .. n /\ (i - 1) + 1 = i /\ i + 1 \in 1 .. n + 1
      BY <1>1
    <3> QED
      BY <1>1, <1>3, <3>1
  <2>2. /\ q[i + 1].byte = "LF" => at[i + 1] = 0
        /\ q[i + 1].byte = "CR" => at[i + 1] = at[(i + 1) - 1]
        /\ q[i + 1].byte \in Letter => at[(i + 1) - 1] < at[i + 1]
    BY <2>1 DEF Follows
  <2> QED
    BY <2>1, <2>2
<1>8. ASSUME NEW i \in 0 .. n, NEW j \in 1 .. n + 1, EndsLine(r, i, j)
      PROVE  Place(at2, r, s2, i, LineOf(r, t, j), WholeOf(r, w, j), j)
  <2>1. i < j /\ (j = n + 1 \/ r[j].byte = "LF") /\ \A k \in i + 1 .. j - 1 : r[k].byte # "LF"
    BY <1>1, <1>8 DEF EndsLine
  <2>2. j + 1 \in 1 .. Len(q) + 1 /\ i + 1 \in 0 .. Len(q) /\ i + 1 < j + 1 /\ 0 \in 0 .. Len(q)
    BY <1>1, <2>1
  <2>3. j + 1 = Len(q) + 1 \/ q[j + 1].byte = "LF"
    <3>1. CASE j = n + 1
      BY <1>1, <3>1
    <3>2. CASE j # n + 1
      <4>1. j \in 1 .. n
        BY <1>1, <3>2
      <4> QED
        BY <1>1, <2>1, <3>2, <4>1
    <3> QED
      BY <3>1, <3>2
  <2>4. ASSUME NEW k \in i + 2 .. j PROVE q[k].byte # "LF"
    <3>1. k - 1 \in i + 1 .. j - 1 /\ k - 1 \in 1 .. n /\ (k - 1) + 1 = k
      BY <1>1
    <3> QED
      BY <1>1, <2>1, <3>1
  <2>5. EndsLine(q, i + 1, j + 1)
    <3>1. (i + 1) + 1 = i + 2 /\ (j + 1) - 1 = j
      BY <1>1
    <3> QED
      BY <2>2, <2>3, <2>4, <3>1 DEF EndsLine
  <2> DEFINE u == LineOf(r, t, j)
             v == WholeOf(r, w, j)
  <2>6. LineOf(q, t, j + 1) = u /\ WholeOf(q, w, j + 1) = v
    <3>1. CASE j = n + 1
      BY <1>1, <3>1 DEF LineOf, WholeOf
    <3>2. CASE j # n + 1
      <4>1. j \in 1 .. n /\ j + 1 # Len(q) + 1 /\ j # Len(r) + 1
        BY <1>1, <3>2
      <4> QED
        BY <1>1, <4>1 DEF LineOf, WholeOf
    <3> QED
      BY <3>1, <3>2
  <2> HIDE DEF u, v
  <2>7. Place(at, q, s, i + 1, u, v, j + 1)
    BY <2>2, <2>5, <2>6 DEF Follows
  <2>8. at2[i] = at[i + 1] /\ (j = i + 1 => j + 1 = (i + 1) + 1) /\ (i + 1) - 1 = i /\ i + 1 > 0
    BY <1>1, <1>3
  <2>9. at2[i] <= Len(u) /\ (v /\ j = i + 1 => at2[i] = Len(u))
    BY <2>7, <2>8 DEF Place
  <2>10. i > 0 /\ r[i].byte \in Letter => u[at2[i]] = r[i].byte /\ (v => at2[i] = at2[i - 1] + 1)
    <3> SUFFICES ASSUME i > 0, r[i].byte \in Letter
                 PROVE  u[at2[i]] = r[i].byte /\ (v => at2[i] = at2[i - 1] + 1)
      OBVIOUS
    <3>1. i \in 1 .. n /\ i - 1 \in 0 .. n /\ (i - 1) + 1 = i
      BY <1>1
    <3>2. r[i] = q[i + 1] /\ at2[i - 1] = at[i]
      BY <1>1, <1>3, <3>1
    <3>3. u[at[i + 1]] = q[i + 1].byte /\ (v => at[i + 1] = at[(i + 1) - 1] + 1)
      BY <2>7, <2>8, <3>2 DEF Place
    <3> QED
      BY <2>8, <3>2, <3>3
  <2>11. ASSUME i = 0 PROVE SomeOf(s2, u, at2[0]) /\ (v => LastOf(Cleared(s2), u, at2[0]))
    <3>1. at2[0] = at[1] /\ at[0] \in Nat /\ at[1] \in Nat
      BY <1>1, <1>3, <2>11
    <3>2. CASE b = "LF"
      <4>1. Cleared(<<>>) = <<>> /\ Len(<<>>) = 0 /\ 0 % (CMDBufLen - 1) = 0
        BY StrAssumption DEF Cleared
      <4>2. LastOf(<<>>, u, 0)
        BY <4>1 DEF LastOf
      <4> QED
        BY <1>5, <1>6, <3>1, <3>2, <4>1, <4>2, SomeOfNone
    <3>3. CASE b # "LF"
      <4>1. EndsLine(q, 0, j + 1)
        <5>1. \A k \in 0 + 1 .. (j + 1) - 1 : k = 1 \/ k \in i + 2 .. j
          BY <1>1, <2>11
        <5> QED
          BY <2>2, <2>3, <2>4, <3>3, <5>1 DEF EndsLine
      <4>2. Place(at, q, s, 0, u, v, j + 1)
        BY <2>2, <2>6, <4>1 DEF Follows
      <4>3. SomeOf(s, u, at[0]) /\ (v => LastOf(Cleared(s), u, at[0]))
        BY <4>2 DEF Place
      <4>4. SomeOf(Cleared(s), u, at[0])
        BY <1>4, <4>3
      <4>5. CASE b = "CR"
        BY <1>4, <1>5, <1>6, <3>1, <4>3, <4>4, <4>5
      <4>6. CASE b \in Letter
        <5> DEFINE c == Cleared(s)
        <5>1. /\ c \in Seq(Letter) /\ Len(c) <= CMDBufLen - 2 /\ s2 = Append(c, b)
              /\ SomeOf(c, u, at[0]) /\ (v => LastOf(c, u, at[0])) /\ at[0] < at[1]
          BY <1>4, <1>5, <1>6, <4>3, <4>4, <4>6
        <5>2. u[at[1]] = b /\ (v => at[1] = at[0] + 1)
          BY <2>7, <2>11, <4>6 DEF Place
        <5> HIDE DEF c
        <5>3. SomeOf(s2, u, at[1])
          BY <3>1, <4>6, <5>1, <5>2, SomeOfNext
        <5>4. v => LastOf(Cleared(s2), u, at[1])
          <6>1. v => u[at[0] + 1] = b
            BY <5>2
          <6>2. v => LastOf(Cleared(s2), u, at[0] + 1)
            BY <3>1, <4>6, <5>1, <6>1, LastOfNext
          <6> QED
            BY <5>2, <6>2
        <5> QED
          BY <3>1, <5>3, <5>4
      <4> QED
        BY <1>2, <3>3, <4>5, <4>6
    <3> QED
      BY <3>2, <3>3
  <2> QED
    BY <2>9, <2>10, <2>11 DEF Place, u, v
<1>9. Follows(at2, r, s2, t, w)
  BY <1>1, <1>3, <1>7, <1>8 DEF Follows
<1> QED
  BY <1>9 DEF r, s2

\* When a line feed is read, the buffer holds the end of its line, or some of it.
LEMMA FollowsLine ==
  ASSUME NEW q \in Seq(Entry), q # <<>>, NEW s \in Seq(Letter), NEW t, NEW w, NEW at,
         Follows(at, q, s, t, w), q[1].byte = "LF"
  PROVE  LET c == Cleared(s)
             u == q[1].typed
             n == Len(u)
         IN  /\ c \in Seq(Letter) /\ u \in Seq(Letter)
             /\ q[1].whole => c = SubSeq(u, n + 1 - (n % (CMDBufLen - 1)), n)
             /\ SomeOf(c, u, n)
<1> DEFINE c == Cleared(s)
           u == q[1].typed
           n == Len(u)
<1>1. Len(q) \in Nat /\ 1 \in 1 .. Len(q) /\ q[1] \in Entry
  <2>1. Len(q) \in Nat /\ Len(q) # 0
    BY LenProperties, EmptySeq
  <2> QED
    BY <2>1, ElementOfSeq
<1>2. c \in Seq(Letter) /\ Len(c) \in Nat /\ u \in Seq(Letter) /\ n \in Nat
  BY <1>1, ClearedFits, LenProperties DEF Entry
<1>3. EndsLine(q, 0, 1)
  BY <1>1 DEF EndsLine
<1>4. LineOf(q, t, 1) = u /\ WholeOf(q, w, 1) = q[1].whole
  BY <1>1 DEF LineOf, WholeOf
<1>5. at[0] \in Nat /\ 0 \in 0 .. Len(q) /\ 1 \in 1 .. Len(q) + 1
  BY <1>1 DEF Follows
<1>6. Place(at, q, s, 0, u, q[1].whole, 1)
  BY <1>3, <1>4, <1>5 DEF Follows
<1>7. /\ at[0] <= n /\ SomeOf(s, u, at[0])
      /\ q[1].whole => at[0] = n /\ LastOf(c, u, n)
  BY <1>6 DEF Place
<1>8. SomeOf(c, u, at[0])
  BY <1>7, ClearedFits
<1> HIDE DEF c, u, n
<1>9. SomeOf(c, u, n)
  BY <1>2, <1>5, <1>7, <1>8, SomeOfMore
<1>10. ASSUME q[1].whole PROVE c = SubSeq(u, n + 1 - (n % (CMDBufLen - 1)), n)
  <2>1. Len(c) = n % (CMDBufLen - 1) /\ Len(c) <= n /\ \A i \in 1 .. Len(c) : c[i] = u[n - Len(c) + i]
    BY <1>7, <1>10 DEF LastOf
  <2>2. EndOf(c, u)
    BY <2>1 DEF EndOf, n
  <2>3. c = SubSeq(u, n - Len(c) + 1, n)
    BY <1>2, <2>2, EndIsCut DEF n
  <2>4. n - Len(c) + 1 = n + 1 - Len(c)
    BY <1>2
  <2> QED
    BY <2>1, <2>3, <2>4
<1> QED
  BY <1>2, <1>9, <1>10 DEF c, u, n

-----------------------------------------------------------------------------

\* What CommandIsLinesEnd says of a command.
IsLinesEnd(c) ==
  /\ c.whole =>
       LET n == Len(c.typed)
       IN  c.text = SubSeq(c.typed, n + 1 - (n % (CMDBufLen - 1)), n)
  /\ \E from \in [DOMAIN c.text -> DOMAIN c.typed] :
       /\ \A i \in DOMAIN c.text : c.text[i] = c.typed[from[i]]
       /\ \A i, j \in DOMAIN c.text : i < j => from[i] < from[j]

\* No command is the end of any line.
LEMMA SilenceIsOne ==
  IsLinesEnd(Silence) /\ Silence \in [text : Seq(Letter), typed : Seq(Letter), whole : BOOLEAN]
<1>1. DOMAIN <<>> = {} /\ <<>> \in Seq(Letter)
  BY EmptySeq
<1>2. Silence.text = <<>> /\ Silence.typed = <<>> /\ Silence.whole = FALSE
  BY DEF Silence
<1> DEFINE from == [i \in {} |-> i]
<1>3. from \in [DOMAIN <<>> -> DOMAIN <<>>]
  BY <1>1
<1>4. IsLinesEnd(Silence)
  BY <1>1, <1>2, <1>3 DEF IsLinesEnd
<1> QED
  BY <1>1, <1>4 DEF Silence

\* Nothing has been typed.
LEMMA StrStarts == StrInit => StrInv
<1> SUFFICES ASSUME StrInit PROVE StrInv
  OBVIOUS
<1>1. /\ strFifo = <<>> /\ CMDBuf = <<>> /\ cmd = Silence /\ typed = <<>> /\ whole = TRUE
      /\ Len(<<>>) = 0 /\ (\A S : <<>> \in Seq(S))
  BY EmptySeq DEF StrInit
<1>2. StrTypeOK
  <2>1. <<>> \in Seq([byte : Letter \cup {"CR", "LF"}, typed : Seq(Letter), whole : BOOLEAN])
    BY <1>1, Zenon
  <2>2. <<>> \in Seq(Letter)
    BY <1>1, Zenon
  <2>3. 0 <= StrFifoLen /\ 0 < CMDBufLen /\ 0 <= MaxTyped /\ TRUE \in BOOLEAN
    BY StrAssumption
  <2> QED
    BY <1>1, <2>1, <2>2, <2>3, SilenceIsOne DEF StrTypeOK
<1>3. CommandIsLinesEnd
  BY <1>1, SilenceIsOne DEF CommandIsLinesEnd, IsLinesEnd
<1> DEFINE at == [i \in 0 .. 0 |-> 0]
<1>4. at[0] = 0 /\ at \in [0 .. Len(<<>>) -> Nat]
  BY <1>1
<1> HIDE DEF at
<1>5. Place(at, <<>>, <<>>, 0, <<>>, TRUE, 1)
  <2>1. Cleared(<<>>) = <<>> /\ 0 % (CMDBufLen - 1) = 0
    BY <1>1, StrAssumption DEF Cleared
  <2>2. LastOf(<<>>, <<>>, 0)
    BY <1>1, <2>1 DEF LastOf
  <2> QED
    BY <1>1, <1>4, <2>1, <2>2, SomeOfNone DEF Place
<1>6. Follows(at, <<>>, <<>>, <<>>, TRUE)
  <2>1. LineOf(<<>>, <<>>, 1) = <<>> /\ WholeOf(<<>>, TRUE, 1) = TRUE
    BY <1>1 DEF LineOf, WholeOf
  <2>2. 0 .. Len(<<>>) = {0} /\ 1 .. Len(<<>>) + 1 = {1} /\ 1 .. Len(<<>>) = {}
    BY <1>1
  <2> QED
    BY <1>4, <1>5, <2>1, <2>2 DEF Follows
<1> QED
  BY <1>1, <1>2, <1>3, <1>6 DEF StrInv

\* The receive interrupt: the byte goes behind those that wait, or is dropped.
LEMMA ReceiveKeepsLines ==
  ASSUME StrInv, NEW b \in Letter \cup {"CR", "LF"}, StrReceive(b)
  PROVE  StrInv'
<1>1. StrTypeOK
  BY DEF StrInv
<1>2. /\ strFifo \in Seq(Entry) /\ Len(strFifo) \in Nat /\ Len(strFifo) <= StrFifoLen
      /\ typed \in Seq(Letter) /\ Len(typed) <= MaxTyped /\ whole \in BOOLEAN
      /\ CMDBuf \in Seq(Letter) /\ Len(CMDBuf) < CMDBufLen /\ Len(typed) \in Nat
  BY <1>1, LenProperties DEF StrTypeOK, Entry
<1>3. PICK at : Follows(at, strFifo, CMDBuf, typed, whole)
  BY DEF StrInv
<1>4. /\ b \in Letter => Len(typed) < MaxTyped
      /\ strFifo' = IF StrRoom THEN Append(strFifo, Stored(b)) ELSE strFifo
      /\ typed' = IF b = "LF" /\ StrRoom THEN <<>>
                  ELSE IF b \in Letter THEN Append(typed, b) ELSE typed
      /\ whole' = (StrRoom /\ (whole \/ b = "LF"))
      /\ cmd' = Silence /\ CMDBuf' = CMDBuf
  BY DEF StrReceive
<1>5. Stored(b) \in Entry /\ Stored(b).byte = b
      /\ (b = "LF" => Stored(b).typed = typed /\ Stored(b).whole = whole)
  <2>1. CASE b = "LF"
    BY <1>2, <2>1 DEF Stored, Entry
  <2>2. CASE b # "LF"
    <3>1. <<>> \in Seq(Letter)
      BY EmptySeq
    <3> QED
      BY <2>2, <3>1 DEF Stored, Entry
  <2> QED
    BY <2>1, <2>2
<1>6. /\ typed' \in Seq(Letter) /\ Len(typed') <= MaxTyped
      /\ ~(b = "LF" /\ StrRoom) => Extends(typed', typed)
  <2>1. CASE b = "LF" /\ StrRoom
    <3>1. typed' = <<>> /\ <<>> \in Seq(Letter) /\ Len(<<>>) = 0 /\ 0 <= MaxTyped
      BY <1>4, <2>1, EmptySeq, StrAssumption
    <3> QED
      BY <2>1, <3>1
  <2>2. CASE ~(b = "LF" /\ StrRoom) /\ b \in Letter
    <3>1. typed' = Append(typed, b)
      BY <1>4, <2>2
    <3>2. /\ Append(typed, b) \in Seq(Letter) /\ Len(Append(typed, b)) = Len(typed) + 1
          /\ \A i \in 1 .. Len(typed) : Append(typed, b)[i] = typed[i]
      BY <1>2, <2>2, AppendProperties
    <3>3. Len(typed) < MaxTyped /\ MaxTyped \in Nat
      BY <1>4, <2>2, StrAssumption
    <3> DEFINE u == Append(typed, b)
    <3>4. u \in Seq(Letter) /\ Len(u) <= MaxTyped /\ Extends(u, typed)
      BY <1>2, <3>2, <3>3 DEF Extends
    <3> QED
      BY <3>1, <3>4
  <2>3. CASE ~(b = "LF" /\ StrRoom) /\ b \notin Letter
    <3>1. typed' = typed
      BY <1>4, <2>3
    <3>2. Extends(typed, typed)
      BY <1>2 DEF Extends
    <3> QED
      BY <1>2, <3>1, <3>2
  <2> QED
    BY <2>1, <2>2, <2>3
<1>7. strFifo' \in Seq(Entry) /\ Len(strFifo') <= StrFifoLen
  <2>1. CASE StrRoom
    <3>1. strFifo' = Append(strFifo, Stored(b)) /\ Len(strFifo) < StrFifoLen
      BY <1>4, <2>1 DEF StrRoom
    <3>2. Append(strFifo, Stored(b)) \in Seq(Entry)
          /\ Len(Append(strFifo, Stored(b))) = Len(strFifo) + 1
      BY <1>2, <1>5, AppendProperties
    <3>3. Len(strFifo) + 1 <= StrFifoLen
      BY <1>2, <3>1, StrAssumption
    <3> QED
      BY <3>1, <3>2, <3>3
  <2>2. CASE ~StrRoom
    BY <1>2, <1>4, <2>2
  <2> QED
    BY <2>1, <2>2
<1>8. whole' \in BOOLEAN
  BY <1>4
<1>9. StrTypeOK'
  BY <1>2, <1>4, <1>6, <1>7, <1>8, SilenceIsOne DEF StrTypeOK, Entry
<1>10. CommandIsLinesEnd'
  <2>1. IsLinesEnd(cmd')
    BY <1>4, SilenceIsOne
  <2> QED
    BY <2>1 DEF CommandIsLinesEnd, IsLinesEnd
<1>11. \E at2 : Follows(at2, strFifo', CMDBuf, typed', whole')
  <2>1. CASE StrRoom
    <3> DEFINE t2 == IF b = "LF" THEN <<>> ELSE IF b \in Letter THEN Append(typed, b) ELSE typed
               e == Stored(b)
    <3>1. \E at2 : Follows(at2, Append(strFifo, e), CMDBuf, t2, whole \/ b = "LF")
      <4> HIDE DEF e
      <4> QED
        BY <1>2, <1>3, <1>5, FollowsStored DEF e
    <3>2. strFifo' = Append(strFifo, e) /\ typed' = t2
      BY <1>4, <2>1
    <3>3. whole' = (whole \/ b = "LF")
      BY <1>4, <2>1, <1>2
    <3> HIDE DEF t2, e
    <3> QED
      BY <3>1, <3>2, <3>3, Zenon
  <2>2. CASE ~StrRoom
    <3>1. strFifo' = strFifo /\ whole' = FALSE /\ Extends(typed', typed)
      BY <1>4, <1>6, <2>2
    <3>2. Follows(at, strFifo, CMDBuf, typed', FALSE)
      BY <1>2, <1>3, <1>6, <3>1, FollowsDropped
    <3> QED
      BY <3>1, <3>2
  <2> QED
    BY <2>1, <2>2
<1> QED
  BY <1>4, <1>9, <1>10, <1>11 DEF StrInv

\* The main loop: a line feed gives the end of its line.
LEMMA ReadKeepsLines ==
  ASSUME StrInv, P_StringCmdReadCMD
  PROVE  StrInv'
<1> DEFINE b == strFifo[1].byte
           s2 == IF b \in Letter THEN Append(Cleared(CMDBuf), b)
                 ELSE IF b = "LF" THEN <<>> ELSE Cleared(CMDBuf)
<1>1. StrTypeOK
  BY DEF StrInv
<1>2. /\ strFifo \in Seq(Entry) /\ Len(strFifo) \in Nat /\ Len(strFifo) <= StrFifoLen
      /\ typed \in Seq(Letter) /\ Len(typed) <= MaxTyped /\ whole \in BOOLEAN
      /\ CMDBuf \in Seq(Letter) /\ Len(CMDBuf) < CMDBufLen
  BY <1>1, LenProperties DEF StrTypeOK, Entry
<1>3. PICK at : Follows(at, strFifo, CMDBuf, typed, whole)
  BY DEF StrInv
<1>4. Wrapped = Cleared(CMDBuf)
  BY DEF Wrapped, Cleared
<1>5. strFifo # <<>> /\ strFifo' = Tail(strFifo) /\ Head(strFifo) = strFifo[1]
      /\ typed' = typed /\ whole' = whole
  BY <1>2, HeadTailProperties DEF P_StringCmdReadCMD
<1>6. /\ CMDBuf' = s2
      /\ b = "LF" => cmd' = [text |-> Cleared(CMDBuf), typed |-> strFifo[1].typed,
                             whole |-> strFifo[1].whole]
      /\ b # "LF" => cmd' = Silence
  BY <1>4, <1>5 DEF P_StringCmdReadCMD
<1>7. b \in Letter \cup {"CR", "LF"} /\ strFifo[1] \in Entry
  <2>1. Len(strFifo) # 0
    BY <1>2, <1>5, EmptySeq
  <2>2. 1 \in 1 .. Len(strFifo)
    BY <1>2, <2>1
  <2>3. strFifo[1] \in Entry
    BY <1>2, <2>2, ElementOfSeq
  <2> QED
    BY <2>3 DEF Entry
<1>8. \E at2 : Follows(at2, Tail(strFifo), s2, typed, whole)
  BY <1>2, <1>3, <1>5, FollowsRead
<1>9. s2 \in Seq(Letter) /\ Len(s2) < CMDBufLen
  <2>1. /\ Cleared(CMDBuf) \in Seq(Letter) /\ Len(Cleared(CMDBuf)) \in Nat
        /\ Len(Cleared(CMDBuf)) <= CMDBufLen - 2 /\ CMDBufLen \in Nat /\ CMDBufLen >= 2
    BY <1>2, ClearedFits, StrAssumption
  <2>2. CASE b \in Letter
    <3> DEFINE c == Cleared(CMDBuf)
    <3>1. s2 = Append(c, b)
      BY <2>2
    <3>2. c \in Seq(Letter) /\ Len(c) \in Nat /\ Len(c) <= CMDBufLen - 2
      BY <2>1
    <3> HIDE DEF c, s2
    <3>3. Append(c, b) \in Seq(Letter) /\ Len(Append(c, b)) = Len(c) + 1
      BY <2>2, <3>2, AppendProperties
    <3> QED
      BY <2>1, <3>1, <3>2, <3>3
  <2>3. CASE b \notin Letter
    <3>1. s2 = <<>> \/ s2 = Cleared(CMDBuf)
      BY <2>3
    <3>2. <<>> \in Seq(Letter) /\ Len(<<>>) = 0
      BY EmptySeq
    <3>3. 0 < CMDBufLen
      BY <2>1
    <3> DEFINE c == Cleared(CMDBuf)
    <3>4. c \in Seq(Letter) /\ Len(c) < CMDBufLen
      BY <2>1
    <3> HIDE DEF c, s2
    <3>5. s2 = <<>> \/ s2 = c
      BY <3>1 DEF c
    <3> QED
      BY <3>2, <3>3, <3>4, <3>5
  <2> QED
    BY <2>2, <2>3
<1> HIDE DEF s2
<1>10. Tail(strFifo) \in Seq(Entry) /\ Len(Tail(strFifo)) <= StrFifoLen
  <2>1. Tail(strFifo) \in Seq(Entry) /\ Len(Tail(strFifo)) = Len(strFifo) - 1
    BY <1>2, <1>5, HeadTailProperties
  <2>2. Len(strFifo) - 1 <= StrFifoLen
    BY <1>2, StrAssumption
  <2> QED
    BY <2>1, <2>2
<1>11. IsLinesEnd(cmd') /\ cmd' \in [text : Seq(Letter), typed : Seq(Letter), whole : BOOLEAN]
  <2>1. CASE b # "LF"
    BY <1>6, <2>1, SilenceIsOne
  <2>2. CASE b = "LF"
    <3> DEFINE c == Cleared(CMDBuf)
               u == strFifo[1].typed
               v == strFifo[1].whole
               n == Len(u)
    <3>1. /\ c \in Seq(Letter) /\ u \in Seq(Letter)
          /\ v => c = SubSeq(u, n + 1 - (n % (CMDBufLen - 1)), n)
          /\ SomeOf(c, u, n)
      BY <1>2, <1>3, <1>5, <2>2, FollowsLine
    <3>2. cmd' = [text |-> c, typed |-> u, whole |-> v]
      BY <1>6, <2>2
    <3>3. v \in BOOLEAN
      BY <1>7 DEF Entry
    <3> HIDE DEF c, u, v
    <3>4. cmd'.text = c /\ cmd'.typed = u /\ cmd'.whole = v
          /\ cmd' \in [text : Seq(Letter), typed : Seq(Letter), whole : BOOLEAN]
      BY <3>1, <3>2, <3>3
    <3>5. DOMAIN u = 1 .. Len(u)
      BY <3>1, LenProperties
    <3>6. \E from \in [DOMAIN c -> DOMAIN u] :
            /\ \A i \in DOMAIN c : c[i] = u[from[i]]
            /\ \A i, j \in DOMAIN c : i < j => from[i] < from[j]
      BY <3>1, <3>5 DEF SomeOf
    <3>7. IsLinesEnd(cmd')
      <4>1. DOMAIN cmd'.text = DOMAIN c /\ DOMAIN cmd'.typed = DOMAIN u
        BY <3>4
      <4>2. cmd'.whole => cmd'.text = SubSeq(cmd'.typed, Len(cmd'.typed) + 1
                                               - (Len(cmd'.typed) % (CMDBufLen - 1)), Len(cmd'.typed))
        BY <3>1, <3>4
      <4>3. \E from \in [DOMAIN cmd'.text -> DOMAIN cmd'.typed] :
              /\ \A i \in DOMAIN cmd'.text : cmd'.text[i] = cmd'.typed[from[i]]
              /\ \A i, j \in DOMAIN cmd'.text : i < j => from[i] < from[j]
        BY <3>4, <3>6
      <4> QED
        BY <4>2, <4>3 DEF IsLinesEnd
    <3> QED
      BY <3>4, <3>7
  <2> QED
    BY <2>1, <2>2
<1>12. StrTypeOK'
  BY <1>2, <1>5, <1>6, <1>9, <1>10, <1>11 DEF StrTypeOK, Entry
<1>13. CommandIsLinesEnd'
  BY <1>11 DEF CommandIsLinesEnd, IsLinesEnd
<1>14. \E at2 : Follows(at2, strFifo', CMDBuf', typed', whole')
  BY <1>5, <1>6, <1>8
<1> QED
  BY <1>12, <1>13, <1>14 DEF StrInv

\* Every step keeps the invariant.
LEMMA StrGoesOn == StrInv /\ [StrNext]_strVars => StrInv'
<1> SUFFICES ASSUME StrInv, [StrNext]_strVars PROVE StrInv'
  OBVIOUS
<1>1. ASSUME NEW b \in Letter \cup {"CR", "LF"}, StrReceive(b) PROVE StrInv'
  BY <1>1, ReceiveKeepsLines
<1>2. CASE P_StringCmdReadCMD
  BY <1>2, ReadKeepsLines
<1>3. CASE UNCHANGED strVars
  <2>1. /\ strFifo' = strFifo /\ CMDBuf' = CMDBuf /\ cmd' = cmd /\ typed' = typed
        /\ whole' = whole
    BY <1>3 DEF strVars
  <2>2. StrTypeOK'
    BY <2>1 DEF StrInv, StrTypeOK
  <2>3. CommandIsLinesEnd'
    BY <2>1 DEF StrInv, CommandIsLinesEnd
  <2>4. (\E at : Follows(at, strFifo, CMDBuf, typed, whole))'
    BY <2>1 DEF StrInv
  <2> QED
    BY <2>2, <2>3, <2>4 DEF StrInv
<1> QED
  BY <1>1, <1>2, <1>3 DEF StrNext

\* Every command comes out of the buffer and is built of letters.
THEOREM StrTypeCorrect == StrSpec => []StrTypeOK
<1>1. StrSpec => []StrInv
  BY StrStarts, StrGoesOn, PTL DEF StrSpec
<1>2. StrInv => StrTypeOK
  BY DEF StrInv
<1> QED
  BY <1>1, <1>2, PTL

\* P_StringCmdReadCMD: for lines, FIFOs and buffers of any length, a line of which no
\* byte was dropped gives its end as the command, and every command is letters of its
\* line in their order.
THEOREM CommandsEndTheirLines == StrSpec => []CommandIsLinesEnd
<1>1. StrSpec => []StrInv
  BY StrStarts, StrGoesOn, PTL DEF StrSpec
<1>2. StrInv => CommandIsLinesEnd
  BY DEF StrInv
<1> QED
  BY <1>1, <1>2, PTL

-----------------------------------------------------------------------------
(***************************************************************************)
(* Ca310: for any probes, and whatever is lost, refused or late, a measurement*)
(* that succeeds on a quiet line is the one that was asked for, and the probes*)
(* the host remembers are the ones that answer.                            *)
(***************************************************************************)

\* What the steps and the answers are called.
Steps == {"COM", "SET", "OPR", "MDS", "MES", "READ", "READS", "cut"}

\* What goes over the line.
Commands == [op : Steps, tag : Nat, probes : SUBSET Probes, mode : Modes]
Numbers == {0} \cup {Ordered(ps)[k] : ps \in SUBSET Probes, k \in Nat}
Answers == [op : Steps, ok : BOOLEAN, tag : Nat, probe : Numbers, mode : Modes]

\* Sequences of commands and of answers, and a program that has a step to do.
LineInv ==
  /\ asked \in Seq(Commands) /\ due \in Seq(Answers) /\ caFifo \in Seq(Answers)
  /\ readings \in Seq(Answers) /\ script \in Seq(Steps) /\ (caPc # "idle" => script # <<>>)
  /\ caPc \in {"idle", "send", "await"} /\ fn \in Functions
  /\ PN \in SUBSET Probes /\ PN # {} /\ opr \in SUBSET Probes /\ PNumberFlag \in SUBSET Probes
  /\ mode \in Modes /\ mds \in Modes /\ caCalls \in Nat
  /\ quiet \in BOOLEAN /\ unsure \in BOOLEAN

Size == Cardinality(PN)

\* The step that is x steps from the end of a function's script, for n probes.
StepOf(f, n, x) ==
  CASE f = "init" -> IF x = 3 THEN "COM" ELSE "SET"
    [] f = "query" -> IF x = 4 THEN "OPR" ELSE IF x = 3 THEN "MDS" ELSE IF x = 2 THEN "MES" ELSE "READS"
    [] f = "get" -> IF x = n + 3 THEN "SET" ELSE IF x = n + 2 THEN "OPR" ELSE IF x = n + 1 THEN "MDS"
                    ELSE IF x = n THEN "MES" ELSE "READ"
    [] f = "plain" -> "SET"

LongestOf(f, n) ==
  CASE f = "init" -> 3 [] f = "query" -> 4 [] f = "get" -> n + 3 [] f = "plain" -> 1

\* The script is the end of its function's.
ScriptInv ==
  caPc # "idle" =>
    /\ Len(script) <= LongestOf(fn, Size)
    /\ \A k \in 1 .. Len(script) : script[k] = StepOf(fn, Size, Len(script) - k + 1)

\* So many readings have been taken as the script says.
ReadingInv ==
  caPc # "idle" /\ fn = "get" =>
    IF Len(script) >= Size THEN readings = <<>> ELSE Len(readings) = Size - Len(script)

\* The command of this step, as it was sent.
Cmd == [op |-> Step, tag |-> caCalls,
        probes |-> IF fn = "query" THEN Probes ELSE PN, mode |-> IF fn = "query" THEN 0 ELSE mode]

\* The probes remembered are the ones chosen.
Remembered == ~unsure /\ PNumberFlag # {} => opr = PNumberFlag

\* What an answer to this step says: that it was carried out, or that nothing was.
Says(a) ==
  /\ a.op = Step /\ a.tag = caCalls
  /\ a.ok => /\ Step \in done
             /\ Step = "OPR" /\ fn = "get" => opr = PN
             /\ Step = "MDS" => mds = mode \/ fn = "query"
  /\ ~a.ok /\ Step = "OPR" /\ fn = "get" => Remembered

\* It is all there is.
Alone(a) == (due = <<a>> /\ caFifo = <<>>) \/ (due = <<>> /\ caFifo = <<a>>)

\* A line that was quiet has this command on it, its answer, or nothing.
OneInv ==
  caPc = "await" /\ quiet /\ Step \in {"COM", "SET", "OPR", "MDS"} =>
    \/ /\ asked = <<Cmd>> /\ due = <<>> /\ caFifo = <<>>
       /\ Step = "OPR" /\ fn = "get" => Remembered
    \/ /\ asked = <<>> /\ due = <<>> /\ caFifo = <<>>
    \/ /\ asked = <<>> /\ \E a \in Answers : Says(a) /\ Alone(a)

Measured(a) == a.op = "MES" /\ a.tag = caCalls
Reading(k) == [op |-> "MES", ok |-> TRUE, tag |-> caCalls, probe |-> Ordered(PN)[k], mode |-> mode]

\* The readings and what is still to come are the measurement, in its order, ...
Whole ==
  /\ Len(readings) + Len(caFifo) + Len(due) = Size
  /\ \A k \in 1 .. Len(readings) : readings[k] = Reading(k)
  /\ \A k \in 1 .. Len(caFifo) : caFifo[k] = Reading(Len(readings) + k)
  /\ \A k \in 1 .. Len(due) : due[k] = Reading(Len(readings) + Len(caFifo) + k)

\* ... or too few for the call to succeed, or a refusal.
Short == Len(readings) + Len(caFifo) + Len(due) < Size
Refused == (\A k \in 1 .. Len(caFifo) : ~caFifo[k].ok) /\ (\A k \in 1 .. Len(due) : ~due[k].ok)

\* So is the line while the measurement is asked for and read.
ManyInv ==
  quiet /\ ((caPc = "await" /\ Step = "MES") \/ (caPc # "idle" /\ Reads)) =>
    \/ /\ caPc = "await" /\ Step = "MES" /\ asked = <<Cmd>> /\ due = <<>> /\ caFifo = <<>>
    \/ /\ asked = <<>>
       /\ \A k \in 1 .. Len(caFifo) : Measured(caFifo[k])
       /\ \A k \in 1 .. Len(due) : Measured(due[k])
       /\ fn = "get" /\ ~unsure => Whole \/ Short \/ Refused

\* All that was taken for a measurement is one of this call.
TakenInv ==
  quiet /\ caPc # "idle" => \A k \in 1 .. Len(readings) : Measured(readings[k])

\* Nothing is on the line before a measurement is asked for.
SendInv ==
  quiet /\ caPc = "send" /\ Step = "MES" => asked = <<>> /\ due = <<>> /\ caFifo = <<>>

\* What the steps before this one have done.
EffectInv ==
  quiet /\ caPc # "idle" =>
    /\ fn = "get" /\ ~unsure => /\ Len(script) <= Size + 1 => opr = PN
                                /\ Len(script) <= Size => mds = mode
    /\ fn = "init" => /\ Len(script) <= 2 => "COM" \in done
                      /\ Len(script) <= 1 => "SET" \in done

\* While no answer to a measurement's OPR is awaited, none is on its way.
Choosing == caPc = "await" /\ Step = "OPR" /\ fn = "get"

FlagInv ==
  ~unsure /\ ~Choosing => Remembered /\ \A k \in 1 .. Len(asked) : asked[k].op # "OPR"

\* CallIsExact, function by function.
Succeeded == caPc = "idle" /\ caCalls > 0 /\ returned = "ok" /\ quiet /\ (unsure => fn # "get")

GetExact == fn = "get" => readings = [k \in 1 .. Cardinality(PN) |-> Reading(k)]
DoneExact ==
  /\ fn = "query" => \A k \in 1 .. Len(readings) : Measured(readings[k])
  /\ fn = "init" => "COM" \in done /\ "SET" \in done
  /\ fn = "plain" => "SET" \in done

ExactInv == Succeeded => GetExact /\ DoneExact

CaInv ==
  /\ LineInv /\ ScriptInv /\ ReadingInv /\ OneInv /\ ManyInv /\ TakenInv /\ SendInv
  /\ EffectInv /\ FlagInv /\ ExactInv

-----------------------------------------------------------------------------

\* Probes can be counted.
LEMMA ProbeCounts ==
  ASSUME NEW ps \in SUBSET Probes
  PROVE  Cardinality(ps) \in Nat /\ (ps # {} => Cardinality(ps) >= 1)
<1>1. IsFiniteSet(1..5)
  <2>1. \A a, b \in Int : IsFiniteSet(a..b)
    BY FS_Interval
  <2>2. 1 \in Int /\ 5 \in Int
    OBVIOUS
  <2> QED
    BY <2>1, <2>2, Zenon
<1>2. ps \subseteq 1..5
  BY CaAssumption
<1>3. IsFiniteSet(ps)
  BY <1>1, <1>2, FS_Subset
<1>4. Cardinality(ps) \in Nat /\ (Cardinality(ps) = 0 <=> ps = {})
  BY <1>3, FS_CardinalityType, FS_EmptySet
<1> QED
  BY <1>4

\* The probes of a set up to a number.
ProbesTo(ps, n) == {q \in ps : q <= n}

\* They can be counted, and another number adds at most itself.
LEMMA UpToCounts ==
  ASSUME NEW ps \in SUBSET (1..5)
  PROVE  /\ IsFiniteSet(ps) /\ Cardinality(ps) \in Nat
         /\ \A n \in Nat : /\ IsFiniteSet(ProbesTo(ps, n)) /\ Cardinality(ProbesTo(ps, n)) \in Nat
                           /\ Cardinality(ProbesTo(ps, n + 1)) =
                                Cardinality(ProbesTo(ps, n)) + (IF n + 1 \in ps THEN 1 ELSE 0)
<1>1. IsFiniteSet(1..5)
  <2>1. 1 \in Int /\ 5 \in Int
    OBVIOUS
  <2> QED
    BY <2>1, FS_Interval, Zenon
<1>2. IsFiniteSet(ps)
  BY <1>1, FS_Subset
<1>3. \A S : IsFiniteSet(S) => Cardinality(S) \in Nat
  BY FS_CardinalityType
<1>4. ASSUME NEW n \in Nat
      PROVE  /\ IsFiniteSet(ProbesTo(ps, n)) /\ Cardinality(ProbesTo(ps, n)) \in Nat
             /\ Cardinality(ProbesTo(ps, n + 1)) =
                  Cardinality(ProbesTo(ps, n)) + (IF n + 1 \in ps THEN 1 ELSE 0)
  <2>1. ProbesTo(ps, n) \in SUBSET ps
    BY DEF ProbesTo
  <2>2. IsFiniteSet(ProbesTo(ps, n))
    BY <1>2, <2>1, FS_Subset
  <2>3. n + 1 \notin ProbesTo(ps, n) /\ Cardinality(ProbesTo(ps, n)) \in Nat
    BY <1>3, <2>2 DEF ProbesTo
  <2>4. CASE n + 1 \in ps
    <3>1. ProbesTo(ps, n + 1) = ProbesTo(ps, n) \cup {n + 1}
      <4>1. n + 1 <= n + 1 /\ \A q \in ps : q <= n + 1 <=> q <= n \/ q = n + 1
        OBVIOUS
      <4> QED
        BY <2>4, <4>1, Zenon DEF ProbesTo
    <3>2. Cardinality(ProbesTo(ps, n) \cup {n + 1}) = Cardinality(ProbesTo(ps, n)) + 1
      BY <2>2, <2>3, FS_AddElement
    <3> QED
      BY <2>2, <2>3, <2>4, <3>1, <3>2
  <2>5. CASE n + 1 \notin ps
    <3>1. \A q \in ps : q <= n + 1 <=> q <= n
      BY <2>5
    <3>2. ProbesTo(ps, n + 1) = ProbesTo(ps, n)
      BY <3>1, Zenon DEF ProbesTo
    <3> QED
      BY <2>2, <2>3, <2>5, <3>2
  <2> QED
    BY <2>4, <2>5
<1> QED
  BY <1>2, <1>3, <1>4

\* A set of probes has a first, a second and so on.
LEMMA KthProbe ==
  ASSUME NEW ps \in SUBSET (1..5), NEW k \in 1 .. Cardinality(ps)
  PROVE  \E p \in ps : Cardinality(ProbesTo(ps, p)) = k
<1> DEFINE Enough == {n \in Nat : Cardinality(ProbesTo(ps, n)) >= k}
<1>0. Cardinality(ps) \in Nat /\ k \in Nat /\ k >= 1 /\ k <= Cardinality(ps)
  BY UpToCounts
<1>1. 5 \in Enough
  <2>1. ProbesTo(ps, 5) = ps
    <3>1. \A q \in ps : q <= 5
      OBVIOUS
    <3> QED
      BY <3>1, Zenon DEF ProbesTo
  <2> QED
    BY <1>0, <2>1
<1>2. PICK n \in Enough : \A m \in Enough : n <= m
  BY <1>1, LeastExists
<1>3. n # 0
  <2>1. ProbesTo(ps, 0) = {}
    <3>1. \A q \in ps : ~ (q <= 0)
      OBVIOUS
    <3> QED
      BY <3>1, Zenon DEF ProbesTo
  <2>2. Cardinality(ProbesTo(ps, 0)) = 0
    BY <2>1, FS_EmptySet
  <2> QED
    BY <1>0, <2>2
<1>4. PICK m \in Nat : n = m + 1
  <2>1. n - 1 \in Nat /\ n = (n - 1) + 1
    BY <1>3
  <2> QED
    BY <2>1
<1>5. ~ (Cardinality(ProbesTo(ps, m)) >= k)
  BY <1>2, <1>4
<1>6. Cardinality(ProbesTo(ps, n)) >= k
  BY <1>2
<1>7. /\ Cardinality(ProbesTo(ps, m)) \in Nat
      /\ Cardinality(ProbesTo(ps, m + 1)) =
           Cardinality(ProbesTo(ps, m)) + (IF m + 1 \in ps THEN 1 ELSE 0)
  BY UpToCounts
<1> HIDE DEF Enough
<1>8. n \in ps /\ Cardinality(ProbesTo(ps, n)) = k
  <2> DEFINE c == Cardinality(ProbesTo(ps, m))
             d == Cardinality(ProbesTo(ps, n))
  <2>1. c \in Nat /\ d = c + (IF n \in ps THEN 1 ELSE 0) /\ d >= k /\ ~ (c >= k)
    BY <1>4, <1>5, <1>6, <1>7
  <2> HIDE DEF c, d
  <2>2. n \in ps /\ d = k
    BY <1>0, <2>1
  <2> QED
    BY <2>2 DEF d
<1> QED
  BY <1>8

\* So they can be put in order.
LEMMA ProbesInOrder ==
  ASSUME NEW ps \in SUBSET Probes
  PROVE  /\ Ordered(ps) \in [1 .. Cardinality(ps) -> ps]
         /\ \A k, l \in 1 .. Cardinality(ps) : k < l => Ordered(ps)[k] < Ordered(ps)[l]
<1> DEFINE n == Cardinality(ps)
           Rising(s) == \A k, l \in DOMAIN s : k < l => s[k] < s[l]
           s == [k \in 1 .. n |-> CHOOSE p \in ps : Cardinality(ProbesTo(ps, p)) = k]
<1>1. ps \in SUBSET (1..5) /\ n \in Nat
  BY CaAssumption, UpToCounts
<1>2. \A k \in 1 .. n : s[k] \in ps /\ Cardinality(ProbesTo(ps, s[k])) = k
  BY <1>1, KthProbe
<1>3. s \in [1 .. n -> ps]
  BY <1>2
<1>4. DOMAIN s = 1 .. n
  OBVIOUS
<1> HIDE DEF n, s
<1>5. ASSUME NEW k \in 1 .. n, NEW l \in 1 .. n, k < l, ~ (s[k] < s[l])
      PROVE  FALSE
  <2>1. s[k] \in 1..5 /\ s[l] \in 1..5 /\ s[l] <= s[k]
    <3>1. s[k] \in 1..5 /\ s[l] \in 1..5
      BY <1>1, <1>2, Zenon
    <3> QED
      BY <1>5, <3>1
  <2>2. ProbesTo(ps, s[l]) \in SUBSET ProbesTo(ps, s[k])
    <3>1. \A q \in ps : q <= s[l] => q <= s[k]
      BY <1>1, <2>1
    <3> QED
      BY <3>1, Zenon DEF ProbesTo
  <2>3. IsFiniteSet(ProbesTo(ps, s[k]))
    <3>1. s[k] \in Nat
      BY <2>1
    <3> QED
      BY <1>1, <3>1, UpToCounts
  <2>4. Cardinality(ProbesTo(ps, s[l])) <= Cardinality(ProbesTo(ps, s[k]))
    BY <2>2, <2>3, FS_Subset
  <2> QED
    BY <1>1, <1>2, <1>5, <2>4
<1>6. Rising(s)
  BY <1>4, <1>5
<1>7. \E x \in [1 .. n -> ps] : Rising(x)
  BY <1>3, <1>6
<1>8. Ordered(ps) = CHOOSE x \in [1 .. n -> ps] : Rising(x)
  BY DEF Ordered, n
<1> HIDE DEF Rising
<1>9. Ordered(ps) \in [1 .. n -> ps] /\ Rising(Ordered(ps))
  BY <1>7, <1>8, Zenon
<1>10. DOMAIN Ordered(ps) = 1 .. n
  BY <1>9
<1> QED
  BY <1>9, <1>10 DEF n, Rising

\* What a reading says of its probe.
LEMMA OrderedNumbers == \A ps \in SUBSET Probes, k \in Nat : Ordered(ps)[k] \in Numbers
BY DEF Numbers

\* A sequence is empty or has a length.
LEMMA NotEmpty == \A S : \A s \in Seq(S) : Len(s) \in Nat /\ (s # <<>> <=> Len(s) > 0)
<1> SUFFICES ASSUME NEW S, NEW s \in Seq(S) PROVE Len(s) \in Nat /\ (s # <<>> <=> Len(s) > 0)
  OBVIOUS
<1> QED
  BY LenProperties, EmptySeq

\* The shortest sequences.
LEMMA OneElement ==
  ASSUME NEW S, NEW e \in S
  PROVE  /\ <<e>> \in Seq(S) /\ Len(<<e>>) = 1 /\ <<e>>[1] = e /\ Head(<<e>>) = e
         /\ Tail(<<e>>) = <<>> /\ Append(<<>>, e) = <<e>> /\ <<e>> # <<>>
<1>1. <<e>> \in Seq(S)
  OBVIOUS
<1>2. Len(<<e>>) = 1 /\ <<e>>[1] = e /\ <<e>> # <<>>
  OBVIOUS
<1>3. Head(<<e>>) = e
  OBVIOUS
<1>4. Tail(<<e>>) = <<>>
  OBVIOUS
<1>5. Append(<<>>, e) = <<e>>
  OBVIOUS
<1> QED
  BY <1>1, <1>2, <1>3, <1>4, <1>5, Zenon

\* A function of an interval that begins with 1 is a sequence.
LEMMA IsRun310 ==
  ASSUME NEW n \in Nat, NEW S, NEW f \in [1..n -> S]
  PROVE  f \in Seq(S) /\ Len(f) = n
<1>1. f \in Seq(S)
  BY SeqDef
<1>2. Len(f) \in Nat /\ DOMAIN f = 1 .. Len(f) /\ DOMAIN f = 1 .. n
  BY <1>1, LenProperties
<1> QED
  BY <1>1, <1>2

\* The scripts are what StepOf says.
LEMMA Scripts ==
  ASSUME NEW f \in Functions, NEW ps \in SUBSET Probes, ps # {}
  PROVE  /\ Script(f, ps) \in Seq(Steps) /\ Script(f, ps) # <<>>
         /\ Len(Script(f, ps)) <= LongestOf(f, Cardinality(ps))
         /\ \A k \in 1 .. Len(Script(f, ps)) :
              Script(f, ps)[k] = StepOf(f, Cardinality(ps), Len(Script(f, ps)) - k + 1)
         /\ f = "init" => Len(Script(f, ps)) = 3
         /\ f = "get" => Len(Script(f, ps)) = Cardinality(ps) + (IF ps = PNumberFlag THEN 1 ELSE 3)
<1> DEFINE n == Cardinality(ps)
           s == Script(f, ps)
<1>1. n \in Nat /\ n >= 1
  BY ProbeCounts
<1>10. "COM" \in Steps /\ "SET" \in Steps /\ "OPR" \in Steps /\ "MDS" \in Steps /\ "MES" \in Steps
       /\ "READ" \in Steps /\ "READS" \in Steps
  BY DEF Steps
<1>2. CASE f = "init"
  <2>1. s = <<"COM", "SET", "SET">>
    BY <1>2 DEF Script
  <2>3. <<"COM", "SET", "SET">> \in Seq(Steps)
    BY <1>10
  <2>2. s \in Seq(Steps) /\ Len(s) = 3 /\ s[1] = "COM" /\ s[2] = "SET" /\ s[3] = "SET"
    BY <2>1, <2>3
  <2> HIDE DEF s, n
  <2>4. LongestOf("init", n) = 3
    BY DEF LongestOf
  <2>5. \A k \in 1 .. 3 : s[k] = StepOf("init", n, 3 - k + 1)
    BY <2>2 DEF StepOf
  <2>6. s # <<>> /\ Len(s) <= LongestOf("init", n)
    BY <2>2, <2>4, NotEmpty
  <2>7. \A k \in 1 .. Len(s) : s[k] = StepOf("init", n, Len(s) - k + 1)
    BY <2>2, <2>5, Zenon
  <2>8. f # "get" /\ (f = "init" => Len(s) = 3)
    BY <1>2, <2>2
  <2> QED
    BY <1>2, <2>2, <2>6, <2>7, <2>8, Zenon DEF s, n
<1>3. CASE f = "query"
  <2>1. s = <<"OPR", "MDS", "MES", "READS">>
    BY <1>3 DEF Script
  <2>3. <<"OPR", "MDS", "MES", "READS">> \in Seq(Steps)
    BY <1>10
  <2>2. s \in Seq(Steps) /\ Len(s) = 4 /\ s[1] = "OPR" /\ s[2] = "MDS" /\ s[3] = "MES" /\ s[4] = "READS"
    BY <2>1, <2>3
  <2> HIDE DEF s, n
  <2>4. LongestOf("query", n) = 4
    BY DEF LongestOf
  <2>5. \A k \in 1 .. 4 : s[k] = StepOf("query", n, 4 - k + 1)
    BY <2>2 DEF StepOf
  <2>6. s # <<>> /\ Len(s) <= LongestOf("query", n)
    BY <2>2, <2>4, NotEmpty
  <2>7. \A k \in 1 .. Len(s) : s[k] = StepOf("query", n, Len(s) - k + 1)
    BY <2>2, <2>5, Zenon
  <2>8. f # "get" /\ (f = "init" => Len(s) = 3)
    BY <1>3, <2>2
  <2> QED
    BY <1>3, <2>2, <2>6, <2>7, <2>8, Zenon DEF s, n
<1>4. CASE f = "plain"
  <2>1. s = <<"SET">>
    BY <1>4 DEF Script
  <2>3. <<"SET">> \in Seq(Steps)
    BY <1>10
  <2>2. s \in Seq(Steps) /\ Len(s) = 1 /\ s[1] = "SET"
    BY <2>1, <2>3
  <2> HIDE DEF s, n
  <2>4. LongestOf("plain", n) = 1
    BY DEF LongestOf
  <2>5. \A k \in 1 .. 1 : s[k] = StepOf("plain", n, 1 - k + 1)
    BY <2>2 DEF StepOf
  <2>6. s # <<>> /\ Len(s) <= LongestOf("plain", n)
    BY <2>2, <2>4, NotEmpty
  <2>7. \A k \in 1 .. Len(s) : s[k] = StepOf("plain", n, Len(s) - k + 1)
    BY <2>2, <2>5, Zenon
  <2>8. f # "get" /\ (f = "init" => Len(s) = 3)
    BY <1>4, <2>2
  <2> QED
    BY <1>4, <2>2, <2>6, <2>7, <2>8, Zenon DEF s, n
<1>5. CASE f = "get"
  <2> DEFINE r == [k \in 1 .. n - 1 |-> "READ"]
             h == IF ps = PNumberFlag THEN <<>> ELSE <<"SET", "OPR">>
             m == <<"MDS", "MES">>
             x == IF ps = PNumberFlag THEN 0 ELSE 2
  <2>1. s = (h \o m) \o r
    BY <1>5, Zenon DEF Script, Measure
  <2>2. h \in Seq(Steps) /\ Len(h) = x /\ (x = 2 => h[1] = "SET" /\ h[2] = "OPR")
    <3>1. <<>> \in Seq(Steps) /\ <<"SET", "OPR">> \in Seq(Steps)
      BY <1>10
    <3> QED
      BY <3>1
  <2>3. m \in Seq(Steps) /\ Len(m) = 2 /\ m[1] = "MDS" /\ m[2] = "MES"
    BY <1>10
  <2>4. r \in Seq(Steps) /\ Len(r) = n - 1 /\ \A k \in 1 .. n - 1 : r[k] = "READ"
    <3>1. n - 1 \in Nat /\ r \in [1 .. n - 1 -> Steps]
      BY <1>1, <1>10
    <3>2. \A k \in 1 .. n - 1 : r[k] = "READ"
      OBVIOUS
    <3> HIDE DEF r, n
    <3> QED
      BY <3>1, <3>2, IsRun310
  <2>5. x \in {0, 2} /\ x = (IF ps = PNumberFlag THEN 0 ELSE 2)
    OBVIOUS
  <2> DEFINE g == h \o m
  <2> HIDE DEF h, m, r, x, n
  <2>6. /\ g \in Seq(Steps) /\ Len(g) = x + 2
        /\ \A k \in 1 .. x + 2 : g[k] = IF k <= x THEN h[k] ELSE m[k - x]
    <3>1. /\ g \in Seq(Steps) /\ Len(g) = Len(h) + Len(m)
          /\ \A k \in 1 .. Len(h) + Len(m) : g[k] = IF k <= Len(h) THEN h[k] ELSE m[k - Len(h)]
      BY <2>2, <2>3, ConcatProperties, Zenon DEF g
    <3> HIDE DEF g
    <3> QED
      BY <2>2, <2>3, <3>1
  <2>7. s = g \o r
    BY <2>1
  <2> HIDE DEF g, s
  <2>8. /\ s \in Seq(Steps) /\ Len(s) = (x + 2) + (n - 1)
        /\ \A k \in 1 .. (x + 2) + (n - 1) : s[k] = IF k <= x + 2 THEN g[k] ELSE r[k - (x + 2)]
    <3>1. /\ g \o r \in Seq(Steps) /\ Len(g \o r) = Len(g) + Len(r)
          /\ \A k \in 1 .. Len(g) + Len(r) : (g \o r)[k] = IF k <= Len(g) THEN g[k] ELSE r[k - Len(g)]
      BY <2>4, <2>6, ConcatProperties, Zenon
    <3>2. /\ s \in Seq(Steps) /\ Len(s) = Len(g) + Len(r)
          /\ \A k \in 1 .. Len(g) + Len(r) : s[k] = IF k <= Len(g) THEN g[k] ELSE r[k - Len(g)]
      BY <2>7, <3>1, Zenon
    <3> QED
      BY <2>4, <2>6, <3>2
  <2>9. Len(s) = n + x + 1
    BY <1>1, <2>5, <2>8
  <2>10. ASSUME NEW k \in 1 .. n + x + 1 PROVE s[k] = StepOf("get", n, (n + x + 1) - k + 1)
    <3>1. k \in 1 .. (x + 2) + (n - 1) /\ k \in Nat
      BY <1>1, <2>5
    <3>2. CASE k > x + 2
      <4>1. k - (x + 2) \in 1 .. n - 1 /\ (n + x + 1) - k + 1 < n
        BY <1>1, <2>5, <3>1, <3>2
      <4>2. s[k] = "READ"
        BY <2>4, <2>8, <3>1, <3>2, <4>1, <2>5
      <4>3. StepOf("get", n, (n + x + 1) - k + 1) = "READ"
        BY <1>1, <4>1 DEF StepOf
      <4> QED
        BY <4>2, <4>3
    <3>3. CASE k <= x + 2 /\ k > x
      <4>1. s[k] = m[k - x] /\ k - x \in {1, 2} /\ (n + x + 1) - k + 1 = n + 2 - (k - x)
        BY <1>1, <2>5, <2>6, <2>8, <3>1, <3>3
      <4>2. s[k] = IF k - x = 1 THEN "MDS" ELSE "MES"
        BY <2>3, <4>1
      <4>3. StepOf("get", n, (n + x + 1) - k + 1) = IF k - x = 1 THEN "MDS" ELSE "MES"
        BY <1>1, <2>5, <4>1 DEF StepOf
      <4> QED
        BY <4>2, <4>3
    <3>4. CASE k <= x
      <4>1. x = 2 /\ k \in {1, 2} /\ s[k] = h[k] /\ (n + x + 1) - k + 1 = n + 4 - k
        BY <1>1, <2>5, <2>6, <2>8, <3>1, <3>4
      <4>2. s[k] = IF k = 1 THEN "SET" ELSE "OPR"
        BY <2>2, <4>1
      <4>3. StepOf("get", n, (n + x + 1) - k + 1) = IF k = 1 THEN "SET" ELSE "OPR"
        BY <1>1, <4>1 DEF StepOf
      <4> QED
        BY <4>2, <4>3
    <3> QED
      BY <2>5, <3>1, <3>2, <3>3, <3>4
  <2>11. LongestOf("get", n) = n + 3
    BY DEF LongestOf
  <2>12. s # <<>>
    BY <1>1, <2>5, <2>8, <2>9, NotEmpty
  <2>13. Len(s) = n + (IF ps = PNumberFlag THEN 1 ELSE 3) /\ Len(s) <= n + 3
    BY <1>1, <2>5, <2>9
  <2> QED
    BY <1>5, <2>8, <2>9, <2>10, <2>11, <2>12, <2>13 DEF n, s
<1> QED
  BY <1>2, <1>3, <1>4, <1>5 DEF Functions

\* Which step is in progress tells how much of the script is left.
LEMMA StepIs ==
  ASSUME NEW f \in Functions, NEW n \in Nat, n >= 1, NEW s \in Seq(Steps), s # <<>>,
         Len(s) <= LongestOf(f, n), \A k \in 1 .. Len(s) : s[k] = StepOf(f, n, Len(s) - k + 1)
  PROVE  /\ Len(s) \in Nat /\ Len(s) >= 1 /\ Head(s) \in Steps
         /\ f = "get" => /\ Head(s) \in {"SET", "OPR", "MDS", "MES", "READ"}
                         /\ Head(s) = "SET" <=> Len(s) > n + 2
                         /\ Head(s) = "OPR" <=> Len(s) = n + 2
                         /\ Head(s) = "MDS" <=> Len(s) = n + 1
                         /\ Head(s) = "MES" <=> Len(s) = n
                         /\ Head(s) = "READ" <=> Len(s) < n
         /\ f = "query" => /\ Head(s) \in {"OPR", "MDS", "MES", "READS"}
                           /\ Head(s) = "READS" <=> Len(s) = 1
                           /\ Head(s) = "MES" <=> Len(s) = 2
                           /\ Head(s) = "MDS" <=> Len(s) = 3
         /\ f = "init" => /\ Head(s) \in {"COM", "SET"} /\ Len(s) <= 3
                          /\ Head(s) = "COM" <=> Len(s) = 3
         /\ f = "plain" => Head(s) = "SET"
<1> DEFINE h == Head(s)
           x == Len(s)
<1>1. x \in Nat /\ x >= 1
  BY NotEmpty
<1>2. h \in Steps
  BY HeadTailProperties
<1>3. h = s[1]
  OBVIOUS
<1>4. s[1] = StepOf(f, n, x)
  <2>1. 1 \in 1 .. x /\ x - 1 + 1 = x
    BY <1>1
  <2> QED
    BY <2>1
<1>5. h = StepOf(f, n, x) /\ x <= LongestOf(f, n)
  BY <1>3, <1>4
<1> HIDE DEF h, x
<1>6. ASSUME f = "get"
      PROVE  /\ h \in {"SET", "OPR", "MDS", "MES", "READ"}
             /\ h = "SET" <=> x > n + 2
             /\ h = "OPR" <=> x = n + 2
             /\ h = "MDS" <=> x = n + 1
             /\ h = "MES" <=> x = n
             /\ h = "READ" <=> x < n
  <2>1. /\ x <= n + 3
        /\ h = IF x = n + 3 THEN "SET" ELSE IF x = n + 2 THEN "OPR" ELSE IF x = n + 1 THEN "MDS"
               ELSE IF x = n THEN "MES" ELSE "READ"
    BY <1>5, <1>6 DEF StepOf, LongestOf
  <2> QED
    BY <1>1, <2>1
<1>7. ASSUME f = "query"
      PROVE  h \in {"OPR", "MDS", "MES", "READS"} /\ (h = "READS" <=> x = 1)
             /\ (h = "MES" <=> x = 2) /\ (h = "MDS" <=> x = 3)
  <2>1. /\ x <= 4
        /\ h = IF x = 4 THEN "OPR" ELSE IF x = 3 THEN "MDS" ELSE IF x = 2 THEN "MES" ELSE "READS"
    BY <1>5, <1>7 DEF StepOf, LongestOf
  <2> QED
    BY <1>1, <2>1
<1>8. ASSUME f = "init"
      PROVE  h \in {"COM", "SET"} /\ x <= 3 /\ (h = "COM" <=> x = 3)
  BY <1>5, <1>8 DEF StepOf, LongestOf
<1>9. ASSUME f = "plain" PROVE h = "SET"
  BY <1>5, <1>9 DEF StepOf
<1> QED
  BY <1>1, <1>2, <1>6, <1>7, <1>8, <1>9 DEF h, x

\* The step of a call that is running, in these terms.
LEMMA StepNow ==
  ASSUME LineInv, ScriptInv, caPc # "idle"
  PROVE  /\ Size \in Nat /\ Size >= 1 /\ Len(script) \in Nat /\ Len(script) >= 1 /\ Step \in Steps
         /\ fn = "get" => /\ Step \in {"SET", "OPR", "MDS", "MES", "READ"}
                          /\ Step = "SET" <=> Len(script) > Size + 2
                          /\ Step = "OPR" <=> Len(script) = Size + 2
                          /\ Step = "MDS" <=> Len(script) = Size + 1
                          /\ Step = "MES" <=> Len(script) = Size
                          /\ Step = "READ" <=> Len(script) < Size
         /\ fn = "query" => /\ Step \in {"OPR", "MDS", "MES", "READS"}
                            /\ Step = "READS" <=> Len(script) = 1
                            /\ Step = "MES" <=> Len(script) = 2
                            /\ Step = "MDS" <=> Len(script) = 3
         /\ fn = "init" => /\ Step \in {"COM", "SET"} /\ Len(script) <= 3
                           /\ Step = "COM" <=> Len(script) = 3
         /\ fn = "plain" => Step = "SET"
<1>1. fn \in Functions /\ script \in Seq(Steps) /\ script # <<>> /\ Size \in Nat /\ Size >= 1
  BY ProbeCounts DEF LineInv, Size
<1>2. /\ Len(script) <= LongestOf(fn, Size)
      /\ \A k \in 1 .. Len(script) : script[k] = StepOf(fn, Size, Len(script) - k + 1)
  BY DEF ScriptInv
<1> QED
  BY <1>1, <1>2, StepIs DEF Step

\* What is left of a script is a script.
LEMMA ScriptGoesOn ==
  ASSUME LineInv, ScriptInv, caPc # "idle", Len(script) # 1
  PROVE  /\ Tail(script) \in Seq(Steps) /\ Tail(script) # <<>> /\ Len(Tail(script)) = Len(script) - 1
         /\ Len(Tail(script)) <= LongestOf(fn, Size)
         /\ \A k \in 1 .. Len(Tail(script)) :
              Tail(script)[k] = StepOf(fn, Size, Len(Tail(script)) - k + 1)
<1> DEFINE s == Tail(script)
           x == Len(script)
<1>1. script \in Seq(Steps) /\ script # <<>> /\ x \in Nat /\ x > 0 /\ x # 1
  BY NotEmpty DEF LineInv
<1>2. /\ x <= LongestOf(fn, Size)
      /\ \A k \in 1 .. x : script[k] = StepOf(fn, Size, x - k + 1)
  BY DEF ScriptInv
<1>3. /\ s \in Seq(Steps) /\ Len(s) = x - 1
      /\ \A k \in 1 .. Len(s) : s[k] = script[k + 1]
  BY <1>1, HeadTailProperties
<1> HIDE DEF s, x
<1>4. s # <<>>
  <2>1. Len(s) > 0
    BY <1>1, <1>3
  <2> QED
    BY <1>3, <2>1, NotEmpty
<1>5. LongestOf(fn, Size) \in Nat
  <2>1. Size \in Nat /\ fn \in Functions
    BY ProbeCounts DEF LineInv, Size
  <2> QED
    BY <2>1 DEF LongestOf, Functions
<1>6. Len(s) <= LongestOf(fn, Size)
  BY <1>1, <1>2, <1>3, <1>5
<1>7. ASSUME NEW k \in 1 .. Len(s) PROVE s[k] = StepOf(fn, Size, Len(s) - k + 1)
  <2>1. k + 1 \in 1 .. x /\ x - (k + 1) + 1 = Len(s) - k + 1
    BY <1>1, <1>3
  <2> QED
    BY <1>2, <1>3, <2>1
<1> QED
  BY <1>3, <1>4, <1>6, <1>7 DEF s, x

-----------------------------------------------------------------------------

\* A call begins.  It leaves OPR out only when the probes are the ones chosen.
LEMMA CaCallKeeps ==
  ASSUME CaInv, NEW f \in Functions, NEW ps \in (SUBSET Probes) \ {{}}, NEW m \in Modes, CaCall(f, ps, m)
  PROVE  CaInv'
<1> DEFINE s == Script(f, ps)
           n == Cardinality(ps)
<1>1. /\ caPc = "idle" /\ caPc' = "send" /\ fn' = f /\ PN' = ps /\ mode' = m /\ caCalls' = caCalls + 1
      /\ script' = s /\ readings' = <<>> /\ quiet' = TRUE
      /\ UNCHANGED <<PNumberFlag, caFifo, asked, due, opr, mds, unsure>>
  BY DEF CaCall, instrument
<1>2. ps \in SUBSET Probes /\ ps # {} /\ n \in Nat /\ n >= 1
  BY ProbeCounts
<1>3. /\ s \in Seq(Steps) /\ s # <<>> /\ Len(s) <= LongestOf(f, n)
      /\ \A k \in 1 .. Len(s) : s[k] = StepOf(f, n, Len(s) - k + 1)
      /\ f = "init" => Len(s) = 3
      /\ f = "get" => Len(s) = n + (IF ps = PNumberFlag THEN 1 ELSE 3)
  BY <1>2, Scripts
<1> HIDE DEF s, n
<1>4. Size' = n /\ Step' = Head(s)
  BY <1>1 DEF Size, Step, n
<1>5. /\ Head(s) \notin {"MES", "READ", "READS"}
      /\ f = "get" => Len(s) \in Nat /\ Len(s) >= n /\ (Len(s) <= n + 1 => ps = PNumberFlag)
                      /\ ~(Len(s) <= n)
  <2>1. /\ f = "get" => /\ Head(s) \in {"SET", "OPR", "MDS", "MES", "READ"}
                        /\ Head(s) = "MES" <=> Len(s) = n
                        /\ Head(s) = "READ" <=> Len(s) < n
        /\ f = "query" => /\ Head(s) \in {"OPR", "MDS", "MES", "READS"}
                          /\ Head(s) = "READS" <=> Len(s) = 1
        /\ f = "init" => Head(s) \in {"COM", "SET"}
        /\ f = "plain" => Head(s) = "SET"
    BY <1>2, <1>3, StepIs
  <2>2. f = "query" => s = <<"OPR", "MDS", "MES", "READS">>
    BY DEF s, Script
  <2>3. f = "query" => Head(s) = "OPR"
    BY <2>2
  <2> QED
    BY <1>2, <1>3, <2>1, <2>3 DEF Functions
<1>6. LineInv'
  <2>1. caCalls \in Nat /\ caFifo \in Seq(Answers) /\ asked \in Seq(Commands) /\ due \in Seq(Answers)
        /\ PNumberFlag \in SUBSET Probes /\ opr \in SUBSET Probes /\ mds \in Modes /\ unsure \in BOOLEAN
    BY DEF CaInv, LineInv
  <2>2. <<>> \in Seq(Answers) /\ caCalls + 1 \in Nat
    BY <2>1, EmptySeq
  <2> QED
    BY <1>1, <1>2, <1>3, <2>1, <2>2 DEF LineInv
<1>7. ScriptInv' /\ ReadingInv'
  BY <1>1, <1>3, <1>4, <1>5 DEF ScriptInv, ReadingInv
<1>8. OneInv' /\ ManyInv' /\ SendInv'
  BY <1>1, <1>4, <1>5 DEF OneInv, ManyInv, SendInv, Reads
<1>9. TakenInv'
  <2>1. 1 .. Len(readings') = {}
    BY <1>1, EmptySeq
  <2> QED
    BY <2>1 DEF TakenInv
<1>10. Remembered' <=> Remembered
  BY <1>1 DEF Remembered
<1>11. ~unsure => Remembered /\ \A k \in 1 .. Len(asked) : asked[k].op # "OPR"
  BY <1>1 DEF CaInv, FlagInv, Choosing
<1>12. FlagInv'
  BY <1>1, <1>10, <1>11 DEF FlagInv, Choosing
<1>13. EffectInv'
  <2>1. ASSUME f = "get", ~unsure, Len(s) <= n + 1 PROVE opr = ps
    BY <1>2, <1>5, <1>11, <2>1 DEF Remembered
  <2>2. f = "init" => ~(Len(s) <= 2) /\ ~(Len(s) <= 1)
    <3>1. f = "init" => Len(s) = 3
      BY <1>3, Zenon
    <3>2. ~(3 <= 2) /\ ~(3 <= 1)
      OBVIOUS
    <3> QED
      BY <3>1, <3>2, Zenon
  <2>3. ASSUME fn' = "get", ~unsure'
        PROVE  (Len(script') <= Size' + 1 => opr' = PN') /\ (Len(script') <= Size' => mds' = mode')
    BY <1>1, <1>4, <1>5, <2>1, <2>3
  <2>4. ASSUME fn' = "init" PROVE ~(Len(script') <= 2) /\ ~(Len(script') <= 1)
    BY <1>1, <2>2, <2>4
  <2> QED
    BY <2>3, <2>4 DEF EffectInv
<1>14. ExactInv'
  BY <1>1 DEF ExactInv, Succeeded
<1> QED
  BY <1>6, <1>7, <1>8, <1>9, <1>12, <1>13, <1>14 DEF CaInv

\* A command is sent.
LEMMA RunKeeps ==
  ASSUME CaInv, Run
  PROVE  CaInv'
<1>1. /\ caPc = "send" /\ caPc' = "await"
      /\ UNCHANGED <<fn, PN, mode, script, PNumberFlag, readings, caCalls, due, opr, mds, done>>
  BY DEF Run
<1>2. Step' = Step /\ Size' = Size /\ (Reads' <=> Reads) /\ Cmd' = Cmd
  BY <1>1 DEF Step, Size, Reads, Cmd
<1>3. LineInv /\ ScriptInv /\ caPc # "idle"
  BY <1>1 DEF CaInv
<1>4. ExactInv'
  BY <1>1 DEF ExactInv, Succeeded
<1>5. ScriptInv' /\ ReadingInv' /\ SendInv'
  BY <1>1, <1>2 DEF CaInv, ScriptInv, ReadingInv, SendInv
<1>6. CASE Reads
  <2>1. UNCHANGED <<caFifo, asked, quiet, unsure>>
    BY <1>6 DEF Run
  <2>2. LineInv'
    BY <1>1, <1>3, <2>1 DEF LineInv
  <2>3. OneInv'
    BY <1>2, <1>6 DEF OneInv, Reads
  <2>4. ManyInv'
    <3>1. Step # "MES"
      BY <1>6 DEF Reads
    <3>2. quiet => /\ asked = <<>>
                   /\ \A k \in 1 .. Len(caFifo) : Measured(caFifo[k])
                   /\ \A k \in 1 .. Len(due) : Measured(due[k])
                   /\ fn = "get" /\ ~unsure => Whole \/ Short \/ Refused
      BY <1>1, <1>6, <3>1 DEF CaInv, ManyInv
    <3> QED
      BY <1>1, <1>2, <2>1, <3>2 DEF ManyInv, Measured, Whole, Short, Refused, Reading, Size
  <2>5. TakenInv' /\ EffectInv' /\ FlagInv'
    <3>1. Step # "OPR"
      BY <1>6 DEF Reads
    <3>2. TakenInv'
      BY <1>1, <2>1 DEF CaInv, TakenInv, Measured
    <3>3. EffectInv'
      BY <1>1, <1>2, <2>1 DEF CaInv, EffectInv
    <3>4. FlagInv'
      BY <1>1, <1>2, <2>1, <3>1 DEF CaInv, FlagInv, Choosing, Remembered
    <3> QED
      BY <3>2, <3>3, <3>4
  <2> QED
    BY <1>4, <1>5, <2>2, <2>3, <2>4, <2>5 DEF CaInv
<1>7. CASE ~Reads
  <2>1. /\ caFifo' = <<>> /\ asked' = Append(asked, Cmd)
        /\ quiet' = (quiet /\ asked = <<>> /\ due = <<>>)
        /\ unsure' = (unsure \/ (Step = "OPR" /\ fn = "query"))
    BY <1>7 DEF Run, Flushed, Cmd
  <2>2. Cmd \in Commands
    <3>1. Step \in Steps
      BY <1>3, StepNow
    <3>2. 0 \in Modes
      BY DEF Modes
    <3> QED
      BY <1>3, <3>1, <3>2 DEF Cmd, Commands, LineInv
  <2>3. asked \in Seq(Commands)
    BY <1>3 DEF LineInv
  <2>4. /\ asked' \in Seq(Commands) /\ Len(asked') = Len(asked) + 1
        /\ \A k \in 1 .. Len(asked) : asked'[k] = asked[k]
        /\ asked'[Len(asked) + 1] = Cmd
    BY <2>1, <2>2, <2>3, AppendProperties
  <2>5. LineInv'
    <3>1. <<>> \in Seq(Answers)
      BY EmptySeq
    <3>2. quiet' \in BOOLEAN /\ unsure' \in BOOLEAN
      BY <2>1, <1>3 DEF LineInv
    <3> QED
      BY <1>1, <1>3, <2>1, <2>4, <3>1, <3>2 DEF LineInv
  <2>6. ASSUME quiet' PROVE quiet /\ asked' = <<Cmd>> /\ due' = <<>> /\ caFifo' = <<>>
    <3>1. quiet /\ asked = <<>> /\ due = <<>>
      BY <2>1, <2>6
    <3>2. Append(<<>>, Cmd) = <<Cmd>>
      BY <2>2, OneElement
    <3> QED
      BY <1>1, <2>1, <3>1, <3>2
  <2>7. fn = "get" => unsure' = unsure
    BY <1>3, <2>1 DEF LineInv
  <2>8. ~unsure => Remembered /\ \A k \in 1 .. Len(asked) : asked[k].op # "OPR"
    BY <1>1 DEF CaInv, FlagInv, Choosing
  <2>9. fn = "get" => (Remembered' <=> Remembered)
    BY <1>1, <2>7 DEF Remembered
  <2>10. OneInv'
    <3>1. fn = "get" => Remembered'
      BY <2>8, <2>9 DEF Remembered
    <3> QED
      BY <1>1, <1>2, <2>6, <3>1 DEF OneInv
  <2>11. ManyInv'
    BY <1>1, <1>2, <1>7, <2>6 DEF ManyInv
  <2>12. TakenInv'
    BY <1>1, <2>6 DEF CaInv, TakenInv, Measured
  <2>13. EffectInv'
    BY <1>1, <1>2, <2>6, <2>7 DEF CaInv, EffectInv
  <2>14. FlagInv'
    <3>1. ASSUME ~unsure', ~Choosing' PROVE Remembered' /\ \A k \in 1 .. Len(asked') : asked'[k].op # "OPR"
      <4>1. ~unsure
        BY <2>1, <3>1
      <4>2. Remembered'
        BY <1>1, <2>1, <2>8, <4>1 DEF Remembered
      <4>3. Step # "OPR"
        <5>1. Step = "OPR" => fn # "query" /\ fn # "get"
          BY <1>1, <1>2, <2>1, <3>1 DEF Choosing
        <5>2. Step = "OPR" => fn = "get" \/ fn = "query"
          BY <1>3, StepNow DEF LineInv, Functions
        <5> QED
          BY <5>1, <5>2
      <4>4. ASSUME NEW k \in 1 .. Len(asked') PROVE asked'[k].op # "OPR"
        <5>1. Len(asked) \in Nat
          BY <2>3, NotEmpty
        <5>2. CASE k \in 1 .. Len(asked)
          BY <2>4, <2>8, <4>1, <5>2
        <5>3. CASE k = Len(asked) + 1
          <6>1. Cmd.op = Step
            BY DEF Cmd
          <6> QED
            BY <2>4, <4>3, <5>3, <6>1
        <5> QED
          BY <2>4, <5>1, <5>2, <5>3
      <4> QED
        BY <4>2, <4>4
    <3> QED
      BY <3>1 DEF FlagInv
  <2> QED
    BY <1>4, <1>5, <2>5, <2>10, <2>11, <2>12, <2>13, <2>14 DEF CaInv
<1> QED
  BY <1>6, <1>7

\* What the instrument and the line do leaves the program alone.
LEMMA HostStays ==
  ASSUME CaInv, UNCHANGED host, quiet' = quiet, unsure' = unsure, done \subseteq done'
  PROVE  /\ UNCHANGED <<caPc, fn, PN, mode, script, PNumberFlag, caFifo, readings, returned, caCalls>>
         /\ Step' = Step /\ Size' = Size /\ Cmd' = Cmd /\ (Reads' <=> Reads) /\ (Choosing' <=> Choosing)
         /\ ScriptInv' /\ ReadingInv' /\ TakenInv' /\ ExactInv'
<1>1. UNCHANGED <<caPc, fn, PN, mode, script, PNumberFlag, readings, returned, caCalls, caFifo>>
  BY DEF host
<1>2. /\ Step' = Step /\ Size' = Size /\ Cmd' = Cmd /\ (Reads' <=> Reads) /\ (Choosing' <=> Choosing)
  BY <1>1 DEF Step, Size, Cmd, Reads, Choosing
<1>3. ScriptInv' /\ ReadingInv'
  BY <1>1, <1>2 DEF CaInv, ScriptInv, ReadingInv
<1>4. TakenInv'
  BY <1>1 DEF CaInv, TakenInv, Measured
<1>5. ExactInv'
  <2>1. GetExact' <=> GetExact
    BY <1>1, Zenon DEF GetExact, Reading
  <2>2. DoneExact => DoneExact'
    BY <1>1 DEF DoneExact, Measured
  <2>3. Succeeded' <=> Succeeded
    BY <1>1 DEF Succeeded
  <2> QED
    BY <2>1, <2>2, <2>3 DEF CaInv, ExactInv
<1> QED
  BY <1>1, <1>2, <1>3, <1>4, <1>5

\* The first command or answer, and the others.
LEMMA FirstOf ==
  ASSUME NEW S, NEW s \in Seq(S), s # <<>>
  PROVE  /\ Len(s) \in Nat /\ Len(s) >= 1 /\ Head(s) \in S /\ Head(s) = s[1]
         /\ Tail(s) \in Seq(S) /\ Len(Tail(s)) = Len(s) - 1
         /\ \A k \in 1 .. Len(Tail(s)) : Tail(s)[k] = s[k + 1] /\ k + 1 \in 1 .. Len(s)
         /\ \A P : (\A k \in 1 .. Len(s) : s[k] \in P) =>
              Head(s) \in P /\ \A k \in 1 .. Len(Tail(s)) : Tail(s)[k] \in P
<1>1. Len(s) \in Nat /\ Len(s) >= 1 /\ Head(s) = s[1]
  BY NotEmpty
<1>2. /\ Head(s) \in S /\ Tail(s) \in Seq(S) /\ Len(Tail(s)) = Len(s) - 1
      /\ \A k \in 1 .. Len(Tail(s)) : Tail(s)[k] = s[k + 1]
  BY HeadTailProperties
<1>3. 1 \in 1 .. Len(s) /\ \A k \in 1 .. Len(Tail(s)) : k + 1 \in 1 .. Len(s)
  BY <1>1, <1>2
<1> QED
  BY <1>1, <1>2, <1>3, Zenon

\* The instrument obeys.
LEMMA ObeysKeeps ==
  ASSUME CaInv, Obeys
  PROVE  CaInv'
<1> DEFINE c == Head(asked)
           one == Reply310(c, TRUE, 0)
           all == [k \in 1 .. Cardinality(opr) |-> Reply310(c, TRUE, Ordered(opr)[k])]
<1>1. /\ asked # <<>> /\ due = <<>> /\ asked' = Tail(asked)
      /\ opr' = IF c.op = "OPR" THEN c.probes ELSE opr
      /\ mds' = IF c.op = "MDS" THEN c.mode ELSE mds
      /\ due' = IF c.op = "MES" THEN all ELSE <<one>>
      /\ done' = IF c.tag = caCalls THEN done \cup {c.op} ELSE done
      /\ UNCHANGED host /\ UNCHANGED <<quiet, unsure>>
  BY DEF Obeys
<1>2. done \subseteq done'
  BY <1>1
<1>3. /\ UNCHANGED <<caPc, fn, PN, mode, script, PNumberFlag, caFifo, readings, returned, caCalls>>
      /\ Step' = Step /\ Size' = Size /\ Cmd' = Cmd /\ (Reads' <=> Reads) /\ (Choosing' <=> Choosing)
      /\ ScriptInv' /\ ReadingInv' /\ TakenInv' /\ ExactInv'
  BY <1>1, <1>2, HostStays
<1>4. LineInv
  BY DEF CaInv
<1>5. /\ c \in Commands /\ Tail(asked) \in Seq(Commands) /\ c = asked[1] /\ Len(asked) \in Nat
      /\ Len(asked) >= 1 /\ \A k \in 1 .. Len(Tail(asked)) : Tail(asked)[k] = asked[k + 1]
                                                            /\ k + 1 \in 1 .. Len(asked)
  BY <1>1, <1>4, FirstOf DEF LineInv
<1>6. c.op \in Steps /\ c.tag \in Nat /\ c.probes \in SUBSET Probes /\ c.mode \in Modes
  BY <1>5 DEF Commands
<1>7. \A p \in Numbers : Reply310(c, TRUE, p) \in Answers
  BY <1>4, <1>6 DEF Reply310, Answers, LineInv
<1>8. one \in Answers /\ one.op = c.op /\ one.tag = c.tag /\ one.ok = TRUE
  <2>1. 0 \in Numbers
    BY DEF Numbers
  <2> QED
    BY <1>7, <2>1 DEF Reply310
<1>9. /\ Cardinality(opr) \in Nat /\ all \in Seq(Answers) /\ Len(all) = Cardinality(opr)
      /\ \A k \in 1 .. Cardinality(opr) : all[k] = Reply310(c, TRUE, Ordered(opr)[k])
  <2>1. Cardinality(opr) \in Nat
    BY <1>4, ProbeCounts DEF LineInv
  <2>2. \A k \in 1 .. Cardinality(opr) : Ordered(opr)[k] \in Numbers
    <3>1. opr \in SUBSET Probes
      BY <1>4 DEF LineInv
    <3>2. \A k \in 1 .. Cardinality(opr) : k \in Nat
      BY <2>1
    <3> QED
      BY <3>1, <3>2, OrderedNumbers, Zenon
  <2>3. all \in [1 .. Cardinality(opr) -> Answers]
    BY <1>7, <2>2
  <2>4. \A k \in 1 .. Cardinality(opr) : all[k] = Reply310(c, TRUE, Ordered(opr)[k])
    OBVIOUS
  <2> HIDE DEF all
  <2>5. all \in Seq(Answers) /\ Len(all) = Cardinality(opr)
    BY <2>1, <2>3, IsRun310
  <2> QED
    BY <2>1, <2>4, <2>5
<1> HIDE DEF c, one, all
<1>80. PICK a \in Answers : a = one /\ a.op = c.op /\ a.tag = c.tag /\ a.ok = TRUE
  BY <1>8
<1>10. LineInv'
  <2>1. due' \in Seq(Answers)
    <3>1. <<one>> \in Seq(Answers)
      BY <1>8, OneElement
    <3> QED
      BY <1>1, <1>9, <3>1
  <2>2. opr' \in SUBSET Probes /\ mds' \in Modes
    BY <1>1, <1>4, <1>6 DEF LineInv
  <2> QED
    BY <1>1, <1>3, <1>4, <1>5, <2>1, <2>2 DEF LineInv
<1>11. ASSUME asked = <<Cmd>>
       PROVE  asked' = <<>> /\ c = Cmd /\ c.op = Step /\ c.tag = caCalls
              /\ (fn = "get" => c.probes = PN /\ c.mode = mode)
              /\ (fn # "query" => c.mode = mode)
  <2>1. c = Cmd /\ Tail(<<Cmd>>) = <<>>
    BY <1>11, OneElement DEF c
  <2> QED
    BY <1>1, <1>11, <2>1 DEF Cmd
<1>12. OneInv'
  <2>1. ASSUME caPc = "await", quiet, Step \in {"COM", "SET", "OPR", "MDS"}
        PROVE  asked = <<Cmd>> /\ caFifo = <<>>
    BY <1>1, <2>1 DEF CaInv, OneInv
  <2>2. ASSUME caPc = "await", quiet, Step \in {"COM", "SET", "OPR", "MDS"}
        PROVE  asked' = <<>> /\ due' = <<a>> /\ caFifo' = <<>> /\ Says(a)'
    <3>1. /\ asked' = <<>> /\ c.op = Step /\ c.tag = caCalls /\ (fn = "get" => c.probes = PN)
          /\ (fn # "query" => c.mode = mode) /\ caFifo = <<>>
      BY <1>11, <2>1, <2>2
    <3>2. due' = <<a>>
      BY <1>1, <1>80, <2>2, <3>1
    <3>3. Step \in done' /\ (Step = "OPR" /\ fn = "get" => opr' = PN)
          /\ (Step = "MDS" => mds' = mode \/ fn = "query")
      BY <1>1, <3>1
    <3>4. a.op = Step /\ a.tag = caCalls /\ a.ok = TRUE
      BY <1>80, <3>1
    <3> QED
      BY <1>3, <3>1, <3>2, <3>3, <3>4 DEF Says
  <2>3. ASSUME caPc' = "await", quiet', Step' \in {"COM", "SET", "OPR", "MDS"}
        PROVE  asked' = <<>> /\ Says(a)' /\ Alone(a)'
    BY <1>1, <1>3, <2>2, <2>3 DEF Alone
  <2> QED
    BY <2>3, Zenon DEF OneInv
<1>13. ASSUME quiet, (caPc = "await" /\ Step = "MES") \/ (caPc # "idle" /\ Reads)
       PROVE  caPc = "await" /\ Step = "MES" /\ asked = <<Cmd>> /\ caFifo = <<>>
  BY <1>1, <1>13 DEF CaInv, ManyInv
<1>14. SendInv'
  BY <1>1, <1>3 DEF CaInv, SendInv
<1>15. ASSUME ~unsure, ~Choosing
       PROVE  opr' = opr /\ Remembered' /\ \A k \in 1 .. Len(asked') : asked'[k].op # "OPR"
  <2>1. Remembered /\ \A k \in 1 .. Len(asked) : asked[k].op # "OPR"
    BY <1>15 DEF CaInv, FlagInv
  <2>2. 1 \in 1 .. Len(asked)
    BY <1>5
  <2>3. c.op # "OPR"
    BY <1>5, <2>1, <2>2
  <2>4. opr' = opr
    BY <1>1, <2>3
  <2>5. Remembered'
    BY <1>1, <1>3, <2>1, <2>4 DEF Remembered
  <2>6. \A k \in 1 .. Len(asked') : asked'[k].op # "OPR"
    BY <1>1, <1>5, <2>1
  <2> QED
    BY <2>4, <2>5, <2>6
<1>16. FlagInv'
  BY <1>1, <1>3, <1>15 DEF FlagInv
<1>17. ASSUME caPc # "idle"
       PROVE  /\ Size \in Nat /\ Size >= 1 /\ Len(script) \in Nat /\ Len(script) >= 1
              /\ fn = "get" => /\ Step = "OPR" <=> Len(script) = Size + 2
                               /\ Step = "MES" <=> Len(script) = Size
                               /\ Step = "READ" <=> Len(script) < Size
  BY <1>4, <1>17, StepNow DEF CaInv
<1>18. EffectInv'
  <2>1. ASSUME quiet, caPc # "idle", fn = "get", ~unsure, Len(script) <= Size + 1
        PROVE  opr' = PN
    <3>1. opr = PN
      BY <2>1 DEF CaInv, EffectInv
    <3>2. ~Choosing
      BY <1>17, <2>1 DEF Choosing
    <3> QED
      BY <1>15, <2>1, <3>1, <3>2
  <2>2. ASSUME quiet, caPc # "idle", fn = "get", ~unsure, Len(script) <= Size
        PROVE  mds' = mode
    <3>1. mds = mode
      BY <2>2 DEF CaInv, EffectInv
    <3>2. Step = "MES" \/ Reads
      BY <1>17, <2>2 DEF Reads
    <3>3. caPc = "await"
      BY <1>1, <1>4, <2>2, <3>2, <1>13 DEF CaInv, SendInv, LineInv
    <3>4. Step = "MES" /\ asked = <<Cmd>>
      BY <1>13, <2>2, <3>2, <3>3
    <3> QED
      BY <1>1, <1>11, <3>1, <3>4
  <2>3. ASSUME quiet, caPc # "idle", fn = "init"
        PROVE  (Len(script) <= 2 => "COM" \in done') /\ (Len(script) <= 1 => "SET" \in done')
    BY <1>2, <2>3 DEF CaInv, EffectInv
  <2> QED
    BY <1>1, <1>3, <2>1, <2>2, <2>3 DEF EffectInv
<1>19. ManyInv'
  <2>1. ASSUME quiet, caPc = "await", Step = "MES", asked = <<Cmd>>, caFifo = <<>>
        PROVE  /\ asked' = <<>> /\ 1 .. Len(caFifo') = {}
               /\ \A k \in 1 .. Len(due') : due'[k].op = "MES" /\ due'[k].tag = caCalls'
               /\ fn' = "get" /\ ~unsure' => Whole'
    <3>1. asked' = <<>> /\ c.op = "MES" /\ c.tag = caCalls /\ due' = all /\ caFifo' = <<>>
      BY <1>1, <1>3, <1>11, <2>1
    <3>2. ASSUME NEW k \in 1 .. Len(due')
          PROVE  /\ k \in 1 .. Cardinality(opr)
                 /\ due'[k] = [op |-> "MES", ok |-> TRUE, tag |-> caCalls, probe |-> Ordered(opr)[k], mode |-> mds]
      <4>1. k \in 1 .. Cardinality(opr) /\ due'[k] = Reply310(c, TRUE, Ordered(opr)[k])
        BY <1>9, <3>1, <3>2
      <4>2. due'[k] = [op |-> c.op, ok |-> TRUE, tag |-> c.tag, probe |-> Ordered(opr)[k], mode |-> mds]
        BY <4>1, Zenon DEF Reply310
      <4>3. c.op = "MES" /\ c.tag = caCalls
        BY <3>1
      <4> QED
        BY <4>1, <4>2, <4>3, Zenon
    <3>3. ASSUME NEW k \in 1 .. Len(due') PROVE due'[k].op = "MES" /\ due'[k].tag = caCalls'
      <4>1. due'[k] = [op |-> "MES", ok |-> TRUE, tag |-> caCalls, probe |-> Ordered(opr)[k], mode |-> mds]
        BY <3>2
      <4>2. due'[k].op = "MES" /\ due'[k].tag = caCalls
        BY <4>1
      <4>3. caCalls' = caCalls
        BY <1>3
      <4> QED
        BY <4>2, <4>3
    <3>4. Len(caFifo') = 0
      BY <3>1, EmptySeq
    <3>5. ASSUME fn = "get", ~unsure PROVE Whole'
      <4>1. Len(script) = Size /\ Size \in Nat
        BY <1>17, <2>1, <3>5
      <4>2. opr = PN /\ mds = mode /\ readings = <<>>
        <5>1. Len(script) <= Size + 1 /\ Len(script) <= Size /\ Len(script) >= Size
          BY <4>1
        <5> QED
          BY <2>1, <3>5, <5>1 DEF CaInv, EffectInv, ReadingInv
      <4>3. Len(readings') = 0 /\ Len(due') = Size
        BY <1>3, <1>9, <3>1, <4>2, EmptySeq DEF Size
      <4>4. \A k \in 1 .. Len(due') : due'[k] = Reading(k)
        BY <3>2, <4>2 DEF Reading
      <4>5. \A k : Reading(k)' = Reading(k)
        BY <1>3 DEF Reading
      <4>6. \A k \in 1 .. Len(due') : Len(readings') + Len(caFifo') + k = k
        BY <3>4, <4>3
      <4>7. Len(readings') + Len(caFifo') + Len(due') = Size'
        BY <1>3, <3>4, <4>1, <4>3
      <4>8. \A k \in 1 .. Len(due') : due'[k] = Reading(Len(readings) + Len(caFifo) + k)'
        <5>1. \A k \in 1 .. Len(due') : due'[k] = Reading(Len(readings') + Len(caFifo') + k)
          BY <4>4, <4>6
        <5> QED
          BY <1>3, <5>1 DEF Reading
      <4>9. 1 .. Len(readings') = {} /\ 1 .. Len(caFifo') = {}
        BY <3>4, <4>3
      <4> QED
        BY <4>7, <4>8, <4>9 DEF Whole
    <3>6. 1 .. Len(caFifo') = {}
      BY <3>4
    <3> QED
      BY <1>1, <1>3, <3>1, <3>3, <3>5, <3>6
  <2>2. ASSUME quiet', (caPc' = "await" /\ Step' = "MES") \/ (caPc' # "idle" /\ Reads')
        PROVE  /\ asked' = <<>> /\ 1 .. Len(caFifo') = {}
               /\ \A k \in 1 .. Len(due') : due'[k].op = "MES" /\ due'[k].tag = caCalls'
               /\ fn' = "get" /\ ~unsure' => Whole'
    BY <1>1, <1>3, <1>13, <2>1, <2>2
  <2> QED
    BY <2>2 DEF ManyInv, Measured
<1> QED
  BY <1>3, <1>10, <1>12, <1>14, <1>16, <1>18, <1>19 DEF CaInv

\* An answer arrives.
LEMMA AnswersKeeps ==
  ASSUME CaInv, Answers310
  PROVE  CaInv'
<1> DEFINE b == Head(due)
<1>1. /\ due # <<>> /\ caFifo' = Append(caFifo, b) /\ due' = Tail(due)
      /\ UNCHANGED <<caPc, fn, PN, mode, script, PNumberFlag, readings, returned, caCalls,
                     asked, opr, mds, done, quiet, unsure>>
  BY DEF Answers310
<1>2. /\ Step' = Step /\ Size' = Size /\ Cmd' = Cmd /\ (Reads' <=> Reads) /\ (Choosing' <=> Choosing)
      /\ (Remembered' <=> Remembered)
  BY <1>1 DEF Step, Size, Cmd, Reads, Choosing, Remembered
<1>3. LineInv
  BY DEF CaInv
<1>4. /\ b \in Answers /\ Tail(due) \in Seq(Answers) /\ Len(due) \in Nat /\ Len(due) >= 1
      /\ b = due[1] /\ Len(Tail(due)) = Len(due) - 1
      /\ \A k \in 1 .. Len(Tail(due)) : Tail(due)[k] = due[k + 1] /\ k + 1 \in 1 .. Len(due)
  BY <1>1, <1>3, FirstOf DEF LineInv
<1>5. /\ caFifo' \in Seq(Answers) /\ Len(caFifo') = Len(caFifo) + 1 /\ Len(caFifo) \in Nat
      /\ caFifo'[Len(caFifo) + 1] = b /\ \A k \in 1 .. Len(caFifo) : caFifo'[k] = caFifo[k]
  <2>1. caFifo \in Seq(Answers)
    BY <1>3 DEF LineInv
  <2> HIDE DEF b
  <2> QED
    BY <1>1, <1>4, <2>1, AppendProperties, NotEmpty
<1> HIDE DEF b
<1>6. LineInv'
  BY <1>1, <1>3, <1>4, <1>5 DEF LineInv
<1>7. ScriptInv' /\ ReadingInv' /\ TakenInv' /\ EffectInv' /\ FlagInv'
  <2>1. ScriptInv' /\ ReadingInv'
    BY <1>1, <1>2 DEF CaInv, ScriptInv, ReadingInv
  <2>2. TakenInv'
    BY <1>1 DEF CaInv, TakenInv, Measured
  <2>3. EffectInv'
    BY <1>1, <1>2 DEF CaInv, EffectInv
  <2>4. FlagInv'
    BY <1>1, <1>2 DEF CaInv, FlagInv
  <2> QED
    BY <2>1, <2>2, <2>3, <2>4
<1>8. ExactInv'
  <2>1. GetExact' <=> GetExact
    BY <1>1, Zenon DEF GetExact, Reading
  <2>2. DoneExact' <=> DoneExact
    BY <1>1 DEF DoneExact, Measured
  <2>3. Succeeded' <=> Succeeded
    BY <1>1 DEF Succeeded
  <2> QED
    BY <2>1, <2>2, <2>3 DEF CaInv, ExactInv
<1>9. OneInv'
  <2>1. ASSUME caPc = "await", quiet, Step \in {"COM", "SET", "OPR", "MDS"}
        PROVE  \E a \in Answers : asked = <<>> /\ Says(a) /\ due = <<a>> /\ caFifo = <<>>
    BY <1>1, <2>1 DEF CaInv, OneInv, Alone
  <2>2. ASSUME NEW a \in Answers, due = <<a>>, caFifo = <<>>
        PROVE  due' = <<>> /\ caFifo' = <<a>>
    <3>1. Head(<<a>>) = a /\ Tail(<<a>>) = <<>> /\ Append(<<>>, a) = <<a>>
      BY OneElement
    <3> QED
      BY <1>1, <2>2, <3>1 DEF b
  <2>3. \A a : Says(a) => Says(a)'
    BY <1>1, <1>2 DEF Says
  <2>4. ASSUME caPc' = "await", quiet', Step' \in {"COM", "SET", "OPR", "MDS"}
        PROVE  asked' = <<>> /\ \E a \in Answers : Says(a)' /\ Alone(a)'
    <3>1. PICK a \in Answers : asked = <<>> /\ Says(a) /\ due = <<a>> /\ caFifo = <<>>
      BY <1>1, <1>2, <2>1, <2>4
    <3> QED
      BY <1>1, <2>2, <2>3, <3>1 DEF Alone
  <2> QED
    BY <2>4, Zenon DEF OneInv
<1>10. SendInv'
  BY <1>1, <1>2 DEF CaInv, SendInv
<1>11. ManyInv'
  <2>1. ASSUME quiet, (caPc = "await" /\ Step = "MES") \/ (caPc # "idle" /\ Reads)
        PROVE  /\ asked = <<>>
               /\ \A k \in 1 .. Len(caFifo) : Measured(caFifo[k])
               /\ \A k \in 1 .. Len(due) : Measured(due[k])
               /\ fn = "get" /\ ~unsure => Whole \/ Short \/ Refused
    BY <1>1, <2>1 DEF CaInv, ManyInv
  <2>2. ASSUME \A k \in 1 .. Len(caFifo) : Measured(caFifo[k]), \A k \in 1 .. Len(due) : Measured(due[k])
        PROVE  /\ \A k \in 1 .. Len(caFifo') : Measured(caFifo'[k])
               /\ \A k \in 1 .. Len(due') : Measured(due'[k])
    <3>1. 1 \in 1 .. Len(due)
      BY <1>4
    <3>2. Measured(b)
      BY <1>4, <2>2, <3>1
    <3>3. ASSUME NEW k \in 1 .. Len(caFifo') PROVE Measured(caFifo'[k])
      <4>1. k \in 1 .. Len(caFifo) \/ k = Len(caFifo) + 1
        BY <1>5
      <4> QED
        BY <1>5, <2>2, <3>2, <4>1
    <3>4. ASSUME NEW k \in 1 .. Len(due') PROVE Measured(due'[k])
      BY <1>1, <1>4, <2>2
    <3> QED
      BY <3>3, <3>4
  <2>3. Len(readings) \in Nat /\ Len(readings') = Len(readings) /\ Size' = Size
        /\ Len(due') = Len(due) - 1
    BY <1>1, <1>2, <1>3, <1>4, NotEmpty DEF LineInv
  <2>4. ASSUME Whole PROVE Whole'
    <3>1. /\ Len(readings) + Len(caFifo) + Len(due) = Size
          /\ \A k \in 1 .. Len(readings) : readings[k] = Reading(k)
          /\ \A k \in 1 .. Len(caFifo) : caFifo[k] = Reading(Len(readings) + k)
          /\ \A k \in 1 .. Len(due) : due[k] = Reading(Len(readings) + Len(caFifo) + k)
      BY <2>4 DEF Whole
    <3>2. Len(readings) + (Len(caFifo) + 1) + (Len(due) - 1) = Size
      BY <1>4, <1>5, <2>3, <3>1
    <3>3. ASSUME NEW k \in 1 .. Len(caFifo) + 1 PROVE caFifo'[k] = Reading(Len(readings) + k)
      <4>1. CASE k \in 1 .. Len(caFifo)
        BY <1>5, <3>1, <4>1
      <4>2. CASE k = Len(caFifo) + 1
        <5>1. 1 \in 1 .. Len(due) /\ Len(readings) + Len(caFifo) + 1 = Len(readings) + k
          BY <1>4, <1>5, <2>3, <4>2
        <5>2. caFifo'[k] = b /\ b = due[1]
          BY <1>4, <1>5, <4>2
        <5> QED
          BY <3>1, <5>1, <5>2
      <4> QED
        BY <1>5, <4>1, <4>2
    <3>4. ASSUME NEW k \in 1 .. Len(due) - 1
          PROVE  due'[k] = Reading(Len(readings) + (Len(caFifo) + 1) + k)
      <4>1. k + 1 \in 1 .. Len(due)
            /\ Len(readings) + Len(caFifo) + (k + 1) = Len(readings) + (Len(caFifo) + 1) + k
        BY <1>4, <1>5, <2>3
      <4>2. due'[k] = due[k + 1]
        BY <1>1, <1>4
      <4> QED
        BY <3>1, <4>1, <4>2
    <3>5. \A k : [op |-> "MES", ok |-> TRUE, tag |-> caCalls', probe |-> Ordered(PN')[k], mode |-> mode'] = Reading(k)
      BY <1>1 DEF Reading
    <3>6. /\ \A k \in 1 .. Len(readings') : readings'[k] = Reading(k)
          /\ \A k \in 1 .. Len(caFifo') : caFifo'[k] = Reading(Len(readings') + k)
          /\ \A k \in 1 .. Len(due') : due'[k] = Reading(Len(readings') + Len(caFifo') + k)
      BY <1>1, <1>5, <2>3, <3>1, <3>3, <3>4
    <3>7. Len(readings') + Len(caFifo') + Len(due') = Size'
      BY <1>5, <2>3, <3>2
    <3> HIDE DEF Reading
    <3>8. /\ \A k \in 1 .. Len(readings') : readings'[k] = Reading(k)'
          /\ \A k \in 1 .. Len(caFifo') : caFifo'[k] = Reading(Len(readings) + k)'
          /\ \A k \in 1 .. Len(due') : due'[k] = Reading(Len(readings) + Len(caFifo) + k)'
      BY <3>5, <3>6, Zenon DEF Reading
    <3> QED
      BY <3>7, <3>8 DEF Whole
  <2>5. Short => Short'
    BY <1>4, <1>5, <2>3 DEF Short
  <2>6. ASSUME Refused PROVE Refused'
    <3>1. 1 \in 1 .. Len(due)
      BY <1>4
    <3>2. ~b.ok
      BY <1>4, <2>6, <3>1 DEF Refused
    <3>3. ASSUME NEW k \in 1 .. Len(caFifo') PROVE ~caFifo'[k].ok
      <4>1. k \in 1 .. Len(caFifo) \/ k = Len(caFifo) + 1
        BY <1>5
      <4> QED
        BY <1>5, <2>6, <3>2, <4>1 DEF Refused
    <3>4. ASSUME NEW k \in 1 .. Len(due') PROVE ~due'[k].ok
      BY <1>1, <1>4, <2>6 DEF Refused
    <3> QED
      BY <3>3, <3>4 DEF Refused
  <2>7. ASSUME quiet', (caPc' = "await" /\ Step' = "MES") \/ (caPc' # "idle" /\ Reads')
        PROVE  /\ asked' = <<>>
               /\ \A k \in 1 .. Len(caFifo') : Measured(caFifo'[k])
               /\ \A k \in 1 .. Len(due') : Measured(due'[k])
               /\ fn' = "get" /\ ~unsure' => Whole' \/ Short' \/ Refused'
    BY <1>1, <1>2, <2>1, <2>2, <2>4, <2>5, <2>6, <2>7
  <2> QED
    BY <1>1, <2>7 DEF ManyInv, Measured
<1> QED
  BY <1>6, <1>7, <1>8, <1>9, <1>10, <1>11 DEF CaInv

\* A command is refused.
LEMMA RefusesKeeps ==
  ASSUME CaInv, Refuses, UNCHANGED host, UNCHANGED done
  PROVE  CaInv'
<1> DEFINE c == Head(asked)
<1>1. /\ asked # <<>> /\ due = <<>> /\ asked' = Tail(asked)
      /\ due' = <<Reply310(c, FALSE, 0)>>
      /\ UNCHANGED <<opr, mds, quiet, unsure, done>>
  BY DEF Refuses
<1>2. /\ UNCHANGED <<caPc, fn, PN, mode, script, PNumberFlag, caFifo, readings, returned, caCalls>>
      /\ Step' = Step /\ Size' = Size /\ Cmd' = Cmd /\ (Reads' <=> Reads) /\ (Choosing' <=> Choosing)
      /\ ScriptInv' /\ ReadingInv' /\ TakenInv' /\ ExactInv'
  <2>1. quiet' = quiet /\ unsure' = unsure /\ done \subseteq done'
    BY <1>1
  <2> QED
    BY <2>1, HostStays
<1>3. LineInv
  BY DEF CaInv
<1>4. /\ c \in Commands /\ Tail(asked) \in Seq(Commands) /\ Len(asked) \in Nat /\ Len(asked) >= 1
      /\ \A k \in 1 .. Len(Tail(asked)) : Tail(asked)[k] = asked[k + 1]
                                         /\ k + 1 \in 1 .. Len(asked)
  BY <1>1, <1>3, FirstOf DEF LineInv
<1>5. PICK a \in Answers : a = Reply310(c, FALSE, 0) /\ a.op = c.op /\ a.tag = c.tag /\ a.ok = FALSE
  <2>1. c.op \in Steps /\ c.tag \in Nat /\ 0 \in Numbers /\ mds \in Modes
    BY <1>3, <1>4 DEF Commands, Numbers, LineInv
  <2> HIDE DEF c
  <2>2. Reply310(c, FALSE, 0) \in Answers
    BY <2>1 DEF Reply310, Answers
  <2>3. Reply310(c, FALSE, 0).op = c.op /\ Reply310(c, FALSE, 0).tag = c.tag
        /\ Reply310(c, FALSE, 0).ok = FALSE
    BY DEF Reply310
  <2> QED
    BY <2>2, <2>3
<1>6. due' = <<a>> /\ due' \in Seq(Answers) /\ Len(due') = 1 /\ due'[1] = a
  <2>1. due' = <<a>>
    BY <1>1, <1>5, Zenon
  <2> QED
    BY <2>1, OneElement
<1>7. ASSUME asked = <<Cmd>> PROVE asked' = <<>> /\ a.op = Step /\ a.tag = caCalls
  <2>1. c = Cmd /\ Tail(<<Cmd>>) = <<>>
    BY <1>7, OneElement
  <2>2. Cmd.op = Step /\ Cmd.tag = caCalls
    BY DEF Cmd
  <2> QED
    BY <1>1, <1>5, <1>7, <2>1, <2>2, Zenon
<1> HIDE DEF c
<1>8. LineInv'
  BY <1>1, <1>2, <1>3, <1>4, <1>6 DEF LineInv
<1>9. Remembered' <=> Remembered
  BY <1>1, <1>2 DEF Remembered
<1>10. OneInv'
  <2>1. ASSUME caPc = "await", quiet, Step \in {"COM", "SET", "OPR", "MDS"}
        PROVE  asked = <<Cmd>> /\ caFifo = <<>> /\ (Step = "OPR" /\ fn = "get" => Remembered)
    BY <1>1, <2>1 DEF CaInv, OneInv
  <2>2. ASSUME caPc' = "await", quiet', Step' \in {"COM", "SET", "OPR", "MDS"}
        PROVE  asked' = <<>> /\ Says(a)' /\ Alone(a)'
    <3>1. asked = <<Cmd>> /\ caFifo = <<>> /\ (Step = "OPR" /\ fn = "get" => Remembered)
      BY <1>1, <1>2, <2>1, <2>2
    <3>2. asked' = <<>> /\ a.op = Step' /\ a.tag = caCalls' /\ a.ok = FALSE
      BY <1>2, <1>5, <1>7, <3>1
    <3>3. Says(a)'
      BY <1>2, <1>9, <3>1, <3>2 DEF Says
    <3> QED
      BY <1>2, <1>6, <3>1, <3>2, <3>3 DEF Alone
  <2> QED
    BY <2>2, Zenon DEF OneInv
<1>11. ManyInv'
  <2>1. ASSUME quiet', (caPc' = "await" /\ Step' = "MES") \/ (caPc' # "idle" /\ Reads')
        PROVE  asked = <<Cmd>> /\ caFifo = <<>> /\ Step = "MES"
    BY <1>1, <1>2, <2>1 DEF CaInv, ManyInv
  <2>2. ASSUME asked = <<Cmd>>, caFifo = <<>>, Step = "MES"
        PROVE  /\ asked' = <<>> /\ 1 .. Len(caFifo') = {}
               /\ \A k \in 1 .. Len(due') : due'[k].op = "MES" /\ due'[k].tag = caCalls' /\ ~due'[k].ok
    <3>1. asked' = <<>> /\ a.op = "MES" /\ a.tag = caCalls /\ a.ok = FALSE
      BY <1>5, <1>7, <2>2
    <3>2. 1 .. Len(caFifo') = {}
      BY <1>2, <2>2, EmptySeq
    <3>3. \A k \in 1 .. Len(due') : due'[k] = a
      BY <1>6
    <3> QED
      BY <1>2, <3>1, <3>2, <3>3
  <2> QED
    BY <2>1, <2>2 DEF ManyInv, Measured, Refused
<1>12. SendInv'
  BY <1>1, <1>2 DEF CaInv, SendInv
<1>13. EffectInv'
  BY <1>1, <1>2 DEF CaInv, EffectInv
<1>14. FlagInv'
  BY <1>1, <1>2, <1>4, <1>9 DEF CaInv, FlagInv
<1> QED
  BY <1>2, <1>8, <1>10, <1>11, <1>12, <1>13, <1>14 DEF CaInv

\* A command or an answer is lost.
LEMMA LosesKeeps ==
  ASSUME CaInv, Loses, UNCHANGED host, UNCHANGED done
  PROVE  CaInv'
<1>1. UNCHANGED <<opr, mds, quiet, unsure, done>>
  BY DEF Loses
<1>2. /\ UNCHANGED <<caPc, fn, PN, mode, script, PNumberFlag, caFifo, readings, returned, caCalls>>
      /\ Step' = Step /\ Size' = Size /\ Cmd' = Cmd /\ (Reads' <=> Reads) /\ (Choosing' <=> Choosing)
      /\ ScriptInv' /\ ReadingInv' /\ TakenInv' /\ ExactInv'
  <2>1. quiet' = quiet /\ unsure' = unsure /\ done \subseteq done'
    BY <1>1
  <2> QED
    BY <2>1, HostStays
<1>3. LineInv
  BY DEF CaInv
<1>4. Remembered' <=> Remembered
  BY <1>1, <1>2 DEF Remembered
<1>5. EffectInv'
  BY <1>1, <1>2 DEF CaInv, EffectInv
<1>6. Size \in Nat /\ Size >= 1 /\ Len(readings) \in Nat /\ Len(caFifo) \in Nat
  BY <1>3, ProbeCounts, NotEmpty DEF LineInv, Size
<1>7. ASSUME asked # <<>>, asked' = Tail(asked), due' = due PROVE CaInv'
  <2>1. /\ Tail(asked) \in Seq(Commands) /\ Len(asked) \in Nat
        /\ \A k \in 1 .. Len(Tail(asked)) : Tail(asked)[k] = asked[k + 1]
                                           /\ k + 1 \in 1 .. Len(asked)
    BY <1>3, <1>7, FirstOf DEF LineInv
  <2>2. LineInv'
    BY <1>1, <1>2, <1>3, <1>7, <2>1 DEF LineInv
  <2>3. asked = <<Cmd>> => asked' = <<>>
    BY <1>7, OneElement
  <2>4. OneInv'
    BY <1>1, <1>2, <1>7, <2>3 DEF CaInv, OneInv
  <2>5. ManyInv'
    <3>1. ASSUME quiet', (caPc' = "await" /\ Step' = "MES") \/ (caPc' # "idle" /\ Reads')
          PROVE  caPc = "await" /\ Step = "MES" /\ asked' = <<>> /\ due' = <<>> /\ caFifo' = <<>>
      BY <1>1, <1>2, <1>7, <2>3, <3>1 DEF CaInv, ManyInv
    <3>2. Len(<<>>) = 0 /\ 1 .. 0 = {}
      BY EmptySeq
    <3>3. ASSUME caPc = "await", Step = "MES", due' = <<>>, caFifo' = <<>>, fn = "get" PROVE Short'
      <4>1. Len(script) = Size
        BY <1>3, <3>3, StepNow DEF CaInv
      <4>2. readings = <<>>
        BY <1>6, <3>3, <4>1 DEF CaInv, ReadingInv
      <4>3. Len(readings') = 0 /\ Len(caFifo') = 0 /\ Len(due') = 0 /\ Size' = Size
        BY <1>2, <3>2, <3>3, <4>2
      <4> QED
        BY <1>6, <4>3 DEF Short
    <3> QED
      BY <1>2, <3>1, <3>2, <3>3 DEF ManyInv
  <2>6. SendInv'
    BY <1>1, <1>2, <1>7 DEF CaInv, SendInv
  <2>7. FlagInv'
    BY <1>1, <1>2, <1>4, <1>7, <2>1 DEF CaInv, FlagInv
  <2> QED
    BY <1>2, <1>5, <2>2, <2>4, <2>5, <2>6, <2>7 DEF CaInv
<1>8. ASSUME due # <<>>, due' = Tail(due), asked' = asked PROVE CaInv'
  <2>1. /\ Tail(due) \in Seq(Answers) /\ Len(due) \in Nat /\ Len(Tail(due)) = Len(due) - 1
        /\ \A k \in 1 .. Len(Tail(due)) : Tail(due)[k] = due[k + 1] /\ k + 1 \in 1 .. Len(due)
    BY <1>3, <1>8, FirstOf DEF LineInv
  <2>2. LineInv'
    BY <1>1, <1>2, <1>3, <1>8, <2>1 DEF LineInv
  <2>3. \A a \in Answers : due = <<a>> => due' = <<>>
    BY <1>8, OneElement
  <2>4. OneInv'
    <3>1. ASSUME caPc' = "await", quiet', Step' \in {"COM", "SET", "OPR", "MDS"}
          PROVE  asked' = <<>> /\ due' = <<>> /\ caFifo' = <<>>
      BY <1>1, <1>2, <1>8, <2>3, <3>1 DEF CaInv, OneInv, Alone
    <3> QED
      BY <3>1, Zenon DEF OneInv
  <2>5. ManyInv'
    <3>1. ASSUME quiet', (caPc' = "await" /\ Step' = "MES") \/ (caPc' # "idle" /\ Reads')
          PROVE  /\ asked = <<>>
                 /\ \A k \in 1 .. Len(caFifo) : Measured(caFifo[k])
                 /\ \A k \in 1 .. Len(due) : Measured(due[k])
                 /\ fn = "get" /\ ~unsure => Whole \/ Short \/ Refused
      BY <1>1, <1>2, <1>8, <3>1 DEF CaInv, ManyInv
    <3>2. Whole \/ Short => Short'
      <4>1. Len(readings') = Len(readings) /\ Len(caFifo') = Len(caFifo) /\ Len(due') = Len(due) - 1
            /\ Size' = Size
        BY <1>2, <1>8, <2>1
      <4>2. Whole \/ Short => Len(readings) + Len(caFifo) + Len(due) <= Size
        BY <1>6, <2>1 DEF Whole, Short
      <4> QED
        BY <1>6, <2>1, <4>1, <4>2 DEF Short
    <3>3. Refused => Refused'
      BY <1>2, <1>8, <2>1 DEF Refused
    <3>4. ASSUME \A k \in 1 .. Len(due) : Measured(due[k])
          PROVE  \A k \in 1 .. Len(due') : Measured(due'[k])
      BY <1>8, <2>1, <3>4
    <3>5. ASSUME quiet', (caPc' = "await" /\ Step' = "MES") \/ (caPc' # "idle" /\ Reads')
          PROVE  /\ asked' = <<>>
                 /\ \A k \in 1 .. Len(caFifo') : Measured(caFifo'[k])
                 /\ \A k \in 1 .. Len(due') : Measured(due'[k])
                 /\ fn' = "get" /\ ~unsure' => Whole' \/ Short' \/ Refused'
      BY <1>1, <1>2, <1>8, <3>1, <3>2, <3>3, <3>4, <3>5
    <3> QED
      BY <1>2, <3>5 DEF ManyInv, Measured
  <2>6. SendInv'
    BY <1>1, <1>2, <1>8 DEF CaInv, SendInv
  <2>7. FlagInv'
    BY <1>1, <1>2, <1>4, <1>8 DEF CaInv, FlagInv
  <2> QED
    BY <1>2, <1>5, <2>2, <2>4, <2>5, <2>6, <2>7 DEF CaInv
<1> QED
  BY <1>7, <1>8 DEF Loses

\* It is switched off and on: nothing is known any more.
LEMMA RestartsKeeps ==
  ASSUME CaInv, Restarts, UNCHANGED host, UNCHANGED done
  PROVE  CaInv'
<1>1. UNCHANGED <<caPc, fn, PN, mode, script, PNumberFlag, caFifo, readings, returned, caCalls>>
  BY DEF host
<1>2. asked' = <<>> /\ due' = <<>> /\ opr' = {1} /\ mds' = 0 /\ unsure' = TRUE /\ quiet' = FALSE
  BY DEF Restarts
<1>3. LineInv
  BY DEF CaInv
<1>4. LineInv'
  <2>1. asked' \in Seq(Commands) /\ due' \in Seq(Answers)
    BY <1>2
  <2>2. opr' \in SUBSET Probes /\ mds' \in Modes
    BY <1>2, CaAssumption DEF Modes
  <2> QED
    BY <1>1, <1>2, <1>3, <2>1, <2>2 DEF LineInv
<1>5. ScriptInv' /\ ReadingInv'
  <2>1. Size' = Size
    BY <1>1 DEF Size
  <2> QED
    BY <1>1, <2>1 DEF CaInv, ScriptInv, ReadingInv
<1>6. OneInv' /\ ManyInv' /\ TakenInv' /\ SendInv' /\ EffectInv'
  BY <1>2 DEF OneInv, ManyInv, TakenInv, SendInv, EffectInv
<1>7. FlagInv' /\ ExactInv'
  BY <1>2 DEF FlagInv, ExactInv, Succeeded
<1> QED
  BY <1>4, <1>5, <1>6, <1>7 DEF CaInv

\* The time is up.
LEMMA TimesOutKeeps ==
  ASSUME CaInv, TimesOut
  PROVE  CaInv'
<1>1. /\ caPc = "await" /\ caFifo = <<>>
      /\ due' = due \/ (due # <<>> /\ due' = <<Cut>> \o Tail(due))
      /\ unsure' = (unsure \/ Step = "OPR")
      /\ UNCHANGED <<fn, PN, mode, PNumberFlag, caFifo, readings, caCalls, asked, opr, mds, done, quiet>>
  BY DEF TimesOut, Expires
<1>2. /\ script' = script
      /\ \/ caPc' = "send" /\ Step = "COM"
         \/ caPc' = "idle" /\ returned' = IF Step = "READS" THEN "ok" ELSE "failed"
  BY DEF TimesOut, Fails, Again, Return310
<1>3. LineInv /\ script # <<>>
  BY <1>1 DEF CaInv, LineInv
<1>4. Step' = Step /\ Size' = Size /\ ~Choosing' /\ (Reads' <=> Reads)
  BY <1>1, <1>2 DEF Step, Size, Choosing, Reads
<1>5. due' \in Seq(Answers)
  <2>1. Cut \in Answers
    <3>1. "cut" \in Steps /\ 0 \in Numbers /\ 0 \in Modes
      BY DEF Steps, Numbers, Modes
    <3> QED
      BY <3>1 DEF Cut, Answers
  <2>2. due # <<>> => <<Cut>> \in Seq(Answers) /\ Tail(due) \in Seq(Answers)
    BY <1>3, <2>1, FirstOf, OneElement DEF LineInv
  <2>3. due # <<>> => <<Cut>> \o Tail(due) \in Seq(Answers)
    BY <2>2, ConcatProperties, Zenon
  <2> QED
    BY <1>1, <1>3, <2>3 DEF LineInv
<1>6. LineInv'
  <2>1. unsure' \in BOOLEAN
    BY <1>1
  <2> QED
    BY <1>1, <1>2, <1>3, <1>5, <2>1 DEF LineInv
<1>7. ScriptInv' /\ ReadingInv'
  BY <1>1, <1>2, <1>4 DEF CaInv, ScriptInv, ReadingInv
<1>8. OneInv' /\ ManyInv' /\ SendInv'
  BY <1>2, <1>4 DEF OneInv, ManyInv, SendInv, Reads
<1>9. TakenInv'
  BY <1>1, <1>2 DEF CaInv, TakenInv, Measured
<1>10. EffectInv'
  BY <1>1, <1>2, <1>4 DEF CaInv, EffectInv
<1>11. FlagInv'
  <2>1. ASSUME ~unsure' PROVE ~unsure /\ ~Choosing
    BY <1>1, <2>1 DEF Choosing
  <2>2. ASSUME ~unsure' PROVE Remembered' /\ \A k \in 1 .. Len(asked) : asked[k].op # "OPR"
    BY <1>1, <2>1, <2>2 DEF CaInv, FlagInv, Remembered
  <2> QED
    BY <1>1, <2>2 DEF FlagInv
<1>12. ExactInv'
  <2>1. ASSUME Succeeded' PROVE quiet /\ fn = "query"
    <3>1. quiet /\ Step = "READS"
      BY <1>1, <1>2, <2>1 DEF Succeeded
    <3>2. fn \in Functions
      BY <1>3 DEF LineInv
    <3> QED
      BY <1>1, <1>3, <3>1, <3>2, StepNow DEF CaInv, Functions
  <2>2. ASSUME Succeeded' PROVE GetExact' /\ DoneExact'
    <3>1. \A k \in 1 .. Len(readings) : Measured(readings[k])
      BY <1>1, <2>1, <2>2 DEF CaInv, TakenInv
    <3>2. fn' = "query"
      BY <1>1, <2>1, <2>2
    <3>3. GetExact'
      BY <3>2 DEF GetExact
    <3>4. DoneExact'
      BY <1>1, <3>1, <3>2 DEF DoneExact, Measured
    <3> QED
      BY <3>3, <3>4
  <2> QED
    BY <2>2 DEF ExactInv
<1> QED
  BY <1>6, <1>7, <1>8, <1>9, <1>10, <1>11, <1>12 DEF CaInv

\* What a complete line leads to: the next step, another try, the next reading or the
\* end of the call.
GoesOn == script' = Tail(script) /\ Len(script) # 1 /\ Step # "READS" /\ caPc' = "send"
TriesAgain == script' = script /\ Step = "COM" /\ caPc' = "send"
ReadsOn == script' = script /\ Step = "READS" /\ caPc' = "await"
HasEnded == script' = script /\ caPc' = "idle"
EndsWell(a) == IF a.ok THEN Len(script) = 1 /\ Step # "READS" ELSE Step = "READS"

Heard(a) ==
  /\ caPc = "await" /\ caFifo # <<>> /\ a = Head(caFifo) /\ a = caFifo[1]
  /\ a.ok \in BOOLEAN /\ caFifo' = Tail(caFifo) /\ PNumberFlag' = Chosen(a)
  /\ unsure' = IF Step = "OPR" /\ fn = "get"
               THEN ~quiet \/ a.op # "OPR" \/ (~a.ok /\ unsure) ELSE unsure
  /\ readings' = IF a.ok /\ Step \in {"MES", "READ", "READS"}
                 THEN Append(readings, a) ELSE readings
  /\ UNCHANGED <<fn, PN, mode, caCalls, asked, due, opr, mds, done, quiet>>
  /\ \/ a.ok /\ GoesOn
     \/ ~a.ok /\ TriesAgain
     \/ a.ok /\ ReadsOn
     \/ HasEnded /\ (returned' = "ok" => EndsWell(a))

\* Each of the ways a line can end in the code is one of these.
LEMMA AfterHearing == LineInv /\ Hears => \E a \in Answers : Heard(a)
<1> SUFFICES ASSUME LineInv, Hears PROVE \E a \in Answers : Heard(a)
  OBVIOUS
<1> DEFINE a == Head(caFifo)
<1>1. /\ caPc = "await" /\ caFifo # <<>> /\ caFifo' = Tail(caFifo) /\ PNumberFlag' = Chosen(a)
      /\ unsure' = IF Step = "OPR" /\ fn = "get"
                   THEN ~quiet \/ a.op # "OPR" \/ (~a.ok /\ unsure) ELSE unsure
      /\ readings' = IF a.ok /\ Step \in {"MES", "READ", "READS"}
                     THEN Append(readings, a) ELSE readings
  BY DEF Hears
<1>2. UNCHANGED <<fn, PN, mode, caCalls, asked, due, opr, mds, done, quiet>>
  BY DEF Hears, instrument
<1>3. a \in Answers /\ a = caFifo[1]
  BY <1>1, FirstOf DEF LineInv
<1>4. a.ok \in BOOLEAN
  BY <1>3 DEF Answers
<1>5. IF a.ok
      THEN \/ Succeeds
           \/ fn = "query" /\ Step \in {"MES", "READS"} /\ a.op # "MES" /\ Return310("failed")
      ELSE Fails
  BY DEF Hears
<1> HIDE DEF a
<1>6. ASSUME a.ok, Succeeds
      PROVE  GoesOn \/ ReadsOn \/ (HasEnded /\ (returned' = "ok" => EndsWell(a)))
  BY <1>1, <1>6 DEF Succeeds, Return310, GoesOn, ReadsOn, HasEnded, EndsWell
<1>7. ASSUME Return310("failed") PROVE HasEnded /\ (returned' = "ok" => EndsWell(a))
  BY <1>7 DEF Return310, HasEnded
<1>8. ASSUME ~a.ok, Fails PROVE TriesAgain \/ (HasEnded /\ (returned' = "ok" => EndsWell(a)))
  BY <1>1, <1>8 DEF Fails, Again, Return310, TriesAgain, HasEnded, EndsWell
<1>9. \/ a.ok /\ GoesOn
      \/ ~a.ok /\ TriesAgain
      \/ a.ok /\ ReadsOn
      \/ HasEnded /\ (returned' = "ok" => EndsWell(a))
  BY <1>5, <1>6, <1>7, <1>8
<1>10. PICK e \in Answers : e = a
  BY <1>3
<1> QED
  BY <1>1, <1>2, <1>3, <1>4, <1>9, <1>10 DEF a, Heard

\* What the host hears when the line was quiet.
LEMMA HeardIsMine ==
  ASSUME CaInv, caPc = "await", caFifo # <<>>, quiet, NEW a \in Answers, a = Head(caFifo)
  PROVE  /\ Step \in {"COM", "SET", "OPR", "MDS"} =>
              asked = <<>> /\ due = <<>> /\ Tail(caFifo) = <<>> /\ Says(a)
         /\ Step = "MES" \/ Reads =>
              /\ asked = <<>>
              /\ \A k \in 1 .. Len(caFifo) : Measured(caFifo[k])
              /\ \A k \in 1 .. Len(due) : Measured(due[k])
              /\ fn = "get" /\ ~unsure => Whole \/ Short \/ Refused
<1>1. ASSUME Step \in {"COM", "SET", "OPR", "MDS"}
      PROVE  asked = <<>> /\ due = <<>> /\ Tail(caFifo) = <<>> /\ Says(a)
  <2>1. PICK e \in Answers : asked = <<>> /\ Says(e) /\ due = <<>> /\ caFifo = <<e>>
    BY <1>1 DEF CaInv, OneInv, Alone
  <2>2. Head(<<e>>) = e /\ Tail(<<e>>) = <<>>
    BY OneElement
  <2>3. e = a
    BY <2>1, <2>2
  <2> QED
    BY <2>1, <2>2, <2>3
<1>2. ASSUME Step = "MES" \/ Reads
      PROVE  /\ asked = <<>>
             /\ \A k \in 1 .. Len(caFifo) : Measured(caFifo[k])
             /\ \A k \in 1 .. Len(due) : Measured(due[k])
             /\ fn = "get" /\ ~unsure => Whole \/ Short \/ Refused
  BY <1>2 DEF CaInv, ManyInv
<1> QED
  BY <1>1, <1>2

\* A reading that is taken goes from the one sequence to the other.
LEMMA ReadingTaken ==
  ASSUME LineInv, caFifo # <<>>, NEW a \in Answers, a = caFifo[1], caFifo' = Tail(caFifo),
         readings' = Append(readings, a), UNCHANGED <<due, PN, mode, caCalls>>
  PROVE  /\ Len(readings) \in Nat /\ Len(readings') = Len(readings) + 1
         /\ Len(caFifo) \in Nat /\ Len(caFifo) >= 1 /\ Len(caFifo') = Len(caFifo) - 1
         /\ readings' \in Seq(Answers) /\ readings'[Len(readings) + 1] = a
         /\ \A k \in 1 .. Len(readings) : readings'[k] = readings[k]
         /\ Whole => Whole' /\ a = Reading(Len(readings) + 1)
         /\ Short => Short'
<1>1. readings \in Seq(Answers) /\ caFifo \in Seq(Answers) /\ due \in Seq(Answers)
  BY DEF LineInv
<1>2. /\ Len(readings) \in Nat /\ Len(readings') = Len(readings) + 1
      /\ readings' \in Seq(Answers) /\ readings'[Len(readings) + 1] = a
      /\ \A k \in 1 .. Len(readings) : readings'[k] = readings[k]
  BY <1>1, AppendProperties, NotEmpty
<1>3. /\ Len(caFifo) \in Nat /\ Len(caFifo) >= 1 /\ Len(caFifo') = Len(caFifo) - 1
      /\ \A k \in 1 .. Len(caFifo') : caFifo'[k] = caFifo[k + 1] /\ k + 1 \in 1 .. Len(caFifo)
  BY <1>1, FirstOf
<1>4. Len(due) \in Nat /\ Size \in Nat /\ Size' = Size
  BY <1>1, NotEmpty, ProbeCounts DEF Size, LineInv
<1>5. Short => Short'
  BY <1>2, <1>3, <1>4 DEF Short
<1>6. ASSUME Whole PROVE Whole' /\ a = Reading(Len(readings) + 1)
  <2>1. /\ Len(readings) + Len(caFifo) + Len(due) = Size
        /\ \A k \in 1 .. Len(readings) : readings[k] = Reading(k)
        /\ \A k \in 1 .. Len(caFifo) : caFifo[k] = Reading(Len(readings) + k)
        /\ \A k \in 1 .. Len(due) : due[k] = Reading(Len(readings) + Len(caFifo) + k)
    BY <1>6 DEF Whole
  <2> HIDE DEF Reading
  <2>2. a = Reading(Len(readings) + 1)
    <3>1. 1 \in 1 .. Len(caFifo)
      BY <1>3
    <3> QED
      BY <2>1, <3>1
  <2>3. ASSUME NEW k \in 1 .. Len(readings') PROVE readings'[k] = Reading(k)
    <3>1. k \in 1 .. Len(readings) \/ k = Len(readings) + 1
      BY <1>2
    <3> QED
      BY <1>2, <2>1, <2>2, <3>1
  <2>4. ASSUME NEW k \in 1 .. Len(caFifo') PROVE caFifo'[k] = Reading(Len(readings') + k)
    <3>1. Len(readings) + (k + 1) = Len(readings') + k
      BY <1>2, <1>3
    <3>2. caFifo'[k] = caFifo[k + 1] /\ caFifo[k + 1] = Reading(Len(readings) + (k + 1))
      BY <1>3, <2>1
    <3> QED
      BY <3>1, <3>2
  <2>5. ASSUME NEW k \in 1 .. Len(due') PROVE due'[k] = Reading(Len(readings') + Len(caFifo') + k)
    <3>1. Len(readings') + Len(caFifo') + k = Len(readings) + Len(caFifo) + k
      BY <1>2, <1>3, <1>4
    <3>2. due'[k] = due[k] /\ k \in 1 .. Len(due)
      OBVIOUS
    <3>3. due[k] = Reading(Len(readings) + Len(caFifo) + k)
      BY <2>1, <3>2
    <3> QED
      BY <3>1, <3>2, <3>3, Zenon
  <2>6. Len(readings') + Len(caFifo') + Len(due') = Size'
    <3>1. Len(readings) + Len(caFifo) + Len(due) = Size
      BY <2>1
    <3>2. (Len(readings) + 1) + (Len(caFifo) - 1) + Len(due) = Size
      <4>1. \A r, f, d \in Nat : (r + 1) + (f - 1) + d = r + f + d
        OBVIOUS
      <4>2. Len(readings) \in Nat /\ Len(caFifo) \in Nat /\ Len(due) \in Nat
        BY <1>2, <1>3, <1>4
      <4> QED
        BY <3>1, <4>1, <4>2, Zenon
    <3>3. Len(due') = Len(due)
      OBVIOUS
    <3> QED
      BY <1>2, <1>3, <1>4, <3>2, <3>3, Zenon
  <2>7. \A k : [op |-> "MES", ok |-> TRUE, tag |-> caCalls', probe |-> Ordered(PN')[k], mode |-> mode'] = Reading(k)
    BY DEF Reading
  <2>8. /\ \A k \in 1 .. Len(readings') : readings'[k] = Reading(k)'
        /\ \A k \in 1 .. Len(caFifo') : caFifo'[k] = [op |-> "MES", ok |-> TRUE, tag |-> caCalls',
                                          probe |-> Ordered(PN')[Len(readings') + k], mode |-> mode']
        /\ \A k \in 1 .. Len(due') : due'[k] = [op |-> "MES", ok |-> TRUE, tag |-> caCalls',
                                          probe |-> Ordered(PN')[Len(readings') + Len(caFifo') + k], mode |-> mode']
    BY <2>3, <2>4, <2>5, <2>7, Zenon DEF Reading
  <2>9. Whole'
    BY <2>6, <2>8, Zenon DEF Whole, Reading
  <2> QED
    BY <2>2, <2>9
<1> QED
  BY <1>2, <1>3, <1>5, <1>6

\* The script and the sequences after it.
LEMMA HearsKeepsForm ==
  ASSUME CaInv, NEW a \in Answers, Heard(a)
  PROVE  LineInv' /\ ScriptInv' /\ ReadingInv' /\ TakenInv'
<1>1. LineInv /\ caPc # "idle"
  BY DEF CaInv, Heard
<1>2. /\ Size \in Nat /\ Size >= 1 /\ Len(script) \in Nat /\ Len(script) >= 1
      /\ fn = "get" => /\ Step \in {"SET", "OPR", "MDS", "MES", "READ"}
                       /\ Step = "MES" <=> Len(script) = Size
                       /\ Step = "READ" <=> Len(script) < Size
  BY <1>1, StepNow DEF CaInv
<1>3. UNCHANGED <<fn, PN, mode, caCalls, asked, due, opr, mds, done, quiet>> /\ Size' = Size
  BY DEF Heard, Size
<1>4. GoesOn \/ TriesAgain \/ ReadsOn \/ HasEnded
  BY DEF Heard
<1>5. GoesOn => /\ script' \in Seq(Steps) /\ script' # <<>> /\ Len(script') = Len(script) - 1
                /\ Len(script') <= LongestOf(fn, Size)
                /\ \A k \in 1 .. Len(script') : script'[k] = StepOf(fn, Size, Len(script') - k + 1)
  BY <1>1, ScriptGoesOn DEF CaInv, GoesOn
<1>6. readings' = readings \/ readings' = Append(readings, a)
  BY DEF Heard
<1>7. LineInv'
  <2>1. caFifo' \in Seq(Answers)
    BY <1>1, FirstOf DEF LineInv, Heard
  <2>2. readings' \in Seq(Answers)
    <3>1. readings \in Seq(Answers)
      BY <1>1 DEF LineInv
    <3>2. Append(readings, a) \in Seq(Answers)
      BY <3>1, AppendProperties
    <3> QED
      BY <1>6, <3>1, <3>2, Zenon
  <2>3. PNumberFlag' \in SUBSET Probes
    BY <1>1 DEF Heard, Chosen, LineInv
  <2>4. unsure' \in BOOLEAN
    BY <1>1 DEF Heard, LineInv
  <2>5. script' \in Seq(Steps) /\ (caPc' # "idle" => script' # <<>>) /\ caPc' \in {"idle", "send", "await"}
    BY <1>1, <1>4, <1>5 DEF GoesOn, TriesAgain, ReadsOn, HasEnded, LineInv
  <2> QED
    BY <1>1, <1>3, <2>1, <2>2, <2>3, <2>4, <2>5 DEF LineInv
<1>8. ScriptInv'
  <2>1. CASE GoesOn
    BY <1>3, <1>5, <2>1 DEF ScriptInv
  <2>2. CASE script' = script
    BY <1>1, <1>3, <2>2 DEF CaInv, ScriptInv
  <2> QED
    BY <1>4, <2>1, <2>2 DEF TriesAgain, ReadsOn, HasEnded
<1>9. ReadingInv'
  <2>1. ASSUME fn = "get", caPc' # "idle"
        PROVE  IF Len(script') >= Size THEN readings' = <<>> ELSE Len(readings') = Size - Len(script')
    <3>1. IF Len(script) >= Size THEN readings = <<>> ELSE Len(readings) = Size - Len(script)
      BY <1>1, <2>1 DEF CaInv, ReadingInv
    <3>2. GoesOn /\ a.ok
      BY <1>2, <2>1 DEF Heard, TriesAgain, ReadsOn, HasEnded
    <3>3. Len(script') = Len(script) - 1
      BY <1>5, <3>2
    <3>4. CASE Step \in {"MES", "READ"}
      <4>1. Len(script) <= Size
        BY <1>2, <2>1, <3>4
      <4>2. Len(readings) = Size - Len(script)
        <5>1. Len(<<>>) = 0
          BY EmptySeq
        <5> QED
          BY <1>2, <3>1, <4>1, <5>1
      <4>3. Len(readings') = Len(readings) + 1
        <5>1. readings' = Append(readings, a)
          BY <3>2, <3>4 DEF Heard
        <5> QED
          BY <1>1, <5>1, AppendProperties DEF LineInv
      <4> QED
        BY <1>2, <3>3, <4>1, <4>2, <4>3
    <3>5. CASE Step \in {"SET", "OPR", "MDS"}
      <4>1. Len(script) > Size
        BY <1>2, <2>1, <3>5
      <4>2. readings' = readings
        BY <3>5 DEF Heard
      <4> QED
        BY <1>2, <3>1, <3>3, <4>1, <4>2
    <3> QED
      BY <1>2, <2>1, <3>4, <3>5
  <2> QED
    BY <1>3, <2>1 DEF ReadingInv
<1>10. TakenInv'
  <2>1. ASSUME quiet PROVE \A k \in 1 .. Len(readings') : readings'[k].op = "MES" /\ readings'[k].tag = caCalls
    <3>1. \A k \in 1 .. Len(readings) : readings[k].op = "MES" /\ readings[k].tag = caCalls
      BY <1>1, <2>1 DEF CaInv, TakenInv, Measured
    <3>2. ASSUME Step \in {"MES", "READ", "READS"} PROVE a.op = "MES" /\ a.tag = caCalls
      <4>1. caPc = "await" /\ caFifo # <<>> /\ a = Head(caFifo) /\ a = caFifo[1]
        BY DEF Heard
      <4>2. \A k \in 1 .. Len(caFifo) : Measured(caFifo[k])
        BY <2>1, <3>2, <4>1, HeardIsMine DEF Reads
      <4>3. 1 \in 1 .. Len(caFifo)
        BY <1>1, <4>1, FirstOf DEF LineInv
      <4> QED
        BY <4>1, <4>2, <4>3 DEF Measured
    <3>3. CASE readings' = readings
      BY <3>1, <3>3
    <3>4. CASE readings' # readings
      <4>1. readings' = Append(readings, a) /\ Step \in {"MES", "READ", "READS"}
        BY <3>4 DEF Heard
      <4>2. Len(readings) \in Nat /\ Len(readings') = Len(readings) + 1
            /\ readings'[Len(readings) + 1] = a
            /\ \A k \in 1 .. Len(readings) : readings'[k] = readings[k]
        BY <1>1, <4>1, AppendProperties, NotEmpty DEF LineInv
      <4>3. ASSUME NEW k \in 1 .. Len(readings')
            PROVE  readings'[k].op = "MES" /\ readings'[k].tag = caCalls
        <5>1. k \in 1 .. Len(readings) \/ k = Len(readings) + 1
          BY <4>2
        <5> QED
          BY <3>1, <3>2, <4>1, <4>2, <5>1
      <4> QED
        BY <4>3
    <3> QED
      BY <3>3, <3>4
  <2> QED
    BY <1>3, <2>1 DEF TakenInv, Measured
<1> QED
  BY <1>7, <1>8, <1>9, <1>10

\* The line after it.
LEMMA HearsKeepsLine ==
  ASSUME CaInv, NEW a \in Answers, Heard(a)
  PROVE  OneInv' /\ ManyInv' /\ SendInv'
<1>1. LineInv /\ caPc = "await" /\ caFifo # <<>> /\ a = Head(caFifo) /\ a = caFifo[1] /\ caFifo' = Tail(caFifo)
  BY DEF CaInv, Heard
<1>2. /\ Size \in Nat /\ Size >= 1 /\ Len(script) \in Nat /\ Len(script) >= 1
      /\ fn = "get" => /\ Step \in {"SET", "OPR", "MDS", "MES", "READ"}
                       /\ Step = "MDS" <=> Len(script) = Size + 1
                       /\ Step = "MES" <=> Len(script) = Size
                       /\ Step = "READ" <=> Len(script) < Size
      /\ fn = "query" => /\ Step \in {"OPR", "MDS", "MES", "READS"}
                         /\ Step = "READS" <=> Len(script) = 1
                         /\ Step = "MES" <=> Len(script) = 2
                         /\ Step = "MDS" <=> Len(script) = 3
      /\ fn = "init" => Step \in {"COM", "SET"}
      /\ fn = "plain" => Step = "SET"
  BY <1>1, StepNow DEF CaInv
<1>3. UNCHANGED <<fn, PN, mode, caCalls, asked, due, opr, mds, done, quiet>> /\ Size' = Size
  BY DEF Heard, Size
<1>4. LineInv' /\ ScriptInv'
  BY HearsKeepsForm
<1>5. ASSUME caPc' # "idle"
      PROVE  /\ Len(script') \in Nat /\ Len(script') >= 1
             /\ fn = "get" => /\ Step' \in {"SET", "OPR", "MDS", "MES", "READ"}
                              /\ Step' = "MES" <=> Len(script') = Size
                              /\ Step' = "READ" <=> Len(script') < Size
             /\ fn = "query" => /\ Step' \in {"OPR", "MDS", "MES", "READS"}
                                /\ Step' = "READS" <=> Len(script') = 1
                                /\ Step' = "MES" <=> Len(script') = 2
             /\ fn = "init" => Step' \in {"COM", "SET"}
             /\ fn = "plain" => Step' = "SET"
  <2>1. script' \in Seq(Steps) /\ script' # <<>>
    BY <1>4, <1>5 DEF LineInv
  <2>2. /\ Len(script') <= LongestOf(fn, Size)
        /\ \A k \in 1 .. Len(script') : script'[k] = StepOf(fn, Size, Len(script') - k + 1)
    BY <1>3, <1>4, <1>5 DEF ScriptInv
  <2>3. fn \in Functions
    BY <1>1 DEF LineInv
  <2> QED
    BY <1>2, <2>1, <2>2, <2>3, StepIs DEF Step
<1>6. fn \in Functions
  BY <1>1 DEF LineInv
<1>7. ASSUME caPc' = "await" PROVE Step' = "READS"
  BY <1>7 DEF Heard, GoesOn, TriesAgain, ReadsOn, HasEnded, Step
<1>8. ASSUME caPc' # "idle", Step' \in {"MES", "READ", "READS"}
      PROVE  /\ a.ok /\ ((GoesOn /\ Len(script') = Len(script) - 1) \/ ReadsOn)
             /\ Step' = "MES" => Step = "MDS"
             /\ Step' # "MES" => Step \in {"MES", "READ", "READS"}
  <2>1. ~TriesAgain
    BY <1>2, <1>6, <1>8 DEF TriesAgain, Step
  <2>2. a.ok /\ (GoesOn \/ ReadsOn)
    BY <1>8, <2>1 DEF Heard, HasEnded
  <2>3. GoesOn => Len(script') = Len(script) - 1
    BY <1>1, ScriptGoesOn DEF CaInv, GoesOn
  <2>4. CASE ReadsOn
    <3>1. Step' = "READS" /\ Step = "READS"
      BY <2>4 DEF ReadsOn, Step
    <3> QED
      BY <2>2, <2>4, <3>1
  <2>5. CASE GoesOn
    <3>1. ASSUME fn = "get"
          PROVE  (Step' = "MES" => Step = "MDS") /\ (Step' # "MES" => Step \in {"MES", "READ", "READS"})
      <4>1. /\ Step' = "MES" => Len(script) = Size + 1
            /\ Step' # "MES" => Len(script) <= Size
        <5>1. Len(script') = Len(script) - 1 /\ (Step' = "MES" <=> Len(script') = Size)
              /\ (Step' = "READ" <=> Len(script') < Size) /\ Step' \in {"MES", "READ"}
          BY <1>5, <1>8, <2>3, <2>5, <3>1
        <5>2. Len(script') \in Nat
          BY <1>5, <1>8
        <5> QED
          BY <1>2, <5>1, <5>2
      <4>2. /\ Len(script) = Size + 1 => Step = "MDS"
            /\ Len(script) <= Size => Step \in {"MES", "READ"}
        BY <1>2, <3>1
      <4> QED
        BY <4>1, <4>2
    <3>2. ASSUME fn = "query"
          PROVE  (Step' = "MES" => Step = "MDS") /\ (Step' # "MES" => Step \in {"MES", "READ", "READS"})
      <4>1. /\ Step' = "MES" => Len(script) = 3
            /\ Step' # "MES" => Len(script) = 2
        <5>1. Len(script') = Len(script) - 1 /\ (Step' = "MES" <=> Len(script') = 2)
              /\ (Step' = "READS" <=> Len(script') = 1) /\ Step' \in {"MES", "READS"}
          BY <1>5, <1>8, <2>3, <2>5, <3>2
        <5>2. Len(script') \in Nat
          BY <1>5, <1>8
        <5> QED
          BY <1>2, <5>1, <5>2
      <4>2. (Len(script) = 3 => Step = "MDS") /\ (Len(script) = 2 => Step = "MES")
        BY <1>2, <3>2
      <4> QED
        BY <4>1, <4>2
    <3>3. ASSUME fn \in {"init", "plain"}
          PROVE  (Step' = "MES" => Step = "MDS") /\ (Step' # "MES" => Step \in {"MES", "READ", "READS"})
      BY <1>5, <1>8, <3>3
    <3>4. (Step' = "MES" => Step = "MDS") /\ (Step' # "MES" => Step \in {"MES", "READ", "READS"})
      BY <1>6, <3>1, <3>2, <3>3 DEF Functions
    <3> QED
      BY <2>2, <2>3, <2>5, <3>4
  <2> QED
    BY <2>2, <2>4, <2>5
<1>9. OneInv'
  BY <1>7 DEF OneInv
<1>10. SendInv'
  <2>1. ASSUME quiet, caPc' = "send", Step' = "MES"
        PROVE  asked' = <<>> /\ due' = <<>> /\ caFifo' = <<>>
    <3>1. Step = "MDS"
      BY <1>8, <2>1
    <3> QED
      BY <1>1, <1>3, <2>1, <3>1, HeardIsMine
  <2> QED
    BY <1>3, <2>1 DEF SendInv
<1>11. ManyInv'
  <2>1. ASSUME quiet, (caPc' = "await" /\ Step' = "MES") \/ (caPc' # "idle" /\ Reads')
        PROVE  /\ asked' = <<>>
               /\ \A k \in 1 .. Len(caFifo') : caFifo'[k].op = "MES" /\ caFifo'[k].tag = caCalls'
               /\ \A k \in 1 .. Len(due') : due'[k].op = "MES" /\ due'[k].tag = caCalls'
               /\ fn' = "get" /\ ~unsure' => Whole' \/ Short' \/ Refused'
    <3>1. caPc' # "idle" /\ Step' \in {"READ", "READS"}
      BY <1>7, <2>1 DEF Reads
    <3>2. a.ok /\ Step \in {"MES", "READ", "READS"}
      BY <1>8, <3>1
    <3>3. /\ asked = <<>>
          /\ \A k \in 1 .. Len(caFifo) : Measured(caFifo[k])
          /\ \A k \in 1 .. Len(due) : Measured(due[k])
          /\ fn = "get" /\ ~unsure => Whole \/ Short \/ Refused
      BY <1>1, <2>1, <3>2, HeardIsMine DEF Reads
    <3>4. readings' = Append(readings, a) /\ unsure' = unsure
      BY <3>2 DEF Heard
    <3>5. (Whole => Whole') /\ (Short => Short')
      <4>1. UNCHANGED <<due, PN, mode, caCalls>>
        BY <1>3
      <4> QED
        BY <1>1, <3>4, <4>1, ReadingTaken
    <3>6. ~Refused
      <4>1. 1 \in 1 .. Len(caFifo)
        BY <1>1, FirstOf DEF LineInv
      <4> QED
        BY <1>1, <3>2, <4>1 DEF Refused
    <3>7. \A k \in 1 .. Len(caFifo') : caFifo'[k] = caFifo[k + 1] /\ k + 1 \in 1 .. Len(caFifo)
      BY <1>1, FirstOf DEF LineInv
    <3>8. \A k \in 1 .. Len(caFifo') : caFifo'[k].op = "MES" /\ caFifo'[k].tag = caCalls'
      BY <1>3, <3>3, <3>7 DEF Measured
    <3>9. \A k \in 1 .. Len(due') : due'[k].op = "MES" /\ due'[k].tag = caCalls'
      BY <1>3, <3>3 DEF Measured
    <3> QED
      BY <1>3, <3>3, <3>4, <3>5, <3>6, <3>8, <3>9
  <2> QED
    BY <1>3, <2>1, Zenon DEF ManyInv, Measured
<1> QED
  BY <1>9, <1>10, <1>11

\* What was carried out before it, and the probes that are remembered.
LEMMA HearsKeepsEffect ==
  ASSUME CaInv, NEW a \in Answers, Heard(a)
  PROVE  EffectInv' /\ FlagInv'
<1>1. LineInv /\ caPc = "await" /\ caFifo # <<>> /\ a = Head(caFifo) /\ fn \in Functions
  BY DEF CaInv, Heard, LineInv
<1>2. /\ Size \in Nat /\ Size >= 1 /\ Len(script) \in Nat /\ Len(script) >= 1
      /\ fn = "get" => /\ Step \in {"SET", "OPR", "MDS", "MES", "READ"}
                       /\ Step = "OPR" <=> Len(script) = Size + 2
                       /\ Step = "MDS" <=> Len(script) = Size + 1
      /\ fn = "init" => /\ Step \in {"COM", "SET"} /\ Len(script) <= 3
                        /\ Step = "COM" <=> Len(script) = 3
      /\ fn = "query" => Step \in {"OPR", "MDS", "MES", "READS"}
      /\ fn = "plain" => Step = "SET"
  BY <1>1, StepNow DEF CaInv
<1>3. /\ UNCHANGED <<fn, PN, mode, caCalls, asked, due, opr, mds, done, quiet>> /\ Size' = Size
      /\ PNumberFlag' = Chosen(a)
      /\ unsure' = IF Step = "OPR" /\ fn = "get"
                   THEN ~quiet \/ a.op # "OPR" \/ (~a.ok /\ unsure) ELSE unsure
  BY DEF Heard, Size
<1>4. ASSUME quiet, Step \in {"COM", "SET", "OPR", "MDS"}
      PROVE  asked = <<>> /\ Says(a)
  BY <1>1, <1>4, HeardIsMine
<1>5. ASSUME caPc' # "idle"
      PROVE  \/ a.ok /\ GoesOn /\ Len(script') = Len(script) - 1
             \/ Len(script') = Len(script) /\ (fn = "get" => FALSE)
                /\ (fn = "init" => Len(script) = 3)
  <2>1. GoesOn => Len(script') = Len(script) - 1
    BY <1>1, ScriptGoesOn DEF CaInv, GoesOn
  <2>2. (a.ok /\ GoesOn) \/ TriesAgain \/ ReadsOn
    BY <1>5 DEF Heard, HasEnded
  <2>3. TriesAgain \/ ReadsOn => Len(script') = Len(script) /\ (fn = "get" => FALSE)
                                 /\ (fn = "init" => Len(script) = 3)
    BY <1>2 DEF TriesAgain, ReadsOn
  <2> QED
    BY <2>1, <2>2, <2>3
<1>6. EffectInv'
  <2>1. ASSUME quiet, caPc' # "idle", fn = "get", ~unsure', Len(script') <= Size + 1
        PROVE  opr = PN
    <3>1. a.ok /\ Len(script') = Len(script) - 1
      BY <1>5, <2>1
    <3>2. Len(script) <= Size + 1 \/ Step = "OPR"
      BY <1>2, <2>1, <3>1
    <3>3. CASE Step = "OPR"
      BY <1>4, <2>1, <3>1, <3>3 DEF Says
    <3>4. CASE Step # "OPR"
      <4>1. ~unsure /\ Len(script) <= Size + 1
        BY <1>3, <2>1, <3>2, <3>4
      <4> QED
        BY <1>1, <2>1, <4>1 DEF CaInv, EffectInv
    <3> QED
      BY <3>3, <3>4
  <2>2. ASSUME quiet, caPc' # "idle", fn = "get", ~unsure', Len(script') <= Size
        PROVE  mds = mode
    <3>1. a.ok /\ Len(script') = Len(script) - 1
      BY <1>5, <2>2
    <3>2. Len(script) <= Size \/ Step = "MDS"
      BY <1>2, <2>2, <3>1
    <3>3. CASE Step = "MDS"
      BY <1>4, <2>2, <3>1, <3>3 DEF Says
    <3>4. CASE Step # "MDS"
      <4>1. Len(script) <= Size /\ Step # "OPR"
        BY <1>2, <2>2, <3>2, <3>4
      <4>2. ~unsure
        BY <1>3, <2>2, <4>1
      <4> QED
        BY <1>1, <2>2, <4>1, <4>2 DEF CaInv, EffectInv
    <3> QED
      BY <3>3, <3>4
  <2>3. ASSUME quiet, caPc' # "idle", fn = "init"
        PROVE  /\ Len(script') <= 2 => "COM" \in done
               /\ Len(script') <= 1 => "SET" \in done
    <3>1. \/ a.ok /\ Len(script') = Len(script) - 1
          \/ Len(script') = Len(script) /\ Len(script) = 3
      BY <1>5, <2>3
    <3>2. (Len(script) <= 2 => "COM" \in done) /\ (Len(script) <= 1 => "SET" \in done)
      BY <1>1, <2>3 DEF CaInv, EffectInv
    <3>3. a.ok => Step \in done
      BY <1>2, <1>4, <2>3 DEF Says
    <3>4. Step = IF Len(script) = 3 THEN "COM" ELSE "SET"
      BY <1>2, <2>3
    <3>5. Len(script) \in {1, 2, 3}
      <4>1. Len(script) \in Nat /\ Len(script) >= 1 /\ Len(script) <= 3
        BY <1>2, <2>3
      <4>2. \A x \in Nat : x >= 1 /\ x <= 3 => x \in {1, 2, 3}
        OBVIOUS
      <4> QED
        BY <4>1, <4>2, Zenon
    <3>6. CASE Len(script) = 3
      BY <3>1, <3>3, <3>4, <3>6
    <3>7. CASE Len(script) = 2
      BY <3>1, <3>2, <3>3, <3>4, <3>7
    <3>8. CASE Len(script) = 1
      BY <3>2, <3>8
    <3> QED
      BY <3>5, <3>6, <3>7, <3>8
  <2> QED
    BY <1>3, <2>1, <2>2, <2>3 DEF EffectInv
<1>7. FlagInv'
  <2>1. ASSUME ~unsure'
        PROVE  /\ PNumberFlag' # {} => opr = PNumberFlag'
               /\ \A k \in 1 .. Len(asked) : asked[k].op # "OPR"
    <3>1. CASE Choosing
      <4>1. Step = "OPR" /\ fn = "get" /\ quiet /\ (a.ok \/ ~unsure)
        BY <1>3, <2>1, <3>1 DEF Choosing
      <4>2. asked = <<>> /\ Says(a)
        BY <1>4, <4>1
      <4>3. \A k \in 1 .. Len(asked) : asked[k].op # "OPR"
        BY <4>2, EmptySeq
      <4>4. CASE a.ok
        <5>1. PNumberFlag' = PN /\ opr = PN
          BY <1>3, <4>1, <4>2, <4>4 DEF Chosen, Says
        <5> QED
          BY <4>3, <5>1
      <4>5. CASE ~a.ok
        <5>1. PNumberFlag' = PNumberFlag /\ Remembered /\ ~unsure
          BY <1>3, <4>1, <4>2, <4>5 DEF Chosen, Says
        <5> QED
          BY <4>3, <5>1 DEF Remembered
      <4> QED
        BY <4>4, <4>5
    <3>2. CASE ~Choosing
      <4>1. ~(Step = "OPR" /\ fn = "get")
        BY <1>1, <3>2 DEF Choosing
      <4>2. PNumberFlag' = PNumberFlag /\ ~unsure
        BY <1>3, <2>1, <4>1 DEF Chosen
      <4> QED
        BY <3>2, <4>2 DEF CaInv, FlagInv, Remembered
    <3> QED
      BY <3>1, <3>2
  <2> QED
    BY <1>3, <2>1 DEF FlagInv, Remembered
<1> QED
  BY <1>6, <1>7

\* A call that ends well.
LEMMA HearsKeepsExact ==
  ASSUME CaInv, NEW a \in Answers, Heard(a)
  PROVE  ExactInv'
<1>1. /\ LineInv /\ caPc = "await" /\ caFifo # <<>> /\ a = Head(caFifo) /\ a = caFifo[1]
      /\ caFifo' = Tail(caFifo) /\ fn \in Functions
  BY DEF CaInv, Heard, LineInv
<1>2. /\ Size \in Nat /\ Size >= 1 /\ Len(script) \in Nat /\ Len(script) >= 1
      /\ fn = "get" => /\ Step = "MES" <=> Len(script) = Size
                       /\ Step = "READ" <=> Len(script) < Size
                       /\ Step # "READS"
      /\ fn = "init" => /\ Step \in {"COM", "SET"}
                        /\ Step = "COM" <=> Len(script) = 3
      /\ fn = "query" => (Step = "READS" <=> Len(script) = 1)
      /\ fn = "plain" => Step = "SET"
  BY <1>1, StepNow DEF CaInv
<1>3. UNCHANGED <<fn, PN, mode, caCalls, asked, due, opr, mds, done, quiet>> /\ Size' = Size
  BY DEF Heard, Size
<1>4. ASSUME Succeeded'
      PROVE  quiet /\ (unsure' => fn # "get") /\ EndsWell(a)
  <2>1. caPc' = "idle" /\ returned' = "ok" /\ quiet /\ (unsure' => fn # "get")
    BY <1>3, <1>4 DEF Succeeded
  <2> QED
    BY <2>1 DEF Heard, GoesOn, TriesAgain, ReadsOn
<1>5. ASSUME Succeeded', fn = "get" PROVE GetExact'
  <2>1. quiet /\ ~unsure' /\ a.ok /\ Len(script) = 1
    BY <1>2, <1>4, <1>5 DEF EndsWell
  <2>2. Step \in {"MES", "READ"}
    BY <1>2, <1>5, <2>1
  <2>3. readings' = Append(readings, a) /\ unsure' = unsure
    BY <2>1, <2>2 DEF Heard
  <2>4. Whole \/ Short \/ Refused
    BY <1>1, <1>5, <2>1, <2>2, <2>3, HeardIsMine DEF Reads
  <2>5. /\ Len(readings) \in Nat /\ Len(readings') = Len(readings) + 1
        /\ Len(caFifo) \in Nat /\ Len(caFifo) >= 1
        /\ readings' \in Seq(Answers) /\ readings'[Len(readings) + 1] = a
        /\ \A k \in 1 .. Len(readings) : readings'[k] = readings[k]
        /\ Whole => a = Reading(Len(readings) + 1)
    <3>1. UNCHANGED <<due, PN, mode, caCalls>>
      BY <1>3
    <3> QED
      BY <1>1, <2>3, <3>1, ReadingTaken
  <2>6. Len(readings) = Size - 1
    <3>1. IF Len(script) >= Size THEN readings = <<>> ELSE Len(readings) = Size - Len(script)
      BY <1>1, <1>5 DEF CaInv, ReadingInv
    <3>2. Len(<<>>) = 0
      BY EmptySeq
    <3> QED
      BY <1>2, <2>1, <3>1, <3>2
  <2>7. ~Refused
    <3>1. 1 \in 1 .. Len(caFifo)
      BY <2>5
    <3> QED
      BY <1>1, <2>1, <3>1 DEF Refused
  <2>8. ~Short
    <3>1. Len(due) \in Nat
      BY <1>1, NotEmpty DEF LineInv
    <3> QED
      BY <1>2, <2>5, <2>6, <3>1 DEF Short
  <2>9. /\ \A k \in 1 .. Len(readings) : readings[k] = Reading(k)
        /\ a = Reading(Len(readings) + 1)
    BY <2>4, <2>5, <2>7, <2>8 DEF Whole
  <2> HIDE DEF Reading
  <2>10. ASSUME NEW k \in 1 .. Size PROVE readings'[k] = Reading(k)
    <3>1. k \in 1 .. Len(readings) \/ k = Len(readings) + 1
      BY <1>2, <2>6
    <3> QED
      BY <2>5, <2>9, <3>1
  <2>11. DOMAIN readings' = 1 .. Size
    BY <1>2, <2>5, <2>6, LenProperties
  <2>12. readings' = [k \in 1 .. Size |-> Reading(k)]
    <3>1. readings' = [k \in DOMAIN readings' |-> readings'[k]]
      BY <2>5
    <3> QED
      BY <2>10, <2>11, <3>1
  <2>13. readings' = [k \in 1 .. Cardinality(PN') |-> [op |-> "MES", ok |-> TRUE, tag |-> caCalls',
                        probe |-> Ordered(PN')[k], mode |-> mode']]
    BY <1>3, <2>12 DEF Reading, Size
  <2> QED
    BY <2>13, Zenon DEF GetExact, Reading
<1>6. ASSUME Succeeded' PROVE DoneExact'
  <2>1. ASSUME fn = "query" PROVE \A k \in 1 .. Len(readings') : readings'[k].op = "MES" /\ readings'[k].tag = caCalls'
    <3>1. quiet /\ ~a.ok
      BY <1>2, <1>4, <1>6, <2>1 DEF EndsWell
    <3>2. readings' = readings
      BY <3>1 DEF Heard
    <3> QED
      BY <1>1, <1>3, <3>1, <3>2 DEF CaInv, TakenInv, Measured
  <2>2. ASSUME fn \in {"init", "plain"} PROVE Step = "SET" /\ "SET" \in done
    <3>1. quiet /\ a.ok /\ Step = "SET"
      <4>1. quiet /\ (IF a.ok THEN Len(script) = 1 /\ Step # "READS" ELSE Step = "READS")
        BY <1>4, <1>6 DEF EndsWell
      <4>2. Step \in {"COM", "SET"} /\ (Len(script) = 1 => Step = "SET")
        <5>1. CASE fn = "plain"
          BY <1>2, <5>1
        <5>2. CASE fn = "init"
          BY <1>2, <5>2
        <5> QED
          BY <2>2, <5>1, <5>2
      <4> QED
        BY <4>1, <4>2
    <3> QED
      BY <1>1, <3>1, HeardIsMine DEF Says
  <2>3. ASSUME fn = "init" PROVE "COM" \in done
    <3>1. quiet /\ Len(script) = 1
      BY <1>2, <1>4, <1>6, <2>3 DEF EndsWell
    <3> QED
      BY <1>1, <2>3, <3>1 DEF CaInv, EffectInv
  <2> QED
    BY <1>3, <2>1, <2>2, <2>3 DEF DoneExact, Measured
<1>7. fn # "get" => GetExact'
  BY <1>3 DEF GetExact
<1> QED
  BY <1>5, <1>6, <1>7 DEF ExactInv

\* A line is heard.
LEMMA HearsKeeps ==
  ASSUME CaInv, Hears
  PROVE  CaInv'
<1>1. PICK a \in Answers : Heard(a)
  BY AfterHearing DEF CaInv
<1> QED
  BY <1>1, HearsKeepsForm, HearsKeepsLine, HearsKeepsEffect, HearsKeepsExact DEF CaInv

-----------------------------------------------------------------------------

\* All of it holds at first, and every step keeps it.
LEMMA CaStarts == CaInit => CaInv
<1> SUFFICES ASSUME CaInit PROVE CaInv
  OBVIOUS
<1>1. /\ caPc = "idle" /\ fn = "plain" /\ PN = {1} /\ mode = 0 /\ script = <<>> /\ PNumberFlag = {}
      /\ caFifo = <<>> /\ readings = <<>> /\ caCalls = 0 /\ asked = <<>> /\ due = <<>>
      /\ opr = {1} /\ mds = 0 /\ quiet = TRUE /\ unsure = FALSE
  BY DEF CaInit
<1>2. LineInv
  <2>1. \A S : <<>> \in Seq(S)
    OBVIOUS
  <2>2. asked \in Seq(Commands) /\ due \in Seq(Answers) /\ caFifo \in Seq(Answers)
        /\ readings \in Seq(Answers) /\ script \in Seq(Steps)
    BY <1>1, <2>1
  <2>3. PN \in SUBSET Probes /\ PN # {} /\ opr \in SUBSET Probes /\ PNumberFlag \in SUBSET Probes
    BY <1>1, CaAssumption
  <2> QED
    BY <1>1, <2>2, <2>3 DEF LineInv, Functions, Modes
<1>3. ScriptInv /\ ReadingInv /\ OneInv /\ ManyInv /\ TakenInv /\ SendInv /\ EffectInv
  BY <1>1 DEF ScriptInv, ReadingInv, OneInv, ManyInv, TakenInv, SendInv, EffectInv
<1>4. FlagInv
  <2>1. 1 .. Len(asked) = {}
    BY <1>1, EmptySeq
  <2> QED
    BY <1>1, <2>1 DEF FlagInv, Remembered
<1>5. ExactInv
  BY <1>1 DEF ExactInv, Succeeded
<1> QED
  BY <1>2, <1>3, <1>4, <1>5 DEF CaInv

\* The instrument and the line at fault.
LEMMA FaultKeeps ==
  ASSUME CaInv, Fault
  PROVE  CaInv'
<1>1. UNCHANGED host /\ UNCHANGED done /\ (Refuses \/ Loses \/ Restarts)
  BY DEF Fault
<1> QED
  BY <1>1, RefusesKeeps, LosesKeeps, RestartsKeeps

\* Nothing happens.
LEMMA CaStuttersKeeps ==
  ASSUME CaInv, UNCHANGED caVars
  PROVE  CaInv'
<1>1. UNCHANGED <<caPc, fn, PN, mode, script, PNumberFlag, caFifo, readings, returned, caCalls,
                  asked, due, opr, mds, done, quiet, unsure>>
  BY DEF caVars, host, instrument
<1>2. LineInv' /\ ScriptInv' /\ ReadingInv' /\ TakenInv'
  BY <1>1 DEF CaInv, LineInv, ScriptInv, ReadingInv, TakenInv, Size, Measured
<1>3. OneInv' /\ SendInv'
  BY <1>1 DEF CaInv, OneInv, SendInv, Step, Cmd, Remembered, Says, Alone
<1>4. ManyInv'
  BY <1>1 DEF CaInv, ManyInv, Step, Reads, Cmd, Measured, Whole, Reading, Short, Refused, Size
<1>5. EffectInv' /\ FlagInv' /\ ExactInv'
  BY <1>1 DEF CaInv, EffectInv, FlagInv, ExactInv, Choosing, Remembered, Step, Size, Succeeded, GetExact,
              DoneExact, Reading, Measured
<1> QED
  BY <1>2, <1>3, <1>4, <1>5 DEF CaInv

\* Every step keeps the invariant.
LEMMA CaGoesOn == CaInv /\ [CaNext]_caVars => CaInv'
<1> SUFFICES ASSUME CaInv, [CaNext]_caVars PROVE CaInv'
  OBVIOUS
<1>1. ASSUME NEW f \in Functions, NEW ps \in (SUBSET Probes) \ {{}}, NEW m \in Modes, CaCall(f, ps, m)
      PROVE  CaInv'
  BY <1>1, CaCallKeeps
<1>2. CASE Run
  BY <1>2, RunKeeps
<1>3. CASE Hears
  BY <1>3, HearsKeeps
<1>4. CASE TimesOut
  BY <1>4, TimesOutKeeps
<1>5. CASE Obeys
  BY <1>5, ObeysKeeps
<1>6. CASE Answers310
  BY <1>6, AnswersKeeps
<1>7. CASE Fault
  BY <1>7, FaultKeeps
<1>8. CASE UNCHANGED caVars
  BY <1>8, CaStuttersKeeps
<1> QED
  BY <1>1, <1>2, <1>3, <1>4, <1>5, <1>6, <1>7, <1>8 DEF CaNext, CaHost

\* commonCa310.c:327-342: between the calls, the probes PNumberFlag remembers are the
\* ones that will answer, unless whether it was obeyed cannot be known.
THEOREM FlagIsTrue == CaSpec => []FlagTellsTruth
<1>1. CaInv => FlagTellsTruth
  <2>1. ASSUME CaInv, caPc = "idle", PNumberFlag # {}, ~unsure PROVE opr = PNumberFlag
    <3>1. ~Choosing
      BY <2>1 DEF Choosing
    <3> QED
      BY <2>1, <3>1 DEF CaInv, FlagInv, Remembered
  <2> QED
    BY <2>1 DEF FlagTellsTruth
<1> QED
  BY <1>1, CaStarts, CaGoesOn, PTL DEF CaSpec

\* commonCa310.c:108-131, 304-366: a call on a quiet line that succeeds has had its
\* commands carried out, and reports what was measured for it, by each probe it asked,
\* in order and in its mode.
THEOREM CallsAreExact == CaSpec => []CallIsExact
<1>1. CaInv => CallIsExact
  <2> SUFFICES ASSUME CaInv, Succeeded PROVE CallIsExact
    BY DEF CallIsExact, Succeeded
  <2>1. fn \in Functions /\ readings \in Seq(Answers) /\ GetExact /\ DoneExact
    BY DEF CaInv, LineInv, ExactInv
  <2>2. DOMAIN readings = 1 .. Len(readings)
    BY <2>1, LenProperties
  <2>3. CASE fn = "get"
    <3>1. readings = [k \in 1 .. Cardinality(PN) |->
                        [op |-> "MES", ok |-> TRUE, tag |-> caCalls, probe |-> Ordered(PN)[k], mode |-> mode]]
      BY <2>1, <2>3, Zenon DEF GetExact, Reading
    <3> QED
      BY <2>3, <3>1, Zenon DEF CallIsExact
  <2>4. CASE fn = "query"
    <3>1. \A k \in DOMAIN readings : readings[k].tag = caCalls /\ readings[k].op = "MES"
      BY <2>1, <2>2, <2>4 DEF DoneExact, Measured
    <3> QED
      BY <2>4, <3>1 DEF CallIsExact
  <2>5. CASE fn = "init"
    <3>1. {"COM", "SET"} \subseteq done
      BY <2>1, <2>5 DEF DoneExact
    <3> QED
      BY <2>5, <3>1 DEF CallIsExact
  <2>6. CASE fn = "plain"
    <3>1. "SET" \in done
      BY <2>1, <2>6 DEF DoneExact
    <3> QED
      BY <2>6, <3>1 DEF CallIsExact
  <2> QED
    BY <2>1, <2>3, <2>4, <2>5, <2>6 DEF Functions
<1> QED
  BY <1>1, CaStarts, CaGoesOn, PTL DEF CaSpec

-----------------------------------------------------------------------------

\* What Run sends.
Sent310 ==
  [op : {"COM", "SET", "OPR", "MDS", "MES"}, tag : 0..MaxCaCalls,
   probes : (SUBSET Probes) \ {{}}, mode : Modes]

\* Everything has its type, the commands on the line included.
CaTypes == CaTypeOK /\ asked \in Seq(Sent310)

\* Where the host goes when a step has ended or goes on.
LEMMA HostMoves ==
  ASSUME CaInv, CaTypes, caPc = "await", Succeeds \/ Fails \/ Return310("failed")
  PROVE  /\ caPc' \in {"idle", "send", "await"} /\ returned' \in {"ok", "failed"}
         /\ tries' \in 1..MaxTries /\ (caPc' # "idle" => script' # <<>>)
<1>1. /\ tries \in 1..MaxTries /\ returned \in {"ok", "failed"} /\ MaxTries \in Nat /\ MaxTries >= 1
      /\ script # <<>>
  BY CaAssumption DEF CaTypes, CaTypeOK
<1>2. CASE Return310("failed") \/ Return310("ok")
  BY <1>1, <1>2 DEF Return310
<1>3. CASE Fails /\ Again
  BY <1>1, <1>3 DEF Fails, Again
<1>4. CASE Fails /\ ~Again
  BY <1>1, <1>4 DEF Fails, Return310
<1>5. CASE Succeeds /\ Len(script) # 1 /\ Step # "READS"
  <2>1. Tail(script) # <<>>
    BY <1>5, ScriptGoesOn DEF CaInv
  <2> QED
    BY <1>1, <1>5, <2>1 DEF Succeeds
<1>6. CASE Succeeds /\ Step = "READS"
  BY <1>1, <1>6 DEF Succeeds
<1> QED
  BY <1>2, <1>3, <1>4, <1>5, <1>6 DEF Succeeds

\* A command is sent, with its type.
LEMMA RunTypes ==
  ASSUME CaInv, CaTypes, Run PROVE CaTypes'
<1>1. /\ caPc = "send" /\ caPc' = "await" /\ script' = script /\ script # <<>>
      /\ UNCHANGED <<fn, PN, mode, tries, PNumberFlag, readings, returned, caCalls, due, opr, mds,
                     done, faults>>
  BY DEF Run, CaTypes, CaTypeOK
<1>2. caFifo' \in Seq(Answer310) /\ quiet' \in BOOLEAN /\ unsure' \in BOOLEAN
  <2>1. <<>> \in Seq(Answer310)
    OBVIOUS
  <2> QED
    BY <2>1 DEF Run, Flushed, CaTypes, CaTypeOK
<1>3. asked' \in Seq(Sent310)
  <2>1. CASE Reads
    BY <2>1 DEF Run, CaTypes
  <2>2. CASE ~Reads
    <3>1. Step \in {"COM", "SET", "OPR", "MDS", "MES"}
      <4>1. fn \in Functions
        BY DEF CaTypes, CaTypeOK
      <4> QED
        BY <1>1, <2>2, <4>1, StepNow DEF CaInv, Reads, Functions
    <3>2. Cmd \in Sent310
      <4>1. /\ PN \in (SUBSET Probes) \ {{}} /\ mode \in Modes /\ 0 \in Modes
            /\ caCalls \in 0..MaxCaCalls /\ Probes \in (SUBSET Probes) \ {{}}
        BY CaAssumption DEF CaTypes, CaTypeOK, Modes
      <4> QED
        BY <3>1, <4>1 DEF Cmd, Sent310
    <3>3. asked' = Append(asked, Cmd)
      BY <2>2 DEF Run, Cmd
    <3> QED
      BY <3>2, <3>3, AppendProperties DEF CaTypes
  <2> QED
    BY <2>1, <2>2
<1> QED
  BY <1>1, <1>2, <1>3 DEF CaTypes, CaTypeOK

\* A line is heard.
LEMMA HearsTypes ==
  ASSUME CaInv, CaTypes, Hears PROVE CaTypes'
<1> DEFINE a == Head(caFifo)
<1>1. /\ caPc = "await" /\ caFifo # <<>> /\ caFifo' = Tail(caFifo) /\ PNumberFlag' = Chosen(a)
      /\ unsure' = (IF Step = "OPR" /\ fn = "get"
                    THEN ~quiet \/ a.op # "OPR" \/ (~a.ok /\ unsure)
                    ELSE unsure)
      /\ Succeeds \/ Fails \/ Return310("failed")
      /\ readings' = IF a.ok /\ Step \in {"MES", "READ", "READS"}
                     THEN Append(readings, a) ELSE readings
      /\ UNCHANGED <<fn, PN, mode, caCalls, asked, due, opr, mds, done, quiet, faults>>
  BY DEF Hears, instrument
<1>2. a \in Answer310 /\ Tail(caFifo) \in Seq(Answer310)
  BY <1>1, FirstOf DEF CaTypes, CaTypeOK
<1> HIDE DEF a
<1>3. a.ok \in BOOLEAN
  BY <1>2 DEF Answer310
<1>4. readings' \in Seq(Answer310)
  BY <1>1, <1>2, AppendProperties DEF CaTypes, CaTypeOK
<1>5. PNumberFlag' \subseteq Probes /\ unsure' \in BOOLEAN
  BY <1>1, <1>3 DEF Chosen, CaTypes, CaTypeOK
<1> QED
  BY <1>1, <1>2, <1>4, <1>5, HostMoves DEF CaTypes, CaTypeOK

\* The time is up.
LEMMA TimesOutTypes ==
  ASSUME CaInv, CaTypes, TimesOut PROVE CaTypes'
<1>1. /\ caPc = "await" /\ Fails /\ unsure' = (unsure \/ (Step = "OPR"))
      /\ due' \in {due} \cup (IF due = <<>> THEN {} ELSE {<<Cut>> \o Tail(due)})
      /\ UNCHANGED <<fn, PN, mode, PNumberFlag, caFifo, readings, caCalls, asked, opr, mds, done, quiet>>
  BY DEF TimesOut, Expires
<1>2. due' \in Seq(Answer310)
  <2>1. CASE due' = due
    BY <2>1 DEF CaTypes, CaTypeOK
  <2>2. CASE due # <<>> /\ due' = <<Cut>> \o Tail(due)
    <3>1. Tail(due) \in Seq(Answer310)
      BY <2>2, FirstOf DEF CaTypes, CaTypeOK
    <3>2. Cut \in Answer310
      BY CaAssumption DEF Cut, Answer310, Modes
    <3>3. <<Cut>> \in Seq(Answer310)
      BY <3>2
    <3> QED
      BY <2>2, <3>1, <3>3, ConcatProperties
  <2> QED
    BY <1>1, <2>1, <2>2
<1>3. faults' \in 0..MaxFaults
  BY CaAssumption DEF TimesOut, CaTypes, CaTypeOK
<1>4. unsure' \in BOOLEAN
  BY <1>1 DEF CaTypes, CaTypeOK
<1> QED
  BY <1>1, <1>2, <1>3, <1>4, HostMoves DEF CaTypes, CaTypeOK

\* A command leaves the line.
LEMMA SentIsTyped ==
  ASSUME CaTypes, asked # <<>>
  PROVE  /\ Head(asked) \in Sent310 /\ Tail(asked) \in Seq(Sent310)
         /\ \A ok \in BOOLEAN, p \in {0} \cup Probes : Reply310(Head(asked), ok, p) \in Answer310
<1>1. Head(asked) \in Sent310 /\ Tail(asked) \in Seq(Sent310)
  BY FirstOf DEF CaTypes
<1>2. PICK c \in Sent310 : c = Head(asked)
  BY <1>1
<1>3. c.op \in {"COM", "SET", "OPR", "MDS", "MES", "cut"} /\ c.tag \in 0..MaxCaCalls /\ mds \in Modes
  BY DEF Sent310, CaTypes, CaTypeOK
<1> QED
  BY <1>1, <1>2, <1>3 DEF Reply310, Answer310

\* The instrument carries out a command.
LEMMA ObeysTypes ==
  ASSUME CaTypes, Obeys PROVE CaTypes'
<1> DEFINE c == Head(asked)
           one == Reply310(c, TRUE, 0)
           all == [k \in 1 .. Cardinality(opr) |-> Reply310(c, TRUE, Ordered(opr)[k])]
<1>1. /\ asked # <<>> /\ asked' = Tail(asked)
      /\ opr' = IF c.op = "OPR" THEN c.probes ELSE opr
      /\ mds' = IF c.op = "MDS" THEN c.mode ELSE mds
      /\ due' = IF c.op = "MES" THEN all ELSE <<one>>
      /\ done' = IF c.tag = caCalls THEN done \cup {c.op} ELSE done
      /\ UNCHANGED <<caPc, fn, PN, mode, script, tries, PNumberFlag, caFifo, readings, returned, caCalls>>
      /\ UNCHANGED <<quiet, unsure, faults>>
  BY DEF Obeys, host
<1>2. /\ c \in Sent310 /\ Tail(asked) \in Seq(Sent310)
      /\ \A p \in {0} \cup Probes : Reply310(c, TRUE, p) \in Answer310
  BY <1>1, SentIsTyped
<1>3. opr \in SUBSET Probes /\ Cardinality(opr) \in Nat
  <2>1. opr \in SUBSET Probes
    BY DEF CaTypes, CaTypeOK
  <2> QED
    BY <2>1, ProbeCounts
<1>4. all \in Seq(Answer310)
  <2>1. Ordered(opr) \in [1 .. Cardinality(opr) -> opr]
    BY <1>3, ProbesInOrder
  <2>2. \A k \in 1 .. Cardinality(opr) : Ordered(opr)[k] \in {0} \cup Probes
    BY <1>3, <2>1
  <2>3. all \in [1 .. Cardinality(opr) -> Answer310]
    BY <1>2, <2>2
  <2> HIDE DEF all
  <2> QED
    BY <1>3, <2>3, IsRun310
<1>5. <<one>> \in Seq(Answer310)
  <2>1. one \in Answer310
    BY <1>2
  <2> HIDE DEF one
  <2> QED
    BY <2>1, OneElement
<1> HIDE DEF c, all, one
<1>6. due' \in Seq(Answer310)
  BY <1>1, <1>4, <1>5
<1>7. /\ opr' \in (SUBSET Probes) \ {{}} /\ mds' \in Modes
      /\ done' \subseteq {"COM", "SET", "OPR", "MDS", "MES"}
  BY <1>1, <1>2 DEF Sent310, CaTypes, CaTypeOK
<1> QED
  BY <1>1, <1>2, <1>6, <1>7 DEF CaTypes, CaTypeOK

\* An answer arrives.
LEMMA AnswersTypes ==
  ASSUME CaTypes, Answers310 PROVE CaTypes'
<1>1. /\ due # <<>> /\ caFifo' = Append(caFifo, Head(due)) /\ due' = Tail(due)
      /\ UNCHANGED <<caPc, fn, PN, mode, script, tries, PNumberFlag, readings, returned, caCalls,
                     asked, opr, mds, done, quiet, unsure, faults>>
  BY DEF Answers310
<1>2. Head(due) \in Answer310 /\ Tail(due) \in Seq(Answer310)
  BY <1>1, FirstOf DEF CaTypes, CaTypeOK
<1>3. caFifo' \in Seq(Answer310)
  BY <1>1, <1>2, AppendProperties DEF CaTypes, CaTypeOK
<1> QED
  BY <1>1, <1>2, <1>3 DEF CaTypes, CaTypeOK

\* The instrument or the line is at fault.
LEMMA FaultTypes ==
  ASSUME CaTypes, Fault PROVE CaTypes'
<1>1. /\ UNCHANGED <<caPc, fn, PN, mode, script, tries, PNumberFlag, caFifo, readings, returned, caCalls>>
      /\ done' = done
  BY DEF Fault, host
<1>2. faults' \in 0..MaxFaults
  BY CaAssumption DEF Fault, CaTypes, CaTypeOK
<1>3. asked' \in Seq(Sent310) /\ due' \in Seq(Answer310)
  <2>1. CASE Refuses
    <3>1. asked # <<>> /\ asked' = Tail(asked) /\ due' = <<Reply310(Head(asked), FALSE, 0)>>
      BY <2>1 DEF Refuses
    <3>2. Reply310(Head(asked), FALSE, 0) \in Answer310 /\ Tail(asked) \in Seq(Sent310)
      BY <3>1, SentIsTyped
    <3>3. <<Reply310(Head(asked), FALSE, 0)>> \in Seq(Answer310)
      BY <3>2, OneElement
    <3> QED
      BY <3>1, <3>2, <3>3
  <2>2. CASE Loses
    <3>1. \/ asked # <<>> /\ asked' = Tail(asked) /\ UNCHANGED due
          \/ due # <<>> /\ due' = Tail(due) /\ UNCHANGED asked
      BY <2>2 DEF Loses
    <3>2. asked \in Seq(Sent310) /\ due \in Seq(Answer310)
      BY DEF CaTypes, CaTypeOK
    <3> QED
      BY <3>1, <3>2, FirstOf
  <2>3. CASE Restarts
    <3>1. asked' = <<>> /\ due' = <<>>
      BY <2>3 DEF Restarts
    <3> QED
      BY <3>1
  <2> QED
    BY <2>1, <2>2, <2>3 DEF Fault
<1>4. /\ opr' \in (SUBSET Probes) \ {{}} /\ mds' \in Modes
      /\ quiet' \in BOOLEAN /\ unsure' \in BOOLEAN
  BY CaAssumption DEF Fault, Refuses, Loses, Restarts, CaTypes, CaTypeOK, Modes
<1> QED
  BY <1>1, <1>2, <1>3, <1>4 DEF CaTypes, CaTypeOK

\* A function is called.
LEMMA CaCallTypes ==
  ASSUME CaTypes, NEW f \in Functions, NEW ps \in (SUBSET Probes) \ {{}}, NEW m \in Modes,
         CaCall(f, ps, m)
  PROVE  CaTypes'
<1>1. Script(f, ps) # <<>>
  BY Scripts
<1>2. <<>> \in Seq(Answer310)
  OBVIOUS
<1>3. /\ caPc' = "send" /\ fn' = f /\ PN' = ps /\ mode' = m /\ caCalls' = caCalls + 1
      /\ caCalls < MaxCaCalls
      /\ script' = Script(f, ps) /\ tries' = 1 /\ readings' = <<>> /\ done' = {} /\ quiet' = TRUE
      /\ UNCHANGED <<PNumberFlag, caFifo, returned, asked, due, opr, mds, unsure, faults>>
  BY DEF CaCall, instrument
<1>4. tries' \in 1..MaxTries /\ caCalls' \in 0..MaxCaCalls
  BY <1>3, CaAssumption DEF CaTypes, CaTypeOK
<1> QED
  BY <1>1, <1>2, <1>3, <1>4 DEF CaTypes, CaTypeOK

\* Every step keeps the types.
LEMMA CaTypesGoOn == CaInv /\ CaTypes /\ [CaNext]_caVars => CaTypes'
<1> SUFFICES ASSUME CaInv, CaTypes, [CaNext]_caVars PROVE CaTypes'
  OBVIOUS
<1>1. CASE UNCHANGED caVars
  BY <1>1 DEF caVars, host, instrument, CaTypes, CaTypeOK
<1>2. CASE \E f \in Functions, ps \in (SUBSET Probes) \ {{}}, m \in Modes : CaCall(f, ps, m)
  BY <1>2, CaCallTypes
<1> QED
  BY <1>1, <1>2, RunTypes, HearsTypes, TimesOutTypes, ObeysTypes, AnswersTypes, FaultTypes
     DEF CaNext, CaHost

\* commonCa310.c: the probes and modes remembered, tried and answered are ones there are.
THEOREM CaTypeCorrect == CaSpec => []CaTypeOK
<1>1. CaInit => CaTypes
  <2> SUFFICES ASSUME CaInit PROVE CaTypes
    OBVIOUS
  <2>1. <<>> \in Seq(Answer310) /\ <<>> \in Seq(Sent310)
    OBVIOUS
  <2>2. /\ 1 \in 1..MaxTries /\ 0 \in 0..MaxCaCalls /\ 0 \in 0..MaxFaults
        /\ {1} \in (SUBSET Probes) \ {{}}
    BY CaAssumption
  <2>3. /\ caPc = "idle" /\ fn = "plain" /\ PN = {1} /\ mode = 0 /\ tries = 1 /\ PNumberFlag = {}
        /\ caFifo = <<>> /\ readings = <<>> /\ returned = "ok" /\ caCalls = 0
        /\ asked = <<>> /\ due = <<>> /\ opr = {1} /\ mds = 0
        /\ done = {} /\ quiet = TRUE /\ unsure = FALSE /\ faults = 0
    BY DEF CaInit
  <2>4. /\ caPc \in {"idle", "send", "await"} /\ fn \in Functions /\ mode \in Modes /\ mds \in Modes
        /\ (caPc # "idle" => script # <<>>) /\ PNumberFlag \subseteq Probes
        /\ returned \in {"ok", "failed"} /\ done \subseteq {"COM", "SET", "OPR", "MDS", "MES"}
        /\ quiet \in BOOLEAN /\ unsure \in BOOLEAN
    BY <2>3 DEF Functions, Modes
  <2> QED
    BY <2>1, <2>2, <2>3, <2>4, Zenon DEF CaTypes, CaTypeOK
<1>2. CaTypes => CaTypeOK
  BY DEF CaTypes
<1> QED
  BY <1>1, <1>2, CaStarts, CaGoesOn, CaTypesGoOn, PTL DEF CaSpec
=============================================================================
