------------------------------- MODULE MyFIFO -------------------------------
(***************************************************************************)
(* skySoftware/src/myFIFO.c: the ring buffer between one writer (a receive *)
(* interrupt, through Write2dev) and one reader (the main loop).           *)
(*                                                                         *)
(* Neither side locks.  myFIFORead and myFIFOWrite are therefore split at  *)
(* every access to what the other side uses: the one reading of in and out *)
(* that settles the length, the copy of each byte, the advance of the      *)
(* caller's own counter.  Any of those steps of one side may fall between  *)
(* two of the other: an interrupt that writes in the middle of a read is   *)
(* one of the interleavings, a thread that is preempted while it writes is *)
(* another.                                                                *)
(*                                                                         *)
(* in and out are unsigned ints: they count modulo Wrap (2^32 in the       *)
(* build) and are reduced to a slot by a mask, which for a power of two is *)
(* the remainder.                                                          *)
(***************************************************************************)
EXTENDS Integers, Sequences

CONSTANTS
  Size,     \* the slots of the buffer, a power of two (myFIFOInit)
  Wrap,     \* the counters' modulus, a larger power of two
  Byte,     \* the byte values
  Zero,     \* the one the buffer is cleared to
  MaxLen    \* the longest string one call moves

ASSUME FifoAssumption ==
  /\ Size \in Nat \ {0}
  /\ \E k \in 0..30 : Size = 2^k
  /\ Wrap \in Nat
  /\ Wrap > Size
  /\ Wrap % Size = 0
  /\ Zero \in Byte
  /\ MaxLen \in Nat \ {0}

VARIABLES
  in, out,      \* how many bytes were ever written and read, modulo Wrap
  buf,          \* the slots
  writing,      \* a myFIFOWrite is in progress
  src,          \* its bytes, clipped to the len it settled on
  wpos,         \* how many of them are copied
  reading,      \* a myFIFORead is in progress
  rlen,         \* the len it settled on
  dst,          \* the bytes it has copied to its caller's buffer
  delivered     \* what the last read that moved any byte returned

writerVars == <<in, buf, writing, src, wpos>>
readerVars == <<out, reading, rlen, dst, delivered>>
vars == <<in, out, buf, writing, src, wpos, reading, rlen, dst, delivered>>

Lesser(a, b) == IF a < b THEN a ELSE b
Strings == UNION {[1..n -> Byte] : n \in 1..MaxLen}

\* fifo_remain_len of the reader: the unread bytes.
Used == (in - out) % Wrap

\* Mutant of Free: one slot too many.
FreeOneMore == (Size + 1 - in + out) % Wrap

\* fifo_remain_len of the writer: the free slots.
Free == (Size - in + out) % Wrap

\* The slot of the k-th byte (from 0) of a transfer of len bytes at counter c:
\* a first memcpy up to the end of the buffer, a second from slot 0.
Slot(c, len, k) ==
  LET l == Lesser(len, Size - (c % Size))
  IN  IF k < l THEN (c % Size) + k ELSE k - l

Init ==
  /\ in = 0 /\ out = 0
  /\ buf = [i \in 0..(Size - 1) |-> Zero]
  /\ writing = FALSE /\ src = <<>> /\ wpos = 0
  /\ reading = FALSE /\ rlen = 0 /\ dst = <<>> /\ delivered = <<>>

-----------------------------------------------------------------------------
\* Mutant of WriteBegin: the string is not clipped to the free slots.
WriteBeginUnclipped(s) ==
  /\ ~writing
  /\ writing' = TRUE
  /\ src' = s
  /\ wpos' = 0
  /\ UNCHANGED <<in, buf, readerVars>>

\* myFIFOWrite(fifo, s, Len(s)) starts: len is clipped to the free slots.
WriteBegin(s) ==
  /\ ~writing
  /\ writing' = TRUE
  /\ src' = SubSeq(s, 1, Lesser(Len(s), Free))
  /\ wpos' = 0
  /\ UNCHANGED <<in, buf, readerVars>>

\* One byte of its memcpys.
WriteCopy ==
  /\ writing /\ wpos < Len(src)
  /\ buf' = [buf EXCEPT ![Slot(in, Len(src), wpos)] = src[wpos + 1]]
  /\ wpos' = wpos + 1
  /\ UNCHANGED <<in, writing, src, readerVars>>

\* in += len, and the return.
WriteEnd ==
  /\ writing /\ wpos = Len(src)
  /\ in' = (in + Len(src)) % Wrap
  /\ writing' = FALSE
  /\ src' = <<>>
  /\ wpos' = 0
  /\ UNCHANGED <<buf, readerVars>>

\* Mutant of ReadBegin: a read that cannot be served in full gets nothing.
ReadBeginAllOrNothing(n) ==
  /\ ~reading
  /\ reading' = TRUE
  /\ rlen' = IF n <= Used THEN n ELSE 0
  /\ dst' = <<>>
  /\ UNCHANGED <<out, delivered, writerVars>>

\* myFIFORead(fifo, dst, n) starts: len is clipped to the unread bytes.
ReadBegin(n) ==
  /\ ~reading
  /\ reading' = TRUE
  /\ rlen' = Lesser(n, Used)
  /\ dst' = <<>>
  /\ UNCHANGED <<out, delivered, writerVars>>

\* One byte of its memcpys.
ReadCopy ==
  /\ reading /\ Len(dst) < rlen
  /\ dst' = Append(dst, buf[Slot(out, rlen, Len(dst))])
  /\ UNCHANGED <<out, reading, rlen, delivered, writerVars>>

\* Mutant of ReadEnd: the reader catches up with in as it is now, and not as it
\* was when the length was settled.
ReadEndCatchesUp ==
  /\ reading /\ Len(dst) = rlen
  /\ out' = in
  /\ reading' = FALSE
  /\ rlen' = 0
  /\ dst' = <<>>
  /\ delivered' = IF rlen = 0 THEN delivered ELSE dst
  /\ UNCHANGED writerVars

\* out += len, and the return of len bytes.
ReadEnd ==
  /\ reading /\ Len(dst) = rlen
  /\ out' = (out + rlen) % Wrap
  /\ reading' = FALSE
  /\ rlen' = 0
  /\ dst' = <<>>
  /\ delivered' = IF rlen = 0 THEN delivered ELSE dst
  /\ UNCHANGED writerVars

Write == (\E s \in Strings : WriteBegin(s)) \/ WriteCopy \/ WriteEnd
Read == (\E n \in 1..MaxLen : ReadBegin(n)) \/ ReadCopy \/ ReadEnd

Next == Write \/ Read

Spec == Init /\ [][Next]_vars

\* The main loop reads the FIFO over and over; bytes need never arrive.
FairSpec == Spec /\ WF_vars(Read)

-----------------------------------------------------------------------------
\* The k-th byte (from 0) after counter c lives in this slot.
Cell(c, k) == (c + k) % Size

\* Every variable holds a value of its C type.
TypeOK ==
  /\ in \in 0..(Wrap - 1) /\ out \in 0..(Wrap - 1)
  /\ buf \in [0..(Size - 1) -> Byte]
  /\ writing \in BOOLEAN /\ src \in Seq(Byte) /\ wpos \in 0..Len(src)
  /\ reading \in BOOLEAN /\ rlen \in 0..MaxLen /\ dst \in Seq(Byte)
  /\ delivered \in Seq(Byte)

\* The writer's view: it never holds more bytes than there are free slots, and
\* what it has copied so far waits, in order, behind the unread bytes.
WriterInv ==
  /\ ~writing => src = <<>>
  /\ Used + Len(src) <= Size
  /\ \A k \in 0..(wpos - 1) : buf[Cell(in, k)] = src[k + 1]

\* The reader's view (myFIFO.c:60-66 against a write in between): it moves no
\* more bytes than are unread, and what it has copied so far is exactly the
\* oldest unread bytes, however many writes ran meanwhile.
ReaderInv ==
  /\ ~reading => rlen = 0
  /\ rlen <= Used /\ Len(dst) <= rlen
  /\ \A k \in 0..(Len(dst) - 1) : dst[k + 1] = buf[Cell(out, k)]

Inv == WriterInv /\ ReaderInv

\* No step of either side changes a byte that was accepted and not yet read:
\* a write into a nearly full buffer drops the new bytes, never the old ones.
UnreadKept ==
  [][\A k \in 0..(Size - 1) :
        k < Used => buf'[Cell(out, k)] = buf[Cell(out, k)]]_vars

\* A main loop that keeps reading always gets the oldest byte out: the buffer
\* does not stay stuck, full or not, whatever the counters have wrapped to.
ReaderProgress ==
  \A c \in 0..(Wrap - 1) : (out = c /\ Used > 0) ~> (out # c)

-----------------------------------------------------------------------------
\* The ring buffer implements the abstract queue.
Unread == [k \in 1..Used |-> buf[Cell(out, k - 1)]]

Queue == INSTANCE BoundedQueue WITH
  Cap <- Size, queue <- Unread, put <- src, get <- rlen, result <- delivered

\* What the writer put in comes out in order, complete but for what found the
\* buffer full, whatever the interleaving of the two sides.
ImplementsQueue == Queue!Spec
=============================================================================
