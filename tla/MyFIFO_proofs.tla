--------------------------- MODULE MyFIFO_proofs ---------------------------
(***************************************************************************)
(* What holds of the ring buffer for every power-of-two size, every larger *)
(* counter modulus and every byte set.                                     *)
(*                                                                         *)
(* The argument: Used and Free, read from counters that wrap, are the true *)
(* numbers of unread and free bytes as long as Used <= Size; then a        *)
(* transfer touches the cells its counter names, and the writer's cells    *)
(* (behind the unread bytes) are never the reader's.                       *)
(***************************************************************************)
EXTENDS MyFIFO, Lemmas

Counter == 0..(Wrap - 1)

\* What the assumption says of the FIFO's length and of the counters' width.
LEMMA Constants ==
  /\ Size \in Nat \ {0}
  /\ Wrap \in Nat \ {0}
  /\ Size < Wrap
  BY FifoAssumption

\* The distance between two counters is the number of steps between them,
\* wrapped or not.
LEMMA Distance ==
  ASSUME NEW i \in Counter, NEW o \in Counter
  PROVE  /\ (i - o) % Wrap \in Counter
         /\ i = o + ((i - o) % Wrap) \/ i = o + ((i - o) % Wrap) - Wrap
<1>1. i - o \in 0..(Wrap - 1) \/ i - o \in (0 - Wrap)..(0 - 1)
  BY Constants DEF Counter
<1>2. (i - o) % Wrap = i - o \/ (i - o) % Wrap = i - o + Wrap
  BY <1>1, Constants, NearRemainder
<1>3. (i - o) % Wrap \in Counter
  BY Constants, RemainderRange DEF Counter
<1>4. QED
  BY <1>2, <1>3, Constants DEF Counter

\* It is the only number of steps that leads from one to the other.
LEMMA DistanceUnique ==
  ASSUME NEW i \in Counter, NEW o \in Counter, NEW d \in Counter,
         i = o + d \/ i = o + d - Wrap
  PROVE  (i - o) % Wrap = d
<1>1. PICK e \in Counter : e = (i - o) % Wrap /\ (i = o + e \/ i = o + e - Wrap)
  BY Distance
<1>2. QED
  BY <1>1, Constants DEF Counter

\* A counter that advances lands at the sum, wrapped or not.
LEMMA Advance ==
  ASSUME NEW c \in Counter, NEW n \in Counter
  PROVE  /\ (c + n) % Wrap \in Counter
         /\ (c + n) % Wrap = c + n \/ (c + n) % Wrap = c + n - Wrap
<1>1. PICK a \in Int : a = c + n
  BY Constants DEF Counter
<1>2. a \in 0..(Wrap - 1) \/ a \in Wrap..(Wrap + Wrap - 1)
  BY <1>1, Constants DEF Counter
<1>3. a % Wrap = a \/ a % Wrap = a - Wrap
  BY <1>2, Constants, NearRemainder
<1>4. a % Wrap \in Counter
  BY Constants, RemainderRange DEF Counter
<1>5. QED
  BY <1>1, <1>3, <1>4, Constants DEF Counter

\* An advance of the writer's counter adds to the distance.
LEMMA DistanceAfterWrite ==
  ASSUME NEW i \in Counter, NEW o \in Counter, NEW n \in Counter,
         ((i - o) % Wrap) + n < Wrap
  PROVE  (((i + n) % Wrap) - o) % Wrap = ((i - o) % Wrap) + n
<1>1. PICK d \in Counter : d = (i - o) % Wrap /\ (i = o + d \/ i = o + d - Wrap)
  BY Distance
<1>2. PICK j \in Counter : j = (i + n) % Wrap /\ (j = i + n \/ j = i + n - Wrap)
  BY Advance
<1>3. d + n \in Counter /\ (j = o + (d + n) \/ j = o + (d + n) - Wrap)
  BY <1>1, <1>2, Constants DEF Counter
<1>4. (j - o) % Wrap = d + n
  BY <1>3, DistanceUnique
<1>5. QED
  BY <1>1, <1>2, <1>4

\* An advance of the reader's counter takes from it.
LEMMA DistanceAfterRead ==
  ASSUME NEW i \in Counter, NEW o \in Counter, NEW n \in Counter,
         n <= (i - o) % Wrap
  PROVE  (i - ((o + n) % Wrap)) % Wrap = ((i - o) % Wrap) - n
<1>1. PICK d \in Counter : d = (i - o) % Wrap /\ (i = o + d \/ i = o + d - Wrap)
  BY Distance
<1>2. PICK p \in Counter : p = (o + n) % Wrap /\ (p = o + n \/ p = o + n - Wrap)
  BY Advance
<1>3. d - n \in Counter /\ (i = p + (d - n) \/ i = p + (d - n) - Wrap)
  BY <1>1, <1>2, Constants DEF Counter
<1>4. (i - p) % Wrap = d - n
  BY <1>3, DistanceUnique
<1>5. QED
  BY <1>1, <1>2, <1>4

\* Free is what is left of Size.
LEMMA FreeIsRest ==
  ASSUME NEW i \in Counter, NEW o \in Counter, (i - o) % Wrap <= Size
  PROVE  (Size - i + o) % Wrap = Size - ((i - o) % Wrap)
<1>1. PICK d \in Counter : d = (i - o) % Wrap /\ (i = o + d \/ i = o + d - Wrap)
  BY Distance
<1>2. Size - d \in 0..(Wrap - 1) /\ d <= Size
  BY <1>1, Constants DEF Counter
<1>3. PICK a \in Int : a = Size - i + o
  BY Constants DEF Counter
<1>4. a = Size - d \/ a = Size - d + Wrap
  BY <1>1, <1>3, Constants DEF Counter
<1>5. a % Wrap = Size - d
  <2>1. /\ a \in 0..(Wrap - 1) => a % Wrap = a
        /\ a \in Wrap..(Wrap + Wrap - 1) => a % Wrap = a - Wrap
    BY Constants, NearRemainder
  <2>2. QED
    BY <1>2, <1>4, <2>1, Constants DEF Counter
<1>7. QED
  BY <1>1, <1>3, <1>5

\* A cell is a slot of the buffer.
LEMMA CellRange ==
  ASSUME NEW c \in Counter, NEW k \in Nat
  PROVE  Cell(c, k) \in 0..(Size - 1)
<1>1. c + k \in Int
  BY DEF Counter
<1>2. QED
  BY <1>1, Constants, RemainderRange DEF Cell

\* The two memcpys of a transfer that fits touch the cells of its counter.
LEMMA SlotIsCell ==
  ASSUME NEW c \in Counter, NEW len \in 0..Size, NEW k \in 0..(len - 1)
  PROVE  Slot(c, len, k) = Cell(c, k)
<1>1. PICK r \in 0..(Size - 1) : r = c % Size
  BY Constants, RemainderRange DEF Counter
<1>2. (c + k) % Size = (r + k) % Size
  <2>1. c \in Int /\ k \in Int
    BY Constants DEF Counter
  <2>2. ((c % Size) + k) % Size = (c + k) % Size
    BY <2>1, Constants, RemainderAdd
  <2>3. QED
    BY <1>1, <2>2
<1>3. PICK a \in Int : a = r + k
  BY Constants
<1>4. a % Size = IF a < Size THEN a ELSE a - Size
  <2>1. /\ a \in 0..(Size - 1) => a % Size = a
        /\ a \in Size..(Size + Size - 1) => a % Size = a - Size
    BY Constants, NearRemainder
  <2>2. QED
    BY <1>3, <2>1, Constants
<1>5. Slot(c, len, k) = IF r + k < Size THEN r + k ELSE r + k - Size
  BY <1>1, Constants DEF Slot, Lesser
<1>6. QED
  BY <1>2, <1>3, <1>4, <1>5, Constants DEF Cell, Counter

\* The cells ahead of an advanced counter are those further ahead of it before.
LEMMA CellAfterAdvance ==
  ASSUME NEW c \in Counter, NEW n \in Counter, NEW k \in Nat
  PROVE  Cell((c + n) % Wrap, k) = Cell(c, n + k)
<1>1. c + n \in Int /\ (c + n) % Wrap \in Int /\ c + n + k \in Int
  BY Advance DEF Counter
<1>2. PICK r \in Int : r = (c + n) % Wrap
  BY <1>1
<1>3. ((r % Size) + k) % Size = (r + k) % Size
  <2>1. k \in Int /\ Size \in Nat \ {0}
    BY Constants
  <2>2. QED
    BY <2>1, RemainderAdd
<1>4. r % Size = (c + n) % Size
  <2>1. Wrap % Size = 0
    BY FifoAssumption
  <2>2. QED
    BY <1>1, <1>2, <2>1, Constants, RemainderOfRemainder
<1>5. (((c + n) % Size) + k) % Size = (c + n + k) % Size
  BY <1>1, Constants, RemainderAdd
<1>6. c + n + k = c + (n + k)
  BY DEF Counter
<1>7. QED
  BY <1>2, <1>3, <1>4, <1>5, <1>6 DEF Cell

\* Two cells less than Size apart are different slots.
LEMMA CellDistinct ==
  ASSUME NEW c \in Counter, NEW j \in Nat, NEW k \in Nat,
         j < k, k < j + Size
  PROVE  Cell(c, j) # Cell(c, k)
<1>1. PICK a \in Int : a = c + j
  BY DEF Counter
<1>2. k - j \in 1..(Size - 1) /\ c + k = a + (k - j)
  BY <1>1, Constants DEF Counter
<1>3. (a + (k - j)) % Size # a % Size
  BY <1>2, Constants, RemainderDistinct
<1>4. QED
  BY <1>1, <1>2, <1>3 DEF Cell

\* The writer's cells lie behind the unread ones.
LEMMA WriterCell ==
  ASSUME NEW i \in Counter, NEW o \in Counter, NEW k \in Nat
  PROVE  Cell(i, k) = Cell(o, ((i - o) % Wrap) + k)
<1>1. PICK d \in Counter : d = (i - o) % Wrap /\ (i = o + d \/ i = o + d - Wrap)
  BY Distance
<1>2. (o + d) % Wrap = i
  <2>1. PICK j \in Counter : j = (o + d) % Wrap /\ (j = o + d \/ j = o + d - Wrap)
    BY Advance
  <2>2. QED
    BY <1>1, <2>1, Constants DEF Counter
<1>3. Cell((o + d) % Wrap, k) = Cell(o, d + k)
  BY CellAfterAdvance
<1>4. QED
  BY <1>1, <1>2, <1>3
-----------------------------------------------------------------------------
\* The strings a caller hands over are sequences of bytes.
LEMMA StringsAreSequences ==
  ASSUME NEW s \in Strings
  PROVE  s \in Seq(Byte) /\ Len(s) \in 1..MaxLen
<1>1. PICK n \in 1..MaxLen : s \in [1..n -> Byte]
  BY DEF Strings
<1>2. n \in Nat
  BY FifoAssumption
<1>3. s \in Seq(Byte)
  BY <1>1, <1>2, SeqDef
<1>4. Len(s) = n
  BY <1>1, <1>2, <1>3, LenProperties
<1>5. QED
  BY <1>3, <1>4

\* The inductive invariant: the types, and the two sides' views.
IInv == TypeOK /\ Inv

\* What the lemmas above say of the program's own counters.
LEMMA UsedFacts ==
  ASSUME TypeOK, Inv
  PROVE  /\ in \in Counter /\ out \in Counter
         /\ Used \in 0..Size
         /\ Free = Size - Used
         /\ Len(src) \in 0..(Size - Used)
         /\ rlen \in 0..Used
         /\ Len(dst) \in 0..rlen
<1>1. in \in Counter /\ out \in Counter
  BY DEF TypeOK, Counter
<1>2. Used \in Counter
  BY <1>1, Distance DEF Used
<1>3. Len(src) \in Nat /\ Len(dst) \in Nat /\ rlen \in Nat
  BY LenProperties, FifoAssumption DEF TypeOK
<1>4. Used + Len(src) <= Size /\ rlen <= Used /\ Len(dst) <= rlen
  BY DEF Inv, WriterInv, ReaderInv
<1>5. Used <= Size
  BY <1>2, <1>3, <1>4, Constants DEF Counter
<1>6. Free = Size - Used
  BY <1>1, <1>5, FreeIsRest DEF Free, Used
<1>7. QED
  BY <1>1, <1>2, <1>3, <1>4, <1>5, <1>6, Constants DEF Counter

\* The invariant holds in the FIFO as it is declared.
LEMMA InitIInv == Init => IInv
<1> SUFFICES ASSUME Init
             PROVE  IInv
  OBVIOUS
<1>1. 0 \in Counter
  BY Constants DEF Counter
<1>2. Used = 0
  BY <1>1, DistanceUnique, Constants DEF Init, Used
<1>3. TypeOK
  BY FifoAssumption, Constants DEF Init, TypeOK
<1>4. WriterInv
  BY <1>2, Constants DEF Init, WriterInv
<1>5. ReaderInv
  BY <1>2, Constants DEF Init, ReaderInv
<1>6. QED
  BY <1>3, <1>4, <1>5 DEF IInv, Inv

\* A write begins.
LEMMA WriteBeginIInv ==
  ASSUME IInv, NEW s \in Strings, WriteBegin(s)
  PROVE  IInv'
<1> USE DEF IInv, Inv
<1>1. s \in Seq(Byte) /\ Len(s) \in Nat
  BY StringsAreSequences, FifoAssumption
<1>2. Used \in 0..Size /\ Free = Size - Used
  BY UsedFacts
<1>3. PICK n \in 0..(Size - Used) : n = Lesser(Len(s), Free) /\ n <= Len(s)
  BY <1>1, <1>2, Constants DEF Lesser
<1>4. src' \in Seq(Byte) /\ Len(src') = n
  BY <1>1, <1>3, SubSeqProperties DEF WriteBegin
<1>5. Used' = Used
  BY DEF Used, WriteBegin, readerVars
<1>6. TypeOK'
  BY <1>3, <1>4 DEF WriteBegin, TypeOK, readerVars
<1>7. WriterInv'
  BY <1>2, <1>3, <1>4, <1>5, Constants DEF WriteBegin, WriterInv
<1>8. ReaderInv'
  BY <1>5 DEF WriteBegin, ReaderInv, readerVars, Cell
<1>9. QED
  BY <1>6, <1>7, <1>8

\* The one step that changes the buffer changes a cell behind the unread bytes.
LEMMA WriteCopyCell ==
  ASSUME IInv, WriteCopy
  PROVE  /\ wpos \in 0..(Len(src) - 1)
         /\ buf' = [buf EXCEPT ![Cell(in, wpos)] = src[wpos + 1]]
         /\ Cell(in, wpos) \in 0..(Size - 1)
         /\ \A k \in 0..(wpos - 1) : Cell(in, k) # Cell(in, wpos)
         /\ \A k \in 0..(Size - 1) : k < Used => Cell(out, k) # Cell(in, wpos)
<1> USE DEF IInv
<1>1. /\ in \in Counter /\ out \in Counter
      /\ Used \in 0..Size /\ Len(src) \in 0..(Size - Used)
  BY UsedFacts
<1>2. wpos \in 0..(Len(src) - 1)
  BY <1>1, Constants DEF WriteCopy, TypeOK
<1>3. Slot(in, Len(src), wpos) = Cell(in, wpos)
  BY <1>1, <1>2, SlotIsCell, Constants
<1>4. Cell(in, wpos) \in 0..(Size - 1)
  <2>1. wpos \in Nat
    BY <1>1, <1>2, Constants
  <2>2. QED
    BY <1>1, <2>1, CellRange
<1>5. ASSUME NEW k \in 0..(wpos - 1)
      PROVE  Cell(in, k) # Cell(in, wpos)
  BY <1>1, <1>2, CellDistinct, Constants
<1>6. ASSUME NEW k \in 0..(Size - 1), k < Used
      PROVE  Cell(out, k) # Cell(in, wpos)
  <2>1. Cell(in, wpos) = Cell(out, Used + wpos)
    BY <1>1, <1>2, WriterCell DEF Used
  <2>2. k < Used + wpos /\ Used + wpos < k + Size /\ Used + wpos \in Nat /\ k \in Nat
    BY <1>1, <1>2, <1>6, Constants
  <2>3. QED
    BY <1>1, <2>1, <2>2, CellDistinct
<1>7. QED
  BY <1>2, <1>3, <1>4, <1>5, <1>6 DEF WriteCopy

\* A byte is copied into the FIFO.
LEMMA WriteCopyIInv ==
  ASSUME IInv, WriteCopy
  PROVE  IInv'
<1> USE DEF IInv, Inv
<1>1. /\ Used \in 0..Size /\ Len(src) \in 0..(Size - Used)
      /\ rlen \in 0..Used /\ Len(dst) \in 0..rlen
  BY UsedFacts
<1>2. /\ wpos \in 0..(Len(src) - 1)
      /\ buf' = [buf EXCEPT ![Cell(in, wpos)] = src[wpos + 1]]
      /\ Cell(in, wpos) \in 0..(Size - 1)
      /\ \A k \in 0..(wpos - 1) : Cell(in, k) # Cell(in, wpos)
      /\ \A k \in 0..(Size - 1) : k < Used => Cell(out, k) # Cell(in, wpos)
  BY WriteCopyCell
<1>3. src[wpos + 1] \in Byte
  BY <1>1, <1>2, ElementOfSeq, Constants DEF TypeOK
<1>4. /\ in' = in /\ out' = out /\ src' = src /\ rlen' = rlen /\ dst' = dst
      /\ writing' = writing /\ reading' = reading /\ delivered' = delivered
      /\ wpos' = wpos + 1 /\ writing
  BY DEF WriteCopy, readerVars
<1>5. Used' = Used
  BY <1>4 DEF Used
<1>6. TypeOK'
  BY <1>1, <1>2, <1>3, <1>4, Constants DEF TypeOK
<1>7. WriterInv'
  <2>1. ASSUME NEW k \in 0..(wpos' - 1)
        PROVE  buf'[Cell(in, k)] = src[k + 1]
    <3>1. CASE k = wpos
      BY <1>2, <3>1 DEF TypeOK
    <3>2. CASE k # wpos
      <4>1. k \in 0..(wpos - 1)
        BY <1>1, <1>2, <1>4, <3>2, Constants
      <4>2. buf[Cell(in, k)] = src[k + 1]
        BY <4>1 DEF WriterInv
      <4>3. Cell(in, k) \in 0..(Size - 1)
        BY <4>1, CellRange, UsedFacts
      <4>4. QED
        BY <1>2, <4>1, <4>2, <4>3 DEF TypeOK
    <3>3. QED
      BY <3>1, <3>2
  <2>2. QED
    BY <1>4, <1>5, <2>1 DEF WriterInv, Cell
<1>8. ReaderInv'
  <2>1. ASSUME NEW k \in 0..(Len(dst) - 1)
        PROVE  dst[k + 1] = buf'[Cell(out, k)]
    <3>1. k \in 0..(Size - 1) /\ k < Used /\ k \in Nat
      BY <1>1, Constants
    <3>2. dst[k + 1] = buf[Cell(out, k)]
      BY DEF ReaderInv
    <3>3. Cell(out, k) \in 0..(Size - 1)
      BY <3>1, CellRange, UsedFacts
    <3>4. QED
      BY <1>2, <3>1, <3>2, <3>3 DEF TypeOK
  <2>2. QED
    BY <1>4, <1>5, <2>1 DEF ReaderInv, Cell
<1>9. QED
  BY <1>6, <1>7, <1>8

\* A write ends.
LEMMA WriteEndIInv ==
  ASSUME IInv, WriteEnd
  PROVE  IInv'
<1> USE DEF IInv, Inv
<1>1. /\ in \in Counter /\ out \in Counter
      /\ Used \in 0..Size /\ Len(src) \in 0..(Size - Used)
      /\ rlen \in 0..Used /\ Len(dst) \in 0..rlen
  BY UsedFacts
<1>2. Len(src) \in Counter /\ Used + Len(src) < Wrap
  BY <1>1, Constants DEF Counter
<1>3. in' \in Counter /\ Used' = Used + Len(src)
  BY <1>1, <1>2, Advance, DistanceAfterWrite DEF WriteEnd, Used, readerVars
<1>4. src' = <<>> /\ Len(src') = 0 /\ wpos' = 0
  BY DEF WriteEnd
<1>5. TypeOK'
  <2>1. in' \in 0..(Wrap - 1) /\ src' \in Seq(Byte) /\ wpos' \in 0..Len(src')
    BY <1>3, <1>4 DEF Counter
  <2>2. /\ out' = out /\ buf' = buf /\ rlen' = rlen /\ dst' = dst
        /\ reading' = reading /\ delivered' = delivered /\ writing' = FALSE
    BY DEF WriteEnd, readerVars
  <2>3. QED
    BY <2>1, <2>2 DEF TypeOK
<1>6. WriterInv'
  BY <1>1, <1>3, <1>4, Constants DEF WriterInv
<1>7. ReaderInv'
  BY <1>1, <1>3, Constants DEF WriteEnd, ReaderInv, readerVars, Cell
<1>8. QED
  BY <1>5, <1>6, <1>7

\* A read begins.
LEMMA ReadBeginIInv ==
  ASSUME IInv, NEW n \in 1..MaxLen, ReadBegin(n)
  PROVE  IInv'
<1> USE DEF IInv, Inv
<1>1. Used \in 0..Size
  BY UsedFacts
<1>2. rlen' \in 0..MaxLen /\ rlen' <= Used
  BY <1>1, FifoAssumption DEF ReadBegin, Lesser
<1>3. Used' = Used
  BY DEF Used, ReadBegin, writerVars
<1>4. dst' = <<>> /\ Len(dst') = 0
  BY DEF ReadBegin
<1>5. TypeOK'
  BY <1>2, <1>4 DEF ReadBegin, TypeOK, writerVars
<1>6. WriterInv'
  BY <1>3 DEF ReadBegin, WriterInv, writerVars, Cell
<1>7. ReaderInv'
  BY <1>2, <1>3, <1>4 DEF ReadBegin, ReaderInv
<1>8. QED
  BY <1>5, <1>6, <1>7

\* A read copies the oldest unread byte it has not copied yet.
LEMMA ReadCopyIInv ==
  ASSUME IInv, ReadCopy
  PROVE  IInv'
<1> USE DEF IInv, Inv
<1>1. /\ in \in Counter /\ out \in Counter
      /\ Used \in 0..Size /\ rlen \in 0..Used /\ Len(dst) \in 0..rlen
  BY UsedFacts
<1>2. Len(dst) \in 0..(rlen - 1)
  BY <1>1, Constants DEF ReadCopy
<1>3. Slot(out, rlen, Len(dst)) = Cell(out, Len(dst))
  BY <1>1, <1>2, SlotIsCell, Constants
<1>4. Cell(out, Len(dst)) \in 0..(Size - 1)
  BY <1>1, CellRange
<1>5. buf[Cell(out, Len(dst))] \in Byte
  BY <1>4 DEF TypeOK
<1>6. dst' = Append(dst, buf[Cell(out, Len(dst))])
  BY <1>3 DEF ReadCopy
<1>7. /\ dst' \in Seq(Byte) /\ Len(dst') = Len(dst) + 1
      /\ \A i \in 1..Len(dst) : dst'[i] = dst[i]
      /\ dst'[Len(dst) + 1] = buf[Cell(out, Len(dst))]
  BY <1>5, <1>6, AppendProperties DEF TypeOK
<1>8. Used' = Used
  BY DEF Used, ReadCopy, writerVars
<1>9. TypeOK'
  BY <1>7 DEF ReadCopy, TypeOK, writerVars
<1>10. WriterInv'
  BY <1>8 DEF ReadCopy, WriterInv, writerVars, Cell
<1>11. ReaderInv'
  <2>1. ASSUME NEW k \in 0..(Len(dst') - 1)
        PROVE  dst'[k + 1] = buf[Cell(out, k)]
    BY <1>1, <1>7, Constants DEF ReaderInv
  <2>2. Len(dst') <= rlen
    BY <1>1, <1>2, <1>7, Constants
  <2>3. QED
    BY <1>1, <1>8, <2>1, <2>2 DEF ReadCopy, ReaderInv, writerVars, Cell
<1>12. QED
  BY <1>9, <1>10, <1>11

\* A read ends.
LEMMA ReadEndIInv ==
  ASSUME IInv, ReadEnd
  PROVE  IInv'
<1> USE DEF IInv, Inv
<1>1. /\ in \in Counter /\ out \in Counter
      /\ Used \in 0..Size /\ Len(src) \in 0..(Size - Used)
      /\ rlen \in 0..Used
  BY UsedFacts
<1>2. rlen \in Counter
  BY <1>1, Constants DEF Counter
<1>3. out' \in Counter /\ Used' = Used - rlen
  BY <1>1, <1>2, Advance, DistanceAfterRead DEF ReadEnd, Used, writerVars
<1>4. rlen' = 0 /\ dst' = <<>> /\ Len(dst') = 0
  BY DEF ReadEnd
<1>5. TypeOK'
  <2>1. out' \in 0..(Wrap - 1) /\ rlen' \in 0..MaxLen /\ dst' \in Seq(Byte)
    BY <1>3, <1>4, FifoAssumption DEF Counter
  <2>2. delivered' \in Seq(Byte) /\ reading' = FALSE
    BY DEF ReadEnd, TypeOK
  <2>3. /\ in' = in /\ buf' = buf /\ src' = src /\ wpos' = wpos
        /\ writing' = writing
    BY DEF ReadEnd, writerVars
  <2>4. QED
    BY <2>1, <2>2, <2>3 DEF TypeOK
<1>6. WriterInv'
  BY <1>1, <1>3, Constants DEF ReadEnd, WriterInv, writerVars, Cell
<1>7. ReaderInv'
  BY <1>1, <1>3, <1>4, Constants DEF ReaderInv
<1>8. QED
  BY <1>5, <1>6, <1>7

\* Every step keeps the invariant.
LEMMA NextIInv == IInv /\ [Next]_vars => IInv'
<1> SUFFICES ASSUME IInv, [Next]_vars
             PROVE  IInv'
  OBVIOUS
<1>1. ASSUME NEW s \in Strings, WriteBegin(s) PROVE IInv'
  BY <1>1, WriteBeginIInv
<1>2. CASE WriteCopy
  BY <1>2, WriteCopyIInv
<1>3. CASE WriteEnd
  BY <1>3, WriteEndIInv
<1>4. ASSUME NEW n \in 1..MaxLen, ReadBegin(n) PROVE IInv'
  BY <1>4, ReadBeginIInv
<1>5. CASE ReadCopy
  BY <1>5, ReadCopyIInv
<1>6. CASE ReadEnd
  BY <1>6, ReadEndIInv
<1>7. CASE UNCHANGED vars
  BY <1>7 DEF vars, IInv, Inv, TypeOK, WriterInv, ReaderInv, Used, Cell
<1>8. QED
  BY <1>1, <1>2, <1>3, <1>4, <1>5, <1>6, <1>7 DEF Next, Write, Read

-----------------------------------------------------------------------------
\* Every variable keeps its type, the counters included, however often they
\* wrap.
THEOREM TypeCorrect == Spec => []TypeOK
<1>1. Spec => []IInv
  BY InitIInv, NextIInv, PTL DEF Spec
<1>2. IInv => TypeOK
  BY DEF IInv
<1>3. QED
  BY <1>1, <1>2, PTL

\* myFIFO.c:54-93: at every point of every interleaving the writer's bytes fit
\* the free slots and the reader's copy is the oldest unread bytes.
THEOREM SidesAgree == Spec => []Inv
<1>1. Spec => []IInv
  BY InitIInv, NextIInv, PTL DEF Spec
<1>2. IInv => Inv
  BY DEF IInv
<1>3. QED
  BY <1>1, <1>2, PTL

\* myFIFO.c:84-90: no write ever disturbs a byte accepted and not yet read.
THEOREM NothingOverwritten == Spec => UnreadKept
<1> DEFINE Kept == \A k \in 0..(Size - 1) :
                     k < Used => buf'[Cell(out, k)] = buf[Cell(out, k)]
<1>1. Spec => []IInv
  BY InitIInv, NextIInv, PTL DEF Spec
<1>2. IInv /\ [Next]_vars => [Kept]_vars
  <2> SUFFICES ASSUME IInv, Next
               PROVE  Kept
    BY DEF vars
  <2>1. CASE WriteCopy
    <3>1. SUFFICES ASSUME NEW k \in 0..(Size - 1), k < Used
                   PROVE  buf'[Cell(out, k)] = buf[Cell(out, k)]
      OBVIOUS
    <3>2. /\ buf' = [buf EXCEPT ![Cell(in, wpos)] = src[wpos + 1]]
          /\ Cell(out, k) # Cell(in, wpos)
      BY <2>1, <3>1, WriteCopyCell
    <3>3. Cell(out, k) \in 0..(Size - 1)
      <4>1. out \in Counter /\ k \in Nat
        BY UsedFacts, Constants DEF IInv
      <4>2. QED
        BY <4>1, CellRange
    <3>4. QED
      BY <3>2, <3>3 DEF IInv, TypeOK
  <2>2. CASE buf' = buf
    BY <2>2
  <2>3. QED
    BY <2>1, <2>2
       DEF Next, Write, Read, WriteBegin, WriteEnd, ReadBegin, ReadCopy, ReadEnd,
           writerVars
<1>3. QED
  BY <1>1, <1>2, PTL DEF Spec, UnreadKept

-----------------------------------------------------------------------------
(***************************************************************************)
(* The ring buffer implements the queue of module BoundedQueue: the copy   *)
(* of a byte is no step of the queue, all others are.                      *)
(***************************************************************************)

\* A function on an initial interval is a sequence of that length.
LEMMA FunctionIsSequence ==
  ASSUME NEW S, NEW n \in Nat, NEW f \in [1..n -> S]
  PROVE  f \in Seq(S) /\ Len(f) = n
<1>1. f \in Seq(S)
  BY SeqDef
<1>2. QED
  BY <1>1, LenProperties

\* The queue the buffer stands for holds the unread bytes.
UnreadIs ==
  /\ Unread \in Seq(Byte) /\ Len(Unread) = Used
  /\ \A k \in 1..Used : Unread[k] = buf[Cell(out, k - 1)]

\* In a state of the invariant, the bytes between the counters are the queue, ...
LEMMA UnreadIsQueue == IInv => UnreadIs
<1> SUFFICES ASSUME IInv PROVE UnreadIs
  OBVIOUS
<1>1. out \in Counter /\ Used \in 0..Size
  BY UsedFacts DEF IInv
<1>2. ASSUME NEW k \in 1..Used PROVE buf[Cell(out, k - 1)] \in Byte
  <2>1. k - 1 \in Nat
    BY <1>1, Constants
  <2>2. Cell(out, k - 1) \in 0..(Size - 1)
    BY <1>1, <2>1, CellRange
  <2>3. QED
    BY <2>2 DEF IInv, TypeOK
<1>3. Unread \in [1..Used -> Byte]
  BY <1>2 DEF Unread
<1>4. Used \in Nat
  BY <1>1, Constants
<1>5. QED
  BY <1>3, <1>4, FunctionIsSequence DEF Unread, UnreadIs

\* ... and also in the state that follows.
LEMMA UnreadStaysQueue == IInv' => UnreadIs'
BY UnreadIsQueue, PTL

\* An empty buffer is the empty queue.
LEMMA InitRefines == ASSUME Init PROVE Queue!Init
<1>1. IInv
  BY InitIInv
<1>2. Used = 0
  <2>1. 0 \in Counter
    BY Constants DEF Counter
  <2>2. QED
    BY <2>1, DistanceUnique, Constants DEF Init, Used
<1>3. Unread = <<>>
  BY <1>1, <1>2, UnreadIsQueue, EmptySeq DEF UnreadIs
<1>4. QED
  BY <1>3 DEF Init, Queue!Init

\* A write settles its length as a put does, and does not touch what is unread.
LEMMA WriteBeginRefines ==
  ASSUME IInv, NEW s \in Strings, WriteBegin(s)
  PROVE  Queue!BeginPut(s)
<1>1. Used \in 0..Size /\ Free = Size - Used /\ Len(Unread) = Used
  BY UsedFacts, UnreadIsQueue DEF IInv, UnreadIs
<1>2. src = <<>>
  BY DEF IInv, Inv, WriterInv, WriteBegin
<1>3. src' = SubSeq(s, 1, Queue!Lesser(Len(s), Size - Len(Unread)))
  BY <1>1 DEF WriteBegin, Lesser, Queue!Lesser
<1>4. Unread' = Unread
  BY DEF WriteBegin, readerVars, Unread, Used, Cell
<1>5. QED
  BY <1>2, <1>3, <1>4 DEF WriteBegin, readerVars, Queue!BeginPut

\* A byte copied behind the unread ones is not in the queue yet.
LEMMA WriteCopyRefines ==
  ASSUME IInv, WriteCopy
  PROVE  UNCHANGED Queue!vars
<1>1. out \in Counter /\ Used \in 0..Size
  BY UsedFacts DEF IInv
<1>2. Used' = Used /\ UNCHANGED <<src, rlen, delivered, out>>
  BY DEF WriteCopy, readerVars, Used
<1>3. ASSUME NEW k \in 1..Used
      PROVE  buf'[Cell(out, k - 1)] = buf[Cell(out, k - 1)]
  <2>1. k - 1 \in 0..(Size - 1) /\ k - 1 < Used /\ k - 1 \in Nat
    BY <1>1, Constants
  <2>2. Cell(out, k - 1) # Cell(in, wpos)
    BY <2>1, WriteCopyCell
  <2>3. Cell(out, k - 1) \in 0..(Size - 1)
    BY <1>1, <2>1, CellRange
  <2>4. QED
    BY <2>2, <2>3, WriteCopyCell DEF IInv, TypeOK
<1>4. Unread' = [k \in 1..Used |-> buf'[Cell(out, k - 1)]]
  BY <1>2 DEF Unread, Cell
<1>5. Unread' = Unread
  BY <1>3, <1>4 DEF Unread
<1>6. QED
  BY <1>2, <1>5 DEF Queue!vars

\* The end of a write puts its bytes behind the unread ones.
LEMMA WriteEndRefines ==
  ASSUME IInv, WriteEnd
  PROVE  Queue!EndPut \/ UNCHANGED Queue!vars
<1>1. /\ in \in Counter /\ out \in Counter
      /\ Used \in 0..Size /\ Len(src) \in 0..(Size - Used) /\ src \in Seq(Byte)
  BY UsedFacts DEF IInv, TypeOK
<1>2. Len(src) \in Counter /\ Used + Len(src) < Wrap
  BY <1>1, Constants DEF Counter
<1>3. Used' = Used + Len(src)
  BY <1>1, <1>2, DistanceAfterWrite DEF WriteEnd, Used, readerVars
<1>4. UNCHANGED <<rlen, delivered, out, buf>> /\ src' = <<>> /\ wpos = Len(src)
  BY DEF WriteEnd, readerVars
<1>5. Unread' \in Seq(Byte) /\ Len(Unread') = Used'
      /\ \A k \in 1..Used' : Unread'[k] = buf[Cell(out, k - 1)]
  <2>1. IInv'
    BY WriteEndIInv
  <2>2. QED
    BY <1>4, <2>1, UnreadStaysQueue DEF UnreadIs, Cell
<1>6. Unread \in Seq(Byte) /\ Len(Unread) = Used
      /\ \A k \in 1..Used : Unread[k] = buf[Cell(out, k - 1)]
  BY UnreadIsQueue DEF UnreadIs
<1>7. ASSUME NEW k \in 1..(Used + Len(src))
      PROVE  Unread'[k] = (Unread \o src)[k]
  <2>1. CASE k <= Used
    <3>1. (Unread \o src)[k] = Unread[k]
      BY <1>1, <1>6, <2>1, ConcatProperties
    <3>2. QED
      BY <1>1, <1>3, <1>5, <1>6, <2>1, <3>1
  <2>2. CASE ~(k <= Used)
    <3>1. PICK j \in 0..(Len(src) - 1) : k = Used + j + 1
      BY <1>1, <2>2, Constants
    <3>2. (Unread \o src)[k] = src[j + 1]
      BY <1>1, <1>6, <3>1, ConcatProperties
    <3>3. buf[Cell(in, j)] = src[j + 1]
      BY <1>4, <3>1 DEF IInv, Inv, WriterInv
    <3>4. Cell(in, j) = Cell(out, Used + j)
      BY <1>1, <3>1, WriterCell DEF Used
    <3>5. k - 1 = Used + j
      BY <1>1, <3>1
    <3>6. QED
      BY <1>3, <1>5, <3>2, <3>3, <3>4, <3>5
  <2>3. QED
    BY <2>1, <2>2
<1>8. Unread' = Unread \o src
  <2>1. Unread \o src \in Seq(Byte) /\ Len(Unread \o src) = Used + Len(src)
    BY <1>1, <1>6, ConcatProperties
  <2>2. QED
    BY <1>3, <1>5, <1>7, <2>1, SeqEqual
<1>9. CASE src = <<>>
  <2>1. Unread' = Unread
    BY <1>6, <1>8, <1>9, ConcatEmptySeq
  <2>2. QED
    BY <1>4, <1>9, <2>1 DEF Queue!vars
<1>10. CASE src # <<>>
  BY <1>4, <1>8, <1>10 DEF Queue!EndPut
<1>11. QED
  BY <1>9, <1>10

\* A read settles its length as a get does.
LEMMA ReadBeginRefines ==
  ASSUME IInv, NEW n \in 1..MaxLen, ReadBegin(n)
  PROVE  Queue!BeginGet(n)
<1>1. Len(Unread) = Used
  BY UnreadIsQueue DEF UnreadIs
<1>2. rlen = 0
  BY DEF IInv, Inv, ReaderInv, ReadBegin
<1>3. rlen' = Queue!Lesser(n, Len(Unread))
  BY <1>1 DEF ReadBegin, Lesser, Queue!Lesser
<1>4. Unread' = Unread
  BY DEF ReadBegin, writerVars, Unread, Used, Cell
<1>5. QED
  BY <1>2, <1>3, <1>4 DEF ReadBegin, writerVars, Queue!BeginGet

\* A byte that is copied out is still in the queue: that is a stutter.
LEMMA ReadCopyRefines ==
  ASSUME ReadCopy PROVE UNCHANGED Queue!vars
BY DEF ReadCopy, writerVars, Unread, Used, Cell, Queue!vars

\* The end of a read takes the oldest bytes out and hands them over.
LEMMA ReadEndRefines ==
  ASSUME IInv, ReadEnd
  PROVE  Queue!EndGet \/ UNCHANGED Queue!vars
<1>1. /\ in \in Counter /\ out \in Counter
      /\ Used \in 0..Size /\ rlen \in 0..Used /\ dst \in Seq(Byte) /\ Len(dst) = rlen
  BY UsedFacts DEF IInv, TypeOK, ReadEnd
<1>2. rlen \in Counter /\ rlen \in Nat
  BY <1>1, Constants DEF Counter
<1>3. Used' = Used - rlen
  BY <1>1, <1>2, DistanceAfterRead DEF ReadEnd, Used, writerVars
<1>4. /\ UNCHANGED <<in, buf, src>> /\ rlen' = 0 /\ out' = (out + rlen) % Wrap
      /\ delivered' = IF rlen = 0 THEN delivered ELSE dst
  BY DEF ReadEnd, writerVars
<1>5. Unread \in Seq(Byte) /\ Len(Unread) = Used
      /\ \A k \in 1..Used : Unread[k] = buf[Cell(out, k - 1)]
  BY UnreadIsQueue DEF UnreadIs
<1>6. Unread' \in Seq(Byte) /\ Len(Unread') = Used'
      /\ \A k \in 1..Used' : Unread'[k] = buf[Cell(out', k - 1)]
  <2>1. IInv'
    BY ReadEndIInv
  <2>2. QED
    BY <1>4, <2>1, UnreadStaysQueue DEF UnreadIs, Cell
<1>7. ASSUME NEW k \in 1..(Used - rlen)
      PROVE  Unread'[k] = Unread[rlen + k]
  <2>1. k - 1 \in Nat /\ rlen + k \in 1..Used /\ (rlen + k) - 1 = rlen + (k - 1)
    BY <1>1, Constants
  <2>2. Cell(out', k - 1) = Cell(out, rlen + (k - 1))
    BY <1>1, <1>2, <1>4, <2>1, CellAfterAdvance
  <2>3. Unread[rlen + k] = buf[Cell(out, (rlen + k) - 1)]
    BY <1>5, <2>1
  <2>4. QED
    BY <1>3, <1>6, <2>1, <2>2, <2>3
<1>8. dst = SubSeq(Unread, 1, rlen)
  <2>1. \A i \in 1..rlen : Unread[i] \in Byte
    BY <1>1, <1>5, ElementOfSeq, Constants
  <2>2. /\ SubSeq(Unread, 1, rlen) \in Seq(Byte) /\ Len(SubSeq(Unread, 1, rlen)) = rlen
        /\ \A i \in 1..rlen : SubSeq(Unread, 1, rlen)[i] = Unread[i]
    BY <1>2, <2>1, SubSeqProperties
  <2>3. ASSUME NEW i \in 1..rlen PROVE dst[i] = Unread[i]
    <3>1. i - 1 \in 0..(Len(dst) - 1) /\ (i - 1) + 1 = i
      BY <1>1, <1>2
    <3>2. dst[(i - 1) + 1] = buf[Cell(out, i - 1)]
      BY <3>1 DEF IInv, Inv, ReaderInv
    <3>3. i \in 1..Used
      BY <1>1, Constants
    <3>4. QED
      BY <1>5, <3>1, <3>2, <3>3
  <2>4. QED
    BY <1>1, <2>2, <2>3, SeqEqual
<1>9. Unread' = SubSeq(Unread, rlen + 1, Used)
  <2>1. \A i \in (rlen + 1)..Used : Unread[i] \in Byte
    BY <1>1, <1>5, ElementOfSeq, Constants
  <2>2. rlen + 1 \in Int /\ Used \in Int
    BY <1>1, Constants
  <2>3. /\ SubSeq(Unread, rlen + 1, Used) \in Seq(Byte)
        /\ Len(SubSeq(Unread, rlen + 1, Used)) = Used - rlen
        /\ \A i \in 1..(Used - rlen) : SubSeq(Unread, rlen + 1, Used)[i] = Unread[rlen + i]
    <3>1. /\ SubSeq(Unread, rlen + 1, Used) \in Seq(Byte)
          /\ Len(SubSeq(Unread, rlen + 1, Used))
               = IF rlen + 1 <= Used THEN Used - (rlen + 1) + 1 ELSE 0
          /\ \A i \in 1..(Used - (rlen + 1) + 1) :
               SubSeq(Unread, rlen + 1, Used)[i] = Unread[(rlen + 1) + i - 1]
      BY <2>1, <2>2, SubSeqProperties
    <3>2. QED
      BY <1>1, <3>1, Constants
  <2>4. QED
    BY <1>3, <1>6, <1>7, <2>3, SeqEqual
<1>10. CASE rlen = 0
  <2>1. Unread' = Unread
    BY <1>5, <1>9, <1>10, SubSeqFull
  <2>2. QED
    BY <1>4, <1>10, <2>1 DEF Queue!vars
<1>11. CASE rlen # 0
  <2>1. delivered' = SubSeq(Unread, 1, rlen) /\ Unread' = SubSeq(Unread, rlen + 1, Len(Unread))
    BY <1>4, <1>5, <1>8, <1>9, <1>11
  <2>2. QED
    BY <1>4, <1>11, <2>1 DEF Queue!EndGet
<1>12. QED
  BY <1>10, <1>11

\* Every step is a step of the queue, or a stutter.
LEMMA NextRefines ==
  ASSUME IInv, [Next]_vars
  PROVE  [Queue!Next]_Queue!vars
<1>1. ASSUME NEW s \in Strings, WriteBegin(s) PROVE Queue!Next
  <2>1. s \in Queue!Strings /\ Queue!BeginPut(s)
    BY <1>1, WriteBeginRefines DEF Strings, Queue!Strings
  <2>2. QED
    BY <2>1 DEF Queue!Next
<1>2. CASE WriteCopy
  BY <1>2, WriteCopyRefines
<1>3. CASE WriteEnd
  BY <1>3, WriteEndRefines DEF Queue!Next
<1>4. ASSUME NEW n \in 1..MaxLen, ReadBegin(n) PROVE Queue!Next
  BY <1>4, ReadBeginRefines DEF Queue!Next
<1>5. CASE ReadCopy
  BY <1>5, ReadCopyRefines
<1>6. CASE ReadEnd
  BY <1>6, ReadEndRefines DEF Queue!Next
<1>7. CASE UNCHANGED vars
  BY <1>7 DEF vars, Queue!vars, Unread, Used, Cell
<1>8. QED
  BY <1>1, <1>2, <1>3, <1>4, <1>5, <1>6, <1>7 DEF Next, Write, Read

\* myFIFO.c: whatever the interleaving of its reader and its writer, the ring
\* buffer is a bounded first-in first-out queue of which a transfer takes effect
\* at its end.
THEOREM FifoIsAQueue == Spec => ImplementsQueue
<1>1. Spec => []IInv
  BY InitIInv, NextIInv, PTL DEF Spec
<1>2. Init => Queue!Init
  BY InitRefines
<1>3. IInv /\ [Next]_vars => [Queue!Next]_Queue!vars
  BY NextRefines
<1>4. QED
  BY <1>1, <1>2, <1>3, PTL DEF Spec, ImplementsQueue, Queue!Spec
=============================================================================
