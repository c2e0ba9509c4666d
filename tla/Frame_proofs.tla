--------------------------- MODULE Frame_proofs ---------------------------
(***************************************************************************)
(* What holds of the frame receiver for every byte width, buffer length    *)
(* and timeout, on an arbitrary line (to SilencesRestart), and of the      *)
(* senders and the receiver together (FramesArrive, CutOffsAreDropped).    *)
(*                                                                         *)
(* The second part needs what the checksum computes, which is recursive:   *)
(* Sums are the values on the way, and the least number without them is a  *)
(* contradiction.                                                          *)
(***************************************************************************)
EXTENDS FrameLink, Lemmas

\* Bytes add up to a length.
LEMMA LenFieldType ==
  ASSUME NEW f \in Seq(Byte), Len(f) >= 6
  PROVE  LenField(f) \in Nat
<1>1. B \in Nat
  BY ReceiveAssumption
<1>2. f[3] \in Nat /\ f[4] \in Nat /\ f[5] \in Nat /\ f[6] \in Nat
  BY <1>1, ElementOfSeq, LenProperties DEF Byte
<1>3. ASSUME NEW x \in Nat, NEW y \in Nat
      PROVE  x + B * y \in Nat
  BY <1>1
<1>4. f[5] + B * f[6] \in Nat
  BY <1>2, <1>3
<1>5. f[4] + B * (f[5] + B * f[6]) \in Nat
  BY <1>2, <1>3, <1>4
<1>6. QED
  BY <1>2, <1>3, <1>5 DEF LenField

\* One more byte leaves the length field alone once it is complete.
LEMMA LenFieldAppend ==
  ASSUME NEW f \in Seq(Byte), NEW c \in Byte, Len(f) >= 6
  PROVE  LenField(Append(f, c)) = LenField(f)
<1>1. \A i \in 1..6 : Append(f, c)[i] = f[i]
  BY AppendProperties, LenProperties
<1>2. QED
  BY <1>1 DEF LenField

\* The clock's reading of a pause is exact, or one short when it wrapped.
LEMMA MeasuredPause ==
  ASSUME NEW old \in 0..(ClockW - 1), NEW gap \in 0..(ClockW - 1)
  PROVE  /\ (old + gap) % ClockW \in 0..(ClockW - 1)
         /\ MeasureTime((old + gap) % ClockW, old) \in {gap, gap - 1}
<1>1. ClockW \in Nat \ {0}
  BY ReceiveAssumption
<1>2. PICK a \in Int : a = old + gap
  BY <1>1
<1>3. /\ a \in 0..(ClockW - 1) => a % ClockW = a
      /\ a \in ClockW..(ClockW + ClockW - 1) => a % ClockW = a - ClockW
  BY <1>1, NearRemainder
<1>4. QED
  BY <1>1, <1>2, <1>3 DEF MeasureTime
-----------------------------------------------------------------------------
\* Where a history worth comparing stands: it is what the buffer holds, and it
\* is still being received, accepted, or complete and not a frame.
CleanInv ==
  clean =>
    /\ heard = data /\ Viable(heard)
    /\ \/ saveFlag \in {1, 2, 3}
       \/ /\ Len(heard) >= 6 /\ Len(heard) = LenField(heard) + 8
          /\ ~WellFormed(heard)

\* The inductive invariant.
IInv ==
  /\ TypeOK /\ Progress /\ AcceptedIsWellFormed /\ HeldIsComplete
  /\ CleanInv

\* The invariant holds at first.
LEMMA InitIInv == Init => IInv
<1> SUFFICES ASSUME Init
             PROVE  IInv
  OBVIOUS
<1>1. TypeOK
  <2>1. /\ saveFlag \in 0..3 /\ data \in Seq(Byte) /\ Len(data) <= MaxLen
        /\ dataLen \in Nat /\ oldTime \in 0..(ClockW - 1) /\ heard \in Seq(Byte)
    BY ReceiveAssumption DEF Init
  <2>2. holding \in BOOLEAN /\ clean \in BOOLEAN
    BY DEF Init
  <2>3. QED
    BY <2>1, <2>2 DEF TypeOK
<1>2. Progress /\ AcceptedIsWellFormed /\ HeldIsComplete /\ CleanInv
  BY DEF Init, Progress, AcceptedIsWellFormed, HeldIsComplete, CleanInv
<1>3. QED
  BY <1>1, <1>2 DEF IInv

\* One byte into the header.
LEMMA HeaderStep ==
  ASSUME TypeOK, Progress, saveFlag = 1, NEW c \in Byte, Header(c)
  PROVE  /\ data' = Append(data, c) /\ data' \in Seq(Byte)
         /\ Len(data') = Len(data) + 1 /\ Len(data') \in 2..6
         /\ data'[1] = StartC
         /\ dataLen' \in Nat
         /\ \/ saveFlag' = 1 /\ Len(data') < 6
            \/ /\ saveFlag' = 2 /\ Len(data') = 6
               /\ dataLen' = LenField(data') /\ Fits(data')
            \/ saveFlag' = 0 /\ Len(data') = 6 /\ ~Fits(data')
<1>1. data # <<>> /\ data[1] = StartC /\ Len(data) < 6 /\ Len(data) \in Nat \ {0}
  BY EmptySeq, LenProperties DEF Progress, TypeOK
<1>2. data' = Append(data, c)
  BY DEF Header
<1>3. /\ data' \in Seq(Byte) /\ Len(data') = Len(data) + 1
      /\ data'[1] = data[1]
  BY <1>1, <1>2, AppendProperties DEF TypeOK
<1>4. CASE Len(data) + 1 < 6
  BY <1>1, <1>2, <1>3, <1>4 DEF Header, TypeOK
<1>5. CASE Len(data) + 1 >= 6
  <2>1. Len(data') = 6 /\ dataLen' = LenField(data')
    BY <1>1, <1>3, <1>5 DEF Header
  <2>2. dataLen' \in Nat
    <3>1. Len(data') >= 6
      BY <2>1
    <3>2. QED
      BY <1>3, <2>1, <3>1, LenFieldType
  <2>3. \/ saveFlag' = 2 /\ Fits(data')
        \/ saveFlag' = 0 /\ ~Fits(data')
    BY <1>1, <1>5, <2>1, <2>2, ReceiveAssumption DEF Header, Fits
  <2>4. QED
    BY <1>1, <1>2, <1>3, <2>1, <2>2, <2>3
<1>6. QED
  BY <1>1, <1>4, <1>5

\* One byte into the payload.
LEMMA PayloadStep ==
  ASSUME TypeOK, Progress, saveFlag = 2, NEW c \in Byte, Payload(c)
  PROVE  /\ data' = Append(data, c) /\ data' \in Seq(Byte)
         /\ Len(data') = Len(data) + 1 /\ Len(data') \in 7..MaxLen
         /\ data'[1] = StartC
         /\ dataLen' = dataLen /\ dataLen = LenField(data') /\ Fits(data')
         /\ \/ saveFlag' = 2 /\ Len(data') < dataLen + 8
            \/ /\ saveFlag' = 3 /\ WellFormed(data')
            \/ saveFlag' = 0 /\ Len(data') = dataLen + 8 /\ ~WellFormed(data')
<1>1. /\ data # <<>> /\ data[1] = StartC /\ Len(data) >= 6 /\ dataLen = LenField(data)
      /\ Fits(data) /\ Len(data) < dataLen + 8
  BY DEF Progress
<1>2. data' = Append(data, c) /\ dataLen' = dataLen
  BY DEF Payload
<1>3. data \in Seq(Byte) /\ Len(data) \in Nat /\ dataLen \in Nat
  BY LenProperties DEF TypeOK
<1>4. /\ data' \in Seq(Byte) /\ Len(data') = Len(data) + 1
      /\ data'[1] = data[1]
  BY <1>1, <1>2, <1>3, AppendProperties
<1>5. LenField(data') = LenField(data)
  BY <1>1, <1>2, <1>3, LenFieldAppend
<1>6. Fits(data') /\ dataLen <= MaxLen - 10
  BY <1>1, <1>5 DEF Fits
<1>7. Len(data') \in 7..MaxLen
  BY <1>1, <1>3, <1>4, <1>6, ReceiveAssumption
<1>8. CASE Len(data) + 1 < dataLen + 8
  BY <1>1, <1>2, <1>3, <1>4, <1>5, <1>6, <1>7, <1>8 DEF Payload
<1>9. CASE Len(data) + 1 >= dataLen + 8
  <2>1. Len(data') = dataLen + 8 /\ dataLen = LenField(data')
    BY <1>1, <1>3, <1>4, <1>5, <1>9
  <2>2. Len(data') - 2 = dataLen + 6 /\ Len(data') - 1 = dataLen + 7 /\ Len(data') >= 8
    BY <1>3, <2>1
  <2>3. WellFormed(data') <=> /\ Checksum(data', dataLen + 6) = data'[dataLen + 7]
                              /\ data'[dataLen + 8] = EndC
    BY <1>1, <1>4, <1>6, <2>1, <2>2 DEF WellFormed
  <2>4. \/ saveFlag' = 3 /\ WellFormed(data')
        \/ saveFlag' = 0 /\ ~WellFormed(data')
    BY <1>3, <1>9, <2>3 DEF Payload
  <2>5. QED
    BY <1>1, <1>2, <1>4, <1>5, <1>6, <1>7, <2>1, <2>4
<1>10. QED
  BY <1>3, <1>8, <1>9

\* What one byte does, whatever the clock says, to all but the history.
LEMMA ReceiveStep ==
  ASSUME TypeOK, Progress, AcceptedIsWellFormed, NEW c \in Byte, NEW gap \in Gaps,
         Receive(c, gap)
  PROVE  /\ saveFlag' \in 0..3
         /\ data' \in Seq(Byte) /\ Len(data') <= MaxLen
         /\ dataLen' \in Nat /\ oldTime' \in 0..(ClockW - 1)
         /\ Progress' /\ AcceptedIsWellFormed'
         /\ saveFlag = 3 => saveFlag' = 3
<1>1. oldTime \in 0..(ClockW - 1) /\ gap \in 0..(ClockW - 1)
  BY ReceiveAssumption DEF TypeOK
<1>2. oldTime' \in 0..(ClockW - 1)
  BY <1>1, MeasuredPause DEF Receive
<1>3. PICK flag \in {0, saveFlag} :
        /\ saveFlag = 3 => flag = 3
        /\ \/ flag = 0 /\ AwaitStart(c)
           \/ flag = 1 /\ Header(c)
           \/ flag = 2 /\ Payload(c)
           \/ flag = 3 /\ UNCHANGED <<saveFlag, data, dataLen>>
  BY DEF Receive, Restarted
<1>4. CASE flag = 0 /\ AwaitStart(c)
  <2>1. \/ saveFlag' = 1 /\ data' = <<c>> /\ c = StartC
        \/ saveFlag' = 0 /\ data' = data
    BY <1>4 DEF AwaitStart
  <2>2. dataLen' = dataLen
    BY <1>4 DEF AwaitStart
  <2>3. CASE saveFlag' = 1 /\ data' = <<c>> /\ c = StartC
    <3>1. data' \in Seq(Byte) /\ Len(data') = 1 /\ data' # <<>> /\ data'[1] = StartC
      BY <2>3
    <3>2. QED
      BY <1>2, <1>3, <1>4, <2>2, <2>3, <3>1, ReceiveAssumption
         DEF Progress, AcceptedIsWellFormed, TypeOK
  <2>4. CASE saveFlag' = 0 /\ data' = data
    BY <1>2, <1>3, <1>4, <2>2, <2>4 DEF Progress, AcceptedIsWellFormed, TypeOK
  <2>5. QED
    BY <2>1, <2>3, <2>4
<1>5. CASE flag = 1 /\ Header(c)
  <2>1. saveFlag = 1
    BY <1>3, <1>5
  <2>2. /\ data' \in Seq(Byte) /\ Len(data') \in 2..6 /\ data'[1] = StartC
        /\ dataLen' \in Nat
        /\ \/ saveFlag' = 1 /\ Len(data') < 6
           \/ /\ saveFlag' = 2 /\ Len(data') = 6
              /\ dataLen' = LenField(data') /\ Fits(data')
           \/ saveFlag' = 0 /\ Len(data') = 6 /\ ~Fits(data')
    BY <1>5, <2>1, HeaderStep
  <2>3. data' # <<>> /\ Len(data') \in 0..6
    BY <2>2
  <2>4. Len(data') <= MaxLen
    <3>1. MaxLen \in Nat /\ MaxLen >= 10
      BY ReceiveAssumption
    <3>2. ASSUME NEW n \in 0..6
          PROVE  n <= MaxLen
      BY <3>1
    <3>3. QED
      BY <2>3, <3>2
  <2>5. Progress'
    <3>1. saveFlag' = 1 => Len(data') < 6
      BY <2>2
    <3>2. saveFlag' = 2 => /\ Len(data') >= 6 /\ dataLen' = LenField(data')
                           /\ Fits(data') /\ Len(data') < dataLen' + 8
      <4>1. ASSUME NEW n \in Nat
            PROVE  6 < n + 8 /\ 6 >= 6
        OBVIOUS
      <4>2. ASSUME saveFlag' = 2
            PROVE  /\ Len(data') = 6 /\ dataLen' = LenField(data')
                   /\ Fits(data') /\ dataLen' \in Nat
        BY <2>2, <4>2
      <4>3. QED
        BY <4>1, <4>2
    <3>3. QED
      BY <2>2, <2>3, <3>1, <3>2 DEF Progress, Fits
  <2>6. QED
    BY <1>2, <2>1, <2>2, <2>4, <2>5 DEF AcceptedIsWellFormed
<1>6. CASE flag = 2 /\ Payload(c)
  <2>1. saveFlag = 2
    BY <1>3, <1>6
  <2>2. /\ data' \in Seq(Byte) /\ Len(data') \in 7..MaxLen /\ data'[1] = StartC
        /\ dataLen' = dataLen /\ dataLen = LenField(data') /\ Fits(data')
        /\ \/ saveFlag' = 2 /\ Len(data') < dataLen + 8
           \/ /\ saveFlag' = 3 /\ WellFormed(data')
           \/ saveFlag' = 0 /\ Len(data') = dataLen + 8 /\ ~WellFormed(data')
    BY <1>6, <2>1, PayloadStep
  <2>3. data' # <<>>
    BY <2>2
  <2>4. Len(data') <= MaxLen /\ dataLen' \in Nat
    BY <2>2, ReceiveAssumption DEF TypeOK
  <2>5. Progress'
    BY <2>2, <2>3, ReceiveAssumption DEF Progress, Fits
  <2>6. AcceptedIsWellFormed'
    BY <2>2 DEF AcceptedIsWellFormed, WellFormed, Fits
  <2>7. QED
    BY <1>2, <2>1, <2>2, <2>4, <2>5, <2>6
<1>7. CASE flag = 3 /\ UNCHANGED <<saveFlag, data, dataLen>>
  BY <1>2, <1>7 DEF TypeOK, Progress, AcceptedIsWellFormed, WellFormed, Fits
<1>8. QED
  BY <1>3, <1>4, <1>5, <1>6, <1>7

\* What it does to the history.
LEMMA ListenStep ==
  ASSUME IInv, NEW c \in Byte, NEW gap \in Gaps, Receive(c, gap), Listen(c, gap)
  PROVE  /\ heard' \in Seq(Byte) /\ clean' \in BOOLEAN
         /\ CleanInv'
<1> DEFINE more == IF gap > Timeout + 1 THEN <<c>> ELSE Append(heard, c)
<1> USE DEF IInv
<1>1. oldTime \in 0..(ClockW - 1) /\ gap \in 0..(ClockW - 1) /\ Timeout \in Nat
  BY ReceiveAssumption DEF TypeOK
<1>2. PICK t \in {gap, gap - 1} :
        \/ Restarted(t) = 0 /\ AwaitStart(c)
        \/ Restarted(t) = 1 /\ Header(c)
        \/ Restarted(t) = 2 /\ Payload(c)
        \/ Restarted(t) = 3 /\ UNCHANGED <<saveFlag, data, dataLen>>
  BY <1>1, MeasuredPause DEF Receive
<1>3. more \in Seq(Byte)
  BY AppendProperties DEF TypeOK
<1>4. CASE ~clean'
  <2>1. clean' = FALSE /\ heard' = <<>>
    BY <1>4 DEF Listen
  <2>2. heard' \in Seq(Byte)
    BY <2>1
  <2>3. QED
    BY <2>1, <2>2 DEF CleanInv
<1>5. CASE clean'
  <2>1. /\ clean' = TRUE /\ heard' = more
        /\ saveFlag # 3
        /\ gap > Timeout + 1 \/ (clean /\ gap <= Timeout)
        /\ Viable(more)
    BY <1>5 DEF Listen
  <2>2. CASE gap > Timeout + 1
    <3>1. more = <<c>> /\ c = StartC
      BY <2>1, <2>2 DEF Viable
    <3>2. Restarted(t) = 0
      BY <1>1, <1>2, <2>1, <2>2, ReceiveAssumption DEF Restarted
    <3>3. saveFlag' = 1 /\ data' = <<c>>
      BY <1>2, <3>1, <3>2 DEF AwaitStart
    <3>4. CleanInv'
      BY <2>1, <3>1, <3>3 DEF CleanInv, Viable, Fits
    <3>5. QED
      BY <1>3, <2>1, <3>4
  <2>3. CASE ~(gap > Timeout + 1)
    <3>1. clean /\ gap <= Timeout /\ more = Append(heard, c)
      BY <2>1, <2>3
    <3>2. Restarted(t) = saveFlag
      BY <1>1, <1>2, <3>1, ReceiveAssumption DEF Restarted
    <3>3. /\ heard = data /\ Viable(heard)
          /\ \/ saveFlag \in {1, 2, 3}
             \/ Len(heard) >= 6 /\ Len(heard) = LenField(heard) + 8
      BY <3>1 DEF CleanInv
    <3>4. saveFlag \in {1, 2}
      <4>1. SUFFICES ASSUME Len(heard) >= 6, Len(heard) = LenField(heard) + 8
                     PROVE  FALSE
        BY <2>1, <3>3
      <4>2. LenField(more) = LenField(heard) /\ Len(more) = Len(heard) + 1
        BY <3>1, <4>1, LenFieldAppend, AppendProperties DEF TypeOK
      <4>3. Len(heard) \in Nat /\ LenField(heard) \in Nat
        BY <4>1, LenFieldType, LenProperties DEF TypeOK
      <4>4. QED
        BY <2>1, <4>1, <4>2, <4>3 DEF Viable
    <3>5. CASE saveFlag = 1
      <4>1. Header(c)
        BY <1>2, <3>2, <3>5 DEF TypeOK
      <4>2. /\ data' = Append(data, c)
            /\ saveFlag' \in {1, 2} \/ (Len(data') = 6 /\ ~Fits(data'))
        BY <3>5, <4>1, HeaderStep
      <4>3. data' = more
        BY <3>1, <3>3, <4>2
      <4>4. saveFlag' \in {1, 2}
        BY <2>1, <4>2, <4>3 DEF Viable
      <4>5. heard' = data' /\ Viable(heard)'
        BY <2>1, <4>3 DEF Viable, Fits
      <4>6. QED
        BY <1>3, <2>1, <4>4, <4>5 DEF CleanInv
    <3>6. CASE saveFlag = 2
      <4>1. Payload(c)
        BY <1>2, <3>2, <3>6 DEF TypeOK
      <4>2. /\ data' = Append(data, c) /\ dataLen = LenField(data')
            /\ Len(data') \in 7..MaxLen
            /\ \/ saveFlag' \in {2, 3}
               \/ Len(data') = dataLen + 8 /\ ~WellFormed(data')
        BY <3>6, <4>1, PayloadStep
      <4>3. data' = more
        BY <3>1, <3>3, <4>2
      <4>4. heard' = data' /\ Viable(heard)'
        BY <2>1, <4>3 DEF Viable, Fits
      <4>5. \/ saveFlag' \in {1, 2, 3}
            \/ /\ Len(heard') >= 6 /\ Len(heard') = LenField(heard') + 8
               /\ ~WellFormed(heard')
        BY <4>2, <4>4, ReceiveAssumption
      <4>6. CleanInv'
        BY <4>4, <4>5 DEF CleanInv, WellFormed, Fits
      <4>7. QED
        BY <1>3, <2>1, <4>6
    <3>7. QED
      BY <3>4, <3>5, <3>6
  <2>4. QED
    BY <2>2, <2>3
<1>6. QED
  BY <1>4, <1>5

\* A byte arrives.
LEMMA ArriveIInv ==
  ASSUME IInv, Arrive
  PROVE  IInv'
<1>1. PICK c \in Byte, gap \in Gaps :
        Receive(c, gap) /\ Listen(c, gap) /\ UNCHANGED holding
  BY DEF Arrive
<1>2. /\ saveFlag' \in 0..3
      /\ data' \in Seq(Byte) /\ Len(data') <= MaxLen
      /\ dataLen' \in Nat /\ oldTime' \in 0..(ClockW - 1)
      /\ Progress' /\ AcceptedIsWellFormed'
      /\ saveFlag = 3 => saveFlag' = 3
  BY <1>1, ReceiveStep DEF IInv
<1>3. heard' \in Seq(Byte) /\ clean' \in BOOLEAN /\ CleanInv'
  BY <1>1, ListenStep
<1>4. holding' = holding
  BY <1>1
<1>5. TypeOK'
  BY <1>2, <1>3, <1>4 DEF IInv, TypeOK
<1>6. HeldIsComplete'
  BY <1>2, <1>4 DEF IInv, HeldIsComplete
<1>7. QED
  BY <1>2, <1>3, <1>5, <1>6 DEF IInv

\* Clearing the flag, by either of the main loop's two ways.
LEMMA ClearIInv ==
  ASSUME IInv, saveFlag' = 0, holding' = FALSE, heard' = <<>>, clean' = FALSE,
         UNCHANGED <<data, dataLen, oldTime>>
  PROVE  IInv'
<1>1. /\ saveFlag' \in 0..3 /\ data' \in Seq(Byte) /\ Len(data') <= MaxLen
      /\ dataLen' \in Nat /\ oldTime' \in 0..(ClockW - 1) /\ heard' \in Seq(Byte)
  BY DEF IInv, TypeOK
<1>2. TypeOK'
  BY <1>1 DEF TypeOK
<1>3. Progress' /\ AcceptedIsWellFormed' /\ HeldIsComplete' /\ CleanInv'
  BY DEF Progress, AcceptedIsWellFormed, HeldIsComplete, CleanInv
<1>4. QED
  BY <1>2, <1>3 DEF IInv

\* Every step keeps the invariant.
LEMMA NextIInv == IInv /\ [Next]_vars => IInv'
<1> SUFFICES ASSUME IInv, [Next]_vars
             PROVE  IInv'
  OBVIOUS
<1>1. CASE Arrive
  BY <1>1, ArriveIInv
<1>2. CASE Take
  <2>1. /\ UNCHANGED <<saveFlag, data, dataLen, oldTime, heard, clean>>
        /\ holding' = TRUE /\ saveFlag = 3
    BY <1>2 DEF Take, rxVars
  <2>2. QED
    BY <2>1 DEF IInv, TypeOK, Progress, AcceptedIsWellFormed, HeldIsComplete,
                CleanInv, WellFormed, Fits, Viable
<1>3. CASE Release
  BY <1>3, ClearIInv DEF Release
<1>4. CASE Discard
  <2>1. holding' = FALSE
    BY <1>4 DEF Discard, IInv, TypeOK
  <2>2. QED
    BY <1>4, <2>1, ClearIInv DEF Discard
<1>5. CASE UNCHANGED vars
  BY <1>5 DEF vars, IInv, TypeOK, Progress, AcceptedIsWellFormed, HeldIsComplete,
              CleanInv, WellFormed, Fits, Viable
<1>6. QED
  BY <1>1, <1>2, <1>3, <1>4, <1>5 DEF Next

\* The invariant holds in every state.
LEMMA SpecIInv == Spec => []IInv
  BY InitIInv, NextIInv, PTL DEF Spec

-----------------------------------------------------------------------------
\* Whatever bytes arrive and whenever, the receiver writes inside its buffer
\* and every variable keeps its type.
THEOREM TypeCorrect == Spec => []TypeOK
<1>1. IInv => TypeOK
  BY DEF IInv
<1>2. QED
  BY <1>1, SpecIInv, PTL

\* communication.c:92-153: what is handed over as a frame is a frame.
THEOREM FramesAreFrames == Spec => []AcceptedIsWellFormed
<1>1. IInv => AcceptedIsWellFormed
  BY DEF IInv
<1>2. QED
  BY <1>1, SpecIInv, PTL

\* communication.c:99-103: a well-formed frame after a silence is accepted,
\* whatever came before the silence.
THEOREM Resynchronizes == Spec => []GoodFrameAccepted
<1>1. ASSUME IInv, clean, WellFormed(heard)
      PROVE  saveFlag = 3 /\ data = heard
  <2>1. /\ heard = data
        /\ \/ saveFlag \in {1, 2, 3}
           \/ ~WellFormed(heard)
    BY <1>1 DEF IInv, CleanInv
  <2>2. Len(data) >= 8 /\ Len(data) = LenField(data) + 8
    BY <1>1, <2>1 DEF WellFormed
  <2>3. saveFlag # 1
    <3>1. saveFlag = 1 => Len(data) < 6 /\ Len(data) \in Nat
      BY <1>1, LenProperties DEF IInv, TypeOK, Progress
    <3>2. QED
      BY <2>2, <3>1
  <2>4. saveFlag # 2
    <3>1. saveFlag = 2 => /\ Len(data) < LenField(data) + 8
                          /\ Len(data) \in Nat /\ LenField(data) \in Nat
      BY <1>1, LenProperties, LenFieldType DEF IInv, TypeOK, Progress
    <3>2. QED
      BY <2>2, <3>1
  <2>5. QED
    BY <1>1, <2>1, <2>3, <2>4
<1>2. IInv => GoodFrameAccepted
  BY <1>1 DEF GoodFrameAccepted
<1>3. QED
  BY <1>2, SpecIInv, PTL

\* communication.c:84: nothing touches the frame the main loop works on.
THEOREM FrameIsStable == Spec => FrameStable
<1>1. IInv /\ [Next]_vars
        => [holding /\ holding' => UNCHANGED <<saveFlag, data, dataLen>>]_vars
  <2> SUFFICES ASSUME IInv, Next, holding, holding'
               PROVE  UNCHANGED <<saveFlag, data, dataLen>>
    BY DEF vars
  <2>1. saveFlag = 3
    BY DEF IInv, HeldIsComplete
  <2>2. CASE Arrive
    <3>1. PICK c \in Byte, gap \in Gaps : Receive(c, gap)
      BY <2>2 DEF Arrive
    <3>2. QED
      BY <2>1, <3>1 DEF Receive, Restarted
  <2>3. QED
    BY <2>2 DEF Next, Take, Release, Discard
<1>2. QED
  BY <1>1, SpecIInv, PTL DEF Spec, FrameStable

\* The clock comes back to a time only after a whole turn, which no gap is.
LEMMA GapIsTold ==
  ASSUME NEW old \in 0..(ClockW - 1), NEW g \in 0..(ClockW - 1), NEW h \in 0..(ClockW - 1),
         (old + g) % ClockW = (old + h) % ClockW
  PROVE  g = h
<1>1. ClockW \in Nat \ {0}
  BY ReceiveAssumption
<1>2. ASSUME NEW d \in 0..(ClockW - 1)
      PROVE  (old + d) % ClockW = IF old + d < ClockW THEN old + d ELSE old + d - ClockW
  <2>1. PICK a \in Int : a = old + d
    BY <1>1
  <2>2. /\ a \in 0..(ClockW - 1) => a % ClockW = a
        /\ a \in ClockW..(ClockW + ClockW - 1) => a % ClockW = a - ClockW
    BY <1>1, <2>1, NearRemainder
  <2>3. QED
    BY <1>1, <2>1, <2>2
<1>3. /\ (old + g) % ClockW = IF old + g < ClockW THEN old + g ELSE old + g - ClockW
      /\ (old + h) % ClockW = IF old + h < ClockW THEN old + h ELSE old + h - ClockW
  BY <1>2
<1>4. QED
  BY <1>1, <1>3

\* communication.c:83: a pause of more than 50 ms restarts an unfinished frame,
\* except the one of 51 ms, which a clock that wraps meanwhile measures one short.
THEOREM SilencesRestart == Timeout + 1 \notin Gaps => (Spec => SilenceRestarts)
<1> SUFFICES ASSUME Timeout + 1 \notin Gaps PROVE Spec => SilenceRestarts
  OBVIOUS
<1>1. IInv /\ [Next]_vars
        => [\A gap \in Gaps :
              /\ gap > Timeout /\ oldTime' = (oldTime + gap) % ClockW
              /\ saveFlag \in {1, 2}
              => saveFlag' = 0 \/ (saveFlag' = 1 /\ Len(data') = 1)]_vars
  <2> SUFFICES ASSUME IInv, [Next]_vars, NEW gap \in Gaps, gap > Timeout,
                      oldTime' = (oldTime + gap) % ClockW, saveFlag \in {1, 2}
               PROVE  saveFlag' = 0 \/ (saveFlag' = 1 /\ Len(data') = 1)
    OBVIOUS
  <2>1. /\ ClockW \in Nat \ {0} /\ Timeout \in Nat
        /\ gap \in 0..(ClockW - 1) /\ 0 \in 0..(ClockW - 1)
        /\ gap \in Int /\ gap # 0 /\ gap # Timeout + 1
    BY ReceiveAssumption
  <2>2. oldTime \in 0..(ClockW - 1)
    BY DEF IInv, TypeOK
  <2>3. oldTime' # oldTime
    <3>1. (oldTime + 0) % ClockW = oldTime
      BY <2>1, <2>2, NearRemainder
    <3>2. QED
      BY <2>1, <2>2, <3>1, GapIsTold
  <2>4. PICK c \in Byte, g \in Gaps : Receive(c, g)
    <3>1. Arrive
      BY <2>3 DEF Next, Take, Release, Discard, vars, rxVars
    <3>2. QED
      BY <3>1 DEF Arrive
  <2>5. g = gap
    <3>1. g \in 0..(ClockW - 1)
      BY ReceiveAssumption
    <3>2. oldTime' = (oldTime + g) % ClockW
      BY <2>4 DEF Receive
    <3>3. QED
      BY <2>1, <2>2, <3>1, <3>2, GapIsTold
  <2>6. PICK t : t = MeasureTime((oldTime + gap) % ClockW, oldTime)
    OBVIOUS
  <2>7. t > Timeout
    <3>1. t \in {gap, gap - 1}
      BY <2>1, <2>2, <2>6, MeasuredPause
    <3>2. QED
      BY <2>1, <3>1
  <2>8. Restarted(t) = 0
    BY <2>7 DEF Restarted
  <2>9. AwaitStart(c)
    BY <2>4, <2>5, <2>6, <2>8 DEF Receive
  <2>10. QED
    <3>1. Len(<<c>>) = 1
      OBVIOUS
    <3>2. QED
      BY <2>9, <3>1 DEF AwaitStart
<1>2. QED
  BY <1>1, SpecIInv, PTL DEF Spec, SilenceRestarts
-----------------------------------------------------------------------------
\* g holds the checksums of f up to the n-th byte.
Sums(f, g, n) ==
  /\ DOMAIN g = 0 .. n
  /\ \A i \in 0 .. n : g[i] = IF i < 2 THEN 0 ELSE ByteXor(g[i - 1], f[i])

\* Every string has its checksums, byte by byte: the shortest without would not be one.
LEMMA SumsExist ==
  ASSUME NEW f PROVE \A n \in Nat : \E g : Sums(f, g, n)
<1> DEFINE Without == {n \in Nat : ~ \E g : Sums(f, g, n)}
<1> SUFFICES ASSUME Without # {} PROVE FALSE
  OBVIOUS
<1>1. PICK n \in Without : \A m \in Without : n <= m
  BY LeastExists
<1>2. n \in Nat /\ ~ \E g : Sums(f, g, n)
  OBVIOUS
<1>3. CASE n = 0
  <2> DEFINE g == [i \in 0 .. 0 |-> 0]
  <2>1. Sums(f, g, 0)
    BY DEF Sums
  <2> QED
    BY <1>2, <1>3, <2>1
<1>4. CASE n # 0
  <2>1. n - 1 \in Nat /\ ~(n <= n - 1)
    BY <1>2, <1>4
  <2>2. n - 1 \notin Without
    BY <1>1, <2>1
  <2>3. PICK g : Sums(f, g, n - 1)
    BY <2>1, <2>2
  <2> DEFINE last == IF n < 2 THEN 0 ELSE ByteXor(g[n - 1], f[n])
             h == [i \in 0 .. n |-> IF i = n THEN last ELSE g[i]]
  <2>4. DOMAIN h = 0 .. n /\ h[n] = last
    BY <1>2
  <2>5. ASSUME NEW i \in 0 .. n - 1
        PROVE  h[i] = IF i < 2 THEN 0 ELSE ByteXor(h[i - 1], f[i])
    <3>1. i \in 0 .. n /\ i # n /\ h[i] = g[i] /\ g[i] = IF i < 2 THEN 0 ELSE ByteXor(g[i - 1], f[i])
      BY <1>2, <2>3 DEF Sums
    <3>2. ~(i < 2) => i - 1 \in 0 .. n /\ i - 1 # n /\ h[i - 1] = g[i - 1]
      BY <1>2
    <3> QED
      BY <3>1, <3>2
  <2>6. h[n] = IF n < 2 THEN 0 ELSE ByteXor(h[n - 1], f[n])
    <3>1. ~(n < 2) => h[n - 1] = g[n - 1]
      BY <1>2
    <3> QED
      BY <2>4, <3>1
  <2> HIDE DEF h
  <2>7. Sums(f, h, n)
    <3>1. ASSUME NEW i \in 0 .. n PROVE i = n \/ i \in 0 .. n - 1
      BY <1>2
    <3> QED
      BY <2>4, <2>5, <2>6, <3>1 DEF Sums
  <2> QED
    BY <1>2, <2>7
<1> QED
  BY <1>3, <1>4

\* f and k have the same bytes 2 to n.
Same(f, k, n) == \A i \in 2 .. n : f[i] = k[i]

\* Strings with the same bytes have the same checksums.
LEMMA SumsAgree ==
  ASSUME NEW n \in Nat, NEW m \in Nat, NEW top \in Nat, top <= n, top <= m,
         NEW f, NEW k, Same(f, k, top),
         NEW g, NEW h, Sums(f, g, n), Sums(k, h, m)
  PROVE  g[top] = h[top]
<1> DEFINE Apart == {i \in 0 .. top : g[i] # h[i]}
<1> SUFFICES ASSUME Apart # {} PROVE FALSE
  <2>1. top \in 0 .. top
    OBVIOUS
  <2> QED
    BY <2>1
<1>1. Apart \subseteq Nat
  OBVIOUS
<1>2. PICK i \in Apart : \A j \in Apart : i <= j
  BY <1>1, LeastExists
<1>3. i \in 0 .. top /\ g[i] # h[i] /\ i \in 0 .. n /\ i \in 0 .. m
  BY <1>2
<1>4. /\ g[i] = IF i < 2 THEN 0 ELSE ByteXor(g[i - 1], f[i])
      /\ h[i] = IF i < 2 THEN 0 ELSE ByteXor(h[i - 1], k[i])
  BY <1>3 DEF Sums
<1>5. CASE i < 2
  BY <1>3, <1>4, <1>5
<1>6. CASE ~(i < 2)
  <2>1. i - 1 \in 0 .. top /\ ~(i <= i - 1) /\ i \in 2 .. top
    BY <1>3, <1>6
  <2>2. i - 1 \notin Apart
    BY <1>2, <2>1
  <2>3. g[i - 1] = h[i - 1]
    BY <2>1, <2>2
  <2> QED
    BY <1>3, <1>4, <1>6, <2>1, <2>3 DEF Same
<1> QED
  BY <1>5, <1>6

\* The checksum is the recursive function's value.
LEMMA ChecksumIs ==
  ASSUME NEW f, NEW n \in Nat PROVE \E g : Sums(f, g, n) /\ Checksum(f, n) = g[n]
<1> DEFINE best(m) == CHOOSE g : Sums(f, g, m)
           all == [m \in Nat |-> best(m)[m]]
           Solves(x) == x = [i \in Nat |-> IF i < 2 THEN 0 ELSE ByteXor(x[i - 1], f[i])]
<1>1. \A m \in Nat : Sums(f, best(m), m)
  BY SumsExist
<1>2. ASSUME NEW m \in Nat
      PROVE  all[m] = IF m < 2 THEN 0 ELSE ByteXor(all[m - 1], f[m])
  <2>1. all[m] = best(m)[m] /\ Sums(f, best(m), m) /\ m \in 0 .. m
    BY <1>1
  <2>2. all[m] = IF m < 2 THEN 0 ELSE ByteXor(best(m)[m - 1], f[m])
    BY <2>1 DEF Sums
  <2>3. ~(m < 2) => best(m)[m - 1] = all[m - 1]
    <3> SUFFICES ASSUME ~(m < 2) PROVE best(m)[m - 1] = all[m - 1]
      OBVIOUS
    <3>1. m - 1 \in Nat /\ m - 1 <= m /\ m - 1 <= m - 1 /\ Same(f, f, m - 1)
      BY DEF Same
    <3>2. all[m - 1] = best(m - 1)[m - 1] /\ Sums(f, best(m - 1), m - 1)
      BY <1>1, <3>1
    <3> HIDE DEF best, all
    <3>3. best(m)[m - 1] = best(m - 1)[m - 1]
      BY <2>1, <3>1, <3>2, SumsAgree
    <3> QED
      BY <3>2, <3>3
  <2> HIDE DEF all, best
  <2> QED
    BY <2>2, <2>3
<1>3. Solves(all)
  <2>1. all = [i \in Nat |-> all[i]]
    OBVIOUS
  <2> HIDE DEF all
  <2> QED
    BY <1>2, <2>1
<1> DEFINE x == CHOOSE x : Solves(x)
<1>4. Checksum(f, n) = x[n]
  BY DEF Checksum
<1>5. Solves(x)
  <2> HIDE DEF Solves, all
  <2> QED
    BY <1>3
<1> DEFINE g == [i \in 0 .. n |-> x[i]]
<1>6. \A i \in Nat : x[i] = IF i < 2 THEN 0 ELSE ByteXor(x[i - 1], f[i])
  <2> HIDE DEF x
  <2> QED
    BY <1>5
<1> HIDE DEF x
<1>7. Sums(f, g, n) /\ g[n] = x[n]
  <2>1. ASSUME NEW i \in 0 .. n
        PROVE  g[i] = IF i < 2 THEN 0 ELSE ByteXor(g[i - 1], f[i])
    <3>1. i \in Nat /\ g[i] = x[i] /\ (~(i < 2) => g[i - 1] = x[i - 1])
      OBVIOUS
    <3> HIDE DEF g
    <3> QED
      BY <1>6, <3>1
  <2>2. DOMAIN g = 0 .. n /\ g[n] = x[n]
    OBVIOUS
  <2> QED
    BY <2>1, <2>2 DEF Sums
<1> QED
  BY <1>4, <1>7

-----------------------------------------------------------------------------
\* The checksum looks at no byte behind the n-th.
LEMMA ChecksumAgrees ==
  ASSUME NEW f, NEW k, NEW n \in Nat, Same(f, k, n)
  PROVE  Checksum(f, n) = Checksum(k, n)
<1>1. PICK g : Sums(f, g, n) /\ Checksum(f, n) = g[n]
  BY ChecksumIs
<1>2. PICK h : Sums(k, h, n) /\ Checksum(k, n) = h[n]
  BY ChecksumIs
<1>3. n <= n
  OBVIOUS
<1>4. Sums(f, g, n) /\ Sums(k, h, n)
  BY <1>1, <1>2
<1>5. g[n] = h[n]
  BY <1>3, <1>4, SumsAgree
<1> QED
  BY <1>1, <1>2, <1>5

\* It is a byte.
LEMMA ChecksumType ==
  ASSUME NEW f, NEW n \in Nat, \A i \in 2 .. n : f[i] \in Byte
  PROVE  Checksum(f, n) \in Byte
<1>1. PICK g : Sums(f, g, n) /\ Checksum(f, n) = g[n]
  BY ChecksumIs
<1> DEFINE Odd == {i \in 0 .. n : g[i] \notin Byte}
<1> SUFFICES ASSUME Odd # {} PROVE FALSE
  <2>1. n \in 0 .. n
    OBVIOUS
  <2> QED
    BY <1>1, <2>1
<1>2. Odd \subseteq Nat
  OBVIOUS
<1>3. PICK i \in Odd : \A j \in Odd : i <= j
  BY <1>2, LeastExists
<1>4. i \in 0 .. n /\ g[i] \notin Byte
  BY <1>3
<1>5. g[i] = IF i < 2 THEN 0 ELSE ByteXor(g[i - 1], f[i])
  BY <1>1, <1>4 DEF Sums
<1>6. i >= 2
  <2>1. 0 \in Byte
    BY ReceiveAssumption DEF Byte
  <2> QED
    BY <1>4, <1>5, <2>1
<1>7. i - 1 \in 0 .. n /\ ~(i <= i - 1) /\ i \in 2 .. n /\ ~(i < 2)
  BY <1>4, <1>6
<1>8. g[i - 1] \in Byte /\ f[i] \in Byte
  BY <1>3, <1>7
<1>9. ByteXor(g[i - 1], f[i]) \in Byte
  BY <1>8, FrameLinkAssumption
<1> QED
  BY <1>4, <1>5, <1>7, <1>9

-----------------------------------------------------------------------------

\* What a natural number leaves, and what it loses, when it is divided by B.
LEMMA Division ==
  ASSUME NEW a \in Int, NEW n \in Nat \ {0}
  PROVE  a \div n \in Int /\ a = n * (a \div n) + (a % n)
OBVIOUS

\* A quotient's bounds.
LEMMA QuotientBounds ==
  ASSUME NEW b \in Nat \ {0}, NEW q \in Int, NEW r \in 0 .. b - 1, b * q + r >= 0
  PROVE  /\ q \in Nat
         /\ \A top \in Nat : b * q + r < b * top => q < top
<1>1. \A x \in Int : x <= -1 => b * x <= -b
  OBVIOUS
<1>2. \A x, y \in Int : x >= y => b * x >= b * y
  OBVIOUS
<1>3. \A x \in Int : b * x \in Int
  OBVIOUS
<1> DEFINE p(x) == b * x
<1> HIDE DEF p
<1>4. \A x \in Int : p(x) \in Int /\ (x <= -1 => p(x) <= -b)
  BY <1>1, <1>3 DEF p
<1>5. \A x, y \in Int : x >= y => p(x) >= p(y)
  BY <1>2 DEF p
<1>6. p(q) + r >= 0
  BY DEF p
<1>7. q \in Nat
  BY <1>4, <1>6
<1>8. ASSUME NEW top \in Nat, p(q) + r < p(top) PROVE q < top
  BY <1>4, <1>5, <1>8
<1> QED
  BY <1>7, <1>8 DEF p

\* The lowest byte of a number, and what is left of it.
LEMMA ByteOf ==
  ASSUME NEW n \in Nat
  PROVE  /\ n % B \in Byte /\ n \div B \in Nat
         /\ (n % B) + B * (n \div B) = n
         /\ \A top \in Nat : n < B * top => n \div B < top
<1>1. B \in Nat \ {0} /\ n \in Int
  BY ReceiveAssumption
<1>2. n % B \in 0 .. B - 1
  BY <1>1, RemainderRange
<1>3. n \div B \in Int /\ n = B * (n \div B) + (n % B)
  BY <1>1, Division
<1> DEFINE q == n \div B
           r == n % B
<1> HIDE DEF q, r
<1>4. q \in Int /\ r \in 0 .. B - 1 /\ n = B * q + r
  BY <1>2, <1>3 DEF q, r
<1>5. B * q + r >= 0
  BY <1>4
<1>6. q \in Nat /\ \A top \in Nat : B * q + r < B * top => q < top
  BY <1>1, <1>4, <1>5, QuotientBounds
<1>7. B * q \in Int
  BY <1>1, <1>4
<1>8. r + B * q = n
  BY <1>4, <1>7
<1>9. \A top \in Nat : n < B * top => q < top
  BY <1>4, <1>6, Zenon
<1> QED
  BY <1>2, <1>6, <1>8, <1>9, Zenon DEF q, r, Byte

-----------------------------------------------------------------------------
\* A quotient is the number that leaves a remainder.
LEMMA QuotientUnique ==
  ASSUME NEW n \in Nat \ {0}, NEW q \in Int, NEW r \in 0 .. n - 1
  PROVE  (n * q + r) \div n = q
OBVIOUS

\* Dividing twice is dividing by the product.
LEMMA DivideTwice ==
  ASSUME NEW n \in Nat, NEW m \in Nat \ {0}
  PROVE  n \div (m * B) = (n \div m) \div B /\ m * B \in Nat \ {0}
<1>1. B \in Nat \ {0}
  BY ReceiveAssumption
<1> DEFINE q == n \div m
           r == n % m
           p == q \div B
           s == q % B
<1>2. q \in Nat /\ r \in 0 .. m - 1 /\ n = m * q + r
  <2>1. n \in Int /\ q \in Int /\ n = m * q + r
    BY Division
  <2>2. r \in 0 .. m - 1
    BY RemainderRange
  <2> HIDE DEF q, r
  <2>3. m * q + r >= 0
    BY <2>1
  <2>4. q \in Nat
    BY <2>1, <2>2, <2>3, QuotientBounds
  <2> QED
    BY <2>1, <2>2, <2>4
<1> HIDE DEF q, r
<1>3. p \in Int /\ q = B * p + s
  BY <1>1, <1>2, Division
<1>4. s \in 0 .. B - 1
  BY <1>1, <1>2, RemainderRange
<1> HIDE DEF p, s
<1> DEFINE low == m * s + r
           k == m * B
<1>5. low \in Int /\ 0 <= low /\ low < k /\ k \in Nat \ {0}
  <2>1. \A a, b \in Nat : a * b \in Nat
    OBVIOUS
  <2>2. m * s \in Nat /\ m * (B - 1) \in Nat /\ m * B \in Nat
    BY <1>1, <1>4, <2>1
  <2>3. \A a, b, c \in Nat : b <= c => a * b <= a * c
    OBVIOUS
  <2>4. m * s <= m * (B - 1)
    BY <1>1, <1>4, <2>3
  <2>5. m * (B - 1) = m * B - m
    BY <1>1
  <2> DEFINE u == m * s
             v == m * (B - 1)
             w == m * B
  <2> HIDE DEF u, v, w
  <2>6. u \in Nat /\ v \in Nat /\ w \in Nat /\ u <= v /\ v = w - m
    BY <2>2, <2>4, <2>5 DEF u, v, w
  <2>7. u + r \in Int /\ 0 <= u + r /\ u + r < w /\ w \in Nat \ {0}
    BY <1>2, <2>6
  <2> QED
    BY <2>7 DEF u, w
<1>6. n = k * p + low
  <2>1. \A a, b, x, y, z \in Int : a * (b * x + y) + z = (a * b) * x + (a * y + z)
    OBVIOUS
  <2>2. m \in Int /\ B \in Int /\ s \in Int /\ r \in Int
    BY <1>1, <1>2, <1>4
  <2>3. m * (B * p + s) + r = (m * B) * p + (m * s + r)
    BY <1>3, <2>1, <2>2
  <2> QED
    BY <1>2, <1>3, <2>3
<1> HIDE DEF low, k
<1>7. n \div k = p
  <2>1. low \in 0 .. k - 1
    BY <1>5
  <2>2. (k * p + low) \div k = p
    BY <1>3, <1>5, <2>1, QuotientUnique
  <2> QED
    BY <1>6, <2>2
<1> QED
  BY <1>5, <1>7 DEF k, p, q

\* The length field says what was put in.
LEMMA Bytes4Hold ==
  ASSUME NEW n \in Nat, n < B * B * B * B
  PROVE  /\ n % B \in Byte /\ (n \div B) % B \in Byte /\ (n \div (B * B)) % B \in Byte
         /\ n \div (B * B * B) \in Byte
         /\ (n % B) + B * (((n \div B) % B) + B * (((n \div (B * B)) % B) + B * (n \div (B * B * B)))) = n
<1>1. B \in Nat \ {0}
  BY ReceiveAssumption
<1> DEFINE q1 == n \div B
           q2 == q1 \div B
           q3 == q2 \div B
<1>2. q1 \in Nat /\ n % B \in Byte /\ (n % B) + B * q1 = n /\ \A t \in Nat : n < B * t => q1 < t
  BY ByteOf
<1>3. n \div (B * B) = q2 /\ B * B \in Nat \ {0}
  BY <1>1, DivideTwice
<1>4. n \div (B * B * B) = q3 /\ B * B * B \in Nat \ {0}
  <2> DEFINE m == B * B
  <2>1. m \in Nat \ {0} /\ n \div m = q2
    BY <1>3
  <2> HIDE DEF m, q2
  <2>2. n \div (m * B) = q2 \div B /\ m * B \in Nat \ {0}
    BY <2>1, DivideTwice
  <2> QED
    BY <2>2 DEF m
<1> HIDE DEF q1
<1>5. q2 \in Nat /\ q1 % B \in Byte /\ (q1 % B) + B * q2 = q1 /\ \A t \in Nat : q1 < B * t => q2 < t
  BY <1>2, ByteOf
<1> HIDE DEF q2
<1>6. q3 \in Nat /\ q2 % B \in Byte /\ (q2 % B) + B * q3 = q2 /\ \A t \in Nat : q2 < B * t => q3 < t
  BY <1>5, ByteOf
<1> HIDE DEF q3
<1>7. q3 < B
  <2>1. B * B * B * B = B * (B * B * B) /\ B * B * B = B * (B * B)
    <3>1. \A a, b, c \in Nat : a * b * c = a * (b * c)
      OBVIOUS
    <3> QED
      BY <1>1, <1>3, <3>1
  <2> DEFINE b2 == B * B
             b3 == B * B * B
  <2>2. b2 \in Nat /\ b3 \in Nat /\ n < B * b3 /\ b3 = B * b2 /\ b2 = B * B
    BY <1>3, <1>4, <2>1
  <2> HIDE DEF b2, b3
  <2>3. q1 < b3
    BY <1>2, <2>2
  <2>4. q2 < b2
    BY <1>5, <2>2, <2>3
  <2> QED
    BY <1>1, <1>6, <2>2, <2>4
<1>8. q3 \in Byte
  BY <1>1, <1>6, <1>7 DEF Byte
<1>9. (n % B) + B * ((q1 % B) + B * ((q2 % B) + B * q3)) = n
  BY <1>2, <1>5, <1>6
<1>10. n \div B = q1
  BY DEF q1
<1> QED
  BY <1>2, <1>3, <1>4, <1>5, <1>6, <1>8, <1>9, <1>10

\* Two bytes of a small number.
LEMMA Bytes2Type ==
  ASSUME NEW n \in 0 .. 2
  PROVE  Bytes2(n) \in Seq(Byte) /\ Len(Bytes2(n)) = 2
<1>1. n \in Nat /\ B \in Nat /\ B > 1
  BY ReceiveAssumption, FrameLinkAssumption
<1>2. n % B \in Byte /\ n \div B \in Nat /\ \A t \in Nat : n < B * t => n \div B < t
  BY <1>1, ByteOf
<1>3. n < B * B
  <2>1. \A a, b \in Nat : a >= 2 /\ b >= 2 => a * b >= 4
    <3>1. \A a, b \in Nat : b >= 2 => a * b >= a * 2
      OBVIOUS
    <3>2. ASSUME NEW a \in Nat, NEW b \in Nat, a >= 2, b >= 2
          PROVE  a * b >= 4
      BY <3>1, <3>2
    <3> QED
      BY <3>2
  <2>2. B * B >= 4 /\ B * B \in Nat
    BY <1>1, <2>1
  <2> QED
    BY <2>2
<1>4. n \div B \in Byte
  BY <1>1, <1>2, <1>3 DEF Byte
<1> QED
  BY <1>2, <1>4 DEF Bytes2

-----------------------------------------------------------------------------
\* Flattening one, two or three strings joins them.
LEMMA Flatten1 ==
  ASSUME NEW a PROVE FlattenSeq(<<a>>) = a
<1> DEFINE s == <<a>>
           Solves(y) == y = [i \in 1 .. Len(s) |-> IF i = 1 THEN s[i] ELSE y[i - 1] \o s[i]]
           y == CHOOSE z : Solves(z)
<1>1. FlattenSeq(s) = y[Len(s)]
  BY DEF FlattenSeq
<1>2. Len(s) = 1 /\ s[1] = a
  OBVIOUS
<1>3. Solves(<<a>>)
  OBVIOUS
<1> HIDE DEF s, Solves
<1>4. Solves(y)
  BY <1>3
<1> HIDE DEF y
<1>5. y[1] = a
  BY <1>2, <1>4 DEF Solves
<1> QED
  BY <1>1, <1>2, <1>5 DEF s

\* Two strings.
LEMMA Flatten2 ==
  ASSUME NEW a, NEW b PROVE FlattenSeq(<<a, b>>) = a \o b
<1> DEFINE s == <<a, b>>
           Solves(y) == y = [i \in 1 .. Len(s) |-> IF i = 1 THEN s[i] ELSE y[i - 1] \o s[i]]
           y == CHOOSE z : Solves(z)
           x == [i \in 1 .. 2 |-> IF i = 1 THEN a ELSE a \o b]
<1>1. FlattenSeq(s) = y[Len(s)]
  BY DEF FlattenSeq
<1>2. Len(s) = 2 /\ s[1] = a /\ s[2] = b
  OBVIOUS
<1>3. Solves(x)
  <2>1. ASSUME NEW i \in 1 .. 2 PROVE x[i] = IF i = 1 THEN s[i] ELSE x[i - 1] \o s[i]
    <3>1. x[1] = a /\ x[2] = a \o b /\ i - 1 = (IF i = 1 THEN 0 ELSE 1) /\ i \in {1, 2}
      OBVIOUS
    <3> HIDE DEF x, s
    <3> QED
      BY <1>2, <3>1
  <2> DEFINE z == [i \in 1 .. 2 |-> IF i = 1 THEN s[i] ELSE x[i - 1] \o s[i]]
  <2>2. x = [i \in 1 .. 2 |-> x[i]]
    OBVIOUS
  <2> HIDE DEF x, s
  <2>3. x = z
    BY <2>1, <2>2
  <2> QED
    BY <1>2, <2>3
<1> HIDE DEF s, Solves
<1>4. Solves(y)
  BY <1>3
<1> HIDE DEF y
<1>5. y[1] = a /\ y[2] = y[1] \o b
  <2>1. y = [i \in 1 .. 2 |-> IF i = 1 THEN s[i] ELSE y[i - 1] \o s[i]]
    BY <1>2, <1>4 DEF Solves
  <2>2. \A i \in 1 .. 2 : y[i] = IF i = 1 THEN s[i] ELSE y[i - 1] \o s[i]
    BY <2>1
  <2>3. 1 \in 1 .. 2 /\ 2 \in 1 .. 2 /\ 2 - 1 = 1
    OBVIOUS
  <2> QED
    BY <1>2, <2>2, <2>3
<1> QED
  BY <1>1, <1>2, <1>5 DEF s

\* Three strings.
LEMMA Flatten3 ==
  ASSUME NEW a, NEW b, NEW c PROVE FlattenSeq(<<a, b, c>>) = (a \o b) \o c
<1> DEFINE s == <<a, b, c>>
           Solves(y) == y = [i \in 1 .. Len(s) |-> IF i = 1 THEN s[i] ELSE y[i - 1] \o s[i]]
           y == CHOOSE z : Solves(z)
           x == [i \in 1 .. 3 |-> IF i = 1 THEN a ELSE IF i = 2 THEN a \o b ELSE (a \o b) \o c]
<1>1. FlattenSeq(s) = y[Len(s)]
  BY DEF FlattenSeq
<1>2. Len(s) = 3 /\ s[1] = a /\ s[2] = b /\ s[3] = c
  OBVIOUS
<1>3. Solves(x)
  <2>1. ASSUME NEW i \in 1 .. 3 PROVE x[i] = IF i = 1 THEN s[i] ELSE x[i - 1] \o s[i]
    <3>1. /\ x[1] = a /\ x[2] = a \o b /\ x[3] = (a \o b) \o c
          /\ i - 1 = (IF i = 1 THEN 0 ELSE IF i = 2 THEN 1 ELSE 2) /\ i \in {1, 2, 3}
      OBVIOUS
    <3> HIDE DEF x, s
    <3> QED
      BY <1>2, <3>1
  <2> DEFINE z == [i \in 1 .. 3 |-> IF i = 1 THEN s[i] ELSE x[i - 1] \o s[i]]
  <2>2. x = [i \in 1 .. 3 |-> x[i]]
    OBVIOUS
  <2> HIDE DEF x, s
  <2>3. x = z
    BY <2>1, <2>2
  <2> QED
    BY <1>2, <2>3
<1> HIDE DEF s, Solves
<1>4. Solves(y)
  BY <1>3
<1> HIDE DEF y
<1>5. y[1] = a /\ y[2] = y[1] \o b /\ y[3] = y[2] \o c
  <2>1. y = [i \in 1 .. 3 |-> IF i = 1 THEN s[i] ELSE y[i - 1] \o s[i]]
    BY <1>2, <1>4 DEF Solves
  <2>2. \A i \in 1 .. 3 : y[i] = IF i = 1 THEN s[i] ELSE y[i - 1] \o s[i]
    BY <2>1
  <2>3. 1 \in 1 .. 3 /\ 2 \in 1 .. 3 /\ 3 \in 1 .. 3 /\ 2 - 1 = 1 /\ 3 - 1 = 2
    OBVIOUS
  <2> QED
    BY <1>2, <2>2, <2>3
<1> QED
  BY <1>1, <1>2, <1>5 DEF s

-----------------------------------------------------------------------------

\* f is the frame of a call with the command and the data w.
IsFrameOf(f, w) ==
  /\ f \in Seq(Byte) /\ WellFormed(f)
  /\ f[2] = w.cmd /\ SubSeq(f, 7, 6 + LenField(f)) = w.payload

\* u is made of the m elements of s and, behind them, the k of t.
IsJoin(u, s, m, t, k) ==
  /\ Len(u) = m + k
  /\ \A i \in 1 .. m : u[i] = s[i]
  /\ \A i \in 1 .. k : u[m + i] = t[i]

\* Two strings, one after the other.
LEMMA Joins ==
  ASSUME NEW S, NEW s \in Seq(S), NEW t \in Seq(S), NEW m, NEW k, m = Len(s), k = Len(t),
         NEW u, u = s \o t
  PROVE  m \in Nat /\ k \in Nat /\ u \in Seq(S) /\ IsJoin(u, s, m, t, k)
<1>1. s \in Runs(S) /\ t \in Runs(S) /\ u = Then(s, t)
  BY DEF Runs, Then
<1>2. Len(s) \in Nat /\ Len(t) \in Nat
  BY LenProperties
<1>3. u \in Seq(S) /\ Len(u) = Len(s) + Len(t)
  BY <1>1, ThenIsRun, ThenLength DEF Runs
<1>4. \A i \in 1 .. Len(s) : u[i] = s[i]
  BY <1>1, ThenElements
<1>5. \A i \in 1 .. Len(t) : u[Len(s) + i] = t[i]
  BY <1>1, ThenElements
<1> QED
  BY <1>2, <1>3, <1>4, <1>5 DEF IsJoin

\* The header, the data, the checksum and the end are a frame.
LEMMA FrameMade ==
  ASSUME NEW cmd \in Byte, NEW p \in Seq(Byte), Len(p) <= MaxLen - 10,
         NEW bytes, bytes = Head6(cmd, Len(p)) \o p
  PROVE  /\ Head6(cmd, Len(p)) \in Seq(Byte)
         /\ Tail2(bytes) \in Seq(Byte) /\ Len(Tail2(bytes)) = 2
         /\ bytes \in Seq(Byte)
         /\ IsFrameOf(bytes \o Tail2(bytes), [cmd |-> cmd, payload |-> p])
<1> DEFINE n == Len(p)
           h == Head6(cmd, n)
           t == Tail2(bytes)
           f == bytes \o t
<1>1. n \in Nat /\ n < B * B * B * B
  <2>1. B * B * B * B \in Nat
    <3>1. \A a, b \in Nat : a * b \in Nat
      OBVIOUS
    <3>2. B \in Nat
      BY ReceiveAssumption
    <3> QED
      BY <3>1, <3>2
  <2> DEFINE top == B * B * B * B
  <2>2. MaxLen <= top
    BY FrameLinkAssumption
  <2> HIDE DEF top
  <2>3. top \in Nat
    BY <2>1 DEF top
  <2>4. n \in Nat /\ n < top
    BY <2>2, <2>3, ReceiveAssumption, LenProperties
  <2> QED
    BY <2>4 DEF top
<1> HIDE DEF n
<1> DEFINE b3 == n % B
           b4 == (n \div B) % B
           b5 == (n \div (B * B)) % B
           b6 == n \div (B * B * B)
<1>2. /\ b3 \in Byte /\ b4 \in Byte /\ b5 \in Byte /\ b6 \in Byte
      /\ b3 + B * (b4 + B * (b5 + B * b6)) = n
  BY <1>1, Bytes4Hold
<1>3. h = <<StartC, cmd>> \o <<b3, b4, b5, b6>>
  BY DEF Head6, Bytes4
<1> HIDE DEF b3, b4, b5, b6, h, t
<1>4. /\ h \in Seq(Byte) /\ Len(h) = 6 /\ h[1] = StartC /\ h[2] = cmd
      /\ h[3] = b3 /\ h[4] = b4 /\ h[5] = b5 /\ h[6] = b6
  <2>1. StartC \in Byte
    BY ReceiveAssumption
  <2> DEFINE u == <<StartC, cmd>>
             v == <<b3, b4, b5, b6>>
  <2>2. u \in Seq(Byte) /\ v \in Seq(Byte) /\ Len(u) = 2 /\ Len(v) = 4
    BY <1>2, <2>1
  <2>3. u[1] = StartC /\ u[2] = cmd /\ v[1] = b3 /\ v[2] = b4 /\ v[3] = b5 /\ v[4] = b6
    OBVIOUS
  <2> HIDE DEF u, v
  <2>4. h = u \o v
    BY <1>3 DEF u, v
  <2>5. /\ h \in Seq(Byte) /\ Len(h) = 2 + 4
        /\ \A i \in 1 .. 2 : h[i] = u[i]
        /\ \A i \in 1 .. 4 : h[2 + i] = v[i]
    <3>1. 2 = Len(u) /\ 4 = Len(v) /\ u \in Seq(Byte) /\ v \in Seq(Byte)
      BY <2>2
    <3>2. h \in Seq(Byte) /\ IsJoin(h, u, 2, v, 4)
      BY <2>4, <3>1, Joins
    <3> QED
      BY <3>2 DEF IsJoin
  <2>6. h[1] = u[1] /\ h[2] = u[2]
    BY <2>5
  <2>7. h[3] = v[1] /\ h[4] = v[2] /\ h[5] = v[3] /\ h[6] = v[4]
    <3>1. 3 = 2 + 1 /\ 4 = 2 + 2 /\ 5 = 2 + 3 /\ 6 = 2 + 4
      OBVIOUS
    <3> QED
      BY <2>5, <3>1
  <2> QED
    BY <2>3, <2>5, <2>6, <2>7
<1>5. /\ bytes \in Seq(Byte) /\ Len(bytes) = 6 + n
      /\ \A i \in 1 .. 6 : bytes[i] = h[i]
      /\ \A i \in 1 .. n : bytes[6 + i] = p[i]
  <2>1. bytes = h \o p
    BY DEF h, n
  <2>2. n = Len(p)
    BY DEF n
  <2> QED
    <3>1. 6 = Len(h) /\ h \in Seq(Byte)
      BY <1>4
    <3>2. bytes \in Seq(Byte) /\ IsJoin(bytes, h, 6, p, n)
      BY <2>1, <2>2, <3>1, Joins
    <3> QED
      BY <3>2 DEF IsJoin
<1> DEFINE sum == Checksum(bytes, 6 + n)
<1>6. t = <<sum, EndC>>
  BY <1>5 DEF t, Tail2
<1>7. sum \in Byte
  <2>1. \A i \in 2 .. 6 + n : bytes[i] \in Byte
    BY <1>1, <1>5, ElementOfSeq
  <2>2. 6 + n \in Nat
    BY <1>1
  <2> QED
    BY <2>1, <2>2, ChecksumType
<1> HIDE DEF sum
<1>8. t \in Seq(Byte) /\ Len(t) = 2 /\ t[1] = sum /\ t[2] = EndC
  <2>1. EndC \in Byte
    BY ReceiveAssumption
  <2> QED
    BY <1>6, <1>7, <2>1
<1>9. /\ f \in Seq(Byte) /\ Len(f) = n + 8
      /\ \A i \in 1 .. 6 + n : f[i] = bytes[i]
      /\ f[n + 7] = sum /\ f[n + 8] = EndC
  <2>1. f = bytes \o t
    OBVIOUS
  <2> HIDE DEF f
  <2>2. /\ f \in Seq(Byte) /\ Len(f) = (6 + n) + 2
        /\ \A i \in 1 .. 6 + n : f[i] = bytes[i]
        /\ \A i \in 1 .. 2 : f[(6 + n) + i] = t[i]
    <3>1. 6 + n = Len(bytes) /\ 2 = Len(t) /\ bytes \in Seq(Byte) /\ t \in Seq(Byte)
      BY <1>5, <1>8
    <3>2. f \in Seq(Byte) /\ IsJoin(f, bytes, 6 + n, t, 2)
      BY <2>1, <3>1, Joins
    <3> QED
      BY <3>2 DEF IsJoin
  <2>3. (6 + n) + 2 = n + 8 /\ (6 + n) + 1 = n + 7
    BY <1>1
  <2>4. f[n + 7] = t[1] /\ f[n + 8] = t[2]
    BY <2>2, <2>3
  <2> QED
    BY <1>8, <2>2, <2>3, <2>4
<1> HIDE DEF f
<1>10. /\ f[1] = StartC /\ f[2] = cmd /\ f[3] = b3 /\ f[4] = b4 /\ f[5] = b5 /\ f[6] = b6
       /\ LenField(f) = n
  <2>1. \A i \in 1 .. 6 : f[i] = h[i]
    <3>1. \A i \in 1 .. 6 : i \in 1 .. 6 + n
      BY <1>1
    <3> QED
      BY <1>5, <1>9, <3>1
  <2>2. f[1] = h[1] /\ f[2] = h[2] /\ f[3] = h[3] /\ f[4] = h[4] /\ f[5] = h[5] /\ f[6] = h[6]
    BY <2>1
  <2> QED
    BY <1>2, <1>4, <2>2 DEF LenField
<1>11. Checksum(f, n + 6) = sum
  <2>1. Same(f, bytes, 6 + n)
    <3>1. \A i \in 2 .. 6 + n : i \in 1 .. 6 + n
      BY <1>1
    <3> QED
      BY <1>9, <3>1 DEF Same
  <2>2. 6 + n \in Nat /\ n + 6 = 6 + n
    BY <1>1
  <2>3. Checksum(f, 6 + n) = Checksum(bytes, 6 + n)
    BY <2>1, <2>2, ChecksumAgrees
  <2> QED
    BY <2>2, <2>3 DEF sum
<1>12. WellFormed(f)
  <2>1. Len(f) >= 8 /\ Len(f) - 2 = n + 6 /\ Len(f) - 1 = n + 7
    BY <1>1, <1>9
  <2>2. Fits(f)
    BY <1>10 DEF Fits, n
  <2> QED
    BY <1>9, <1>10, <1>11, <2>1, <2>2 DEF WellFormed
<1>13. SubSeq(f, 7, 6 + n) = p
  <2> DEFINE g == SubSeq(f, 7, 6 + n)
  <2> DEFINE a == 7
             b == 6 + n
  <2>1. /\ a \in 1 .. Len(f) + 1 /\ b \in a - 1 .. Len(f) /\ b - a + 1 = n
        /\ f \in Seq(Byte)
    BY <1>1, <1>9
  <2>2. g = SubSeq(f, a, b)
    OBVIOUS
  <2>a. \A i \in 1 .. n : a + i - 1 = 6 + i /\ 6 + i \in 1 .. 6 + n
    BY <1>1
  <2> HIDE DEF g, a, b
  <2>3. /\ g \in Seq(Byte) /\ Len(g) = n
        /\ \A i \in 1 .. n : g[i] = f[a + i - 1]
    <3>1. a \in Int /\ b \in Int /\ (IF a <= b THEN b - a + 1 ELSE 0) = n
      BY <1>1 DEF a, b
    <3>2. \A i \in a .. b : f[i] \in Byte
      <4>1. \A i \in a .. b : i \in 1 .. Len(f)
        BY <1>1, <1>9 DEF a, b
      <4> QED
        BY <1>9, <4>1, ElementOfSeq
    <3> QED
      BY <2>1, <2>2, <3>1, <3>2, SubSeqProperties
  <2>4. ASSUME NEW i \in 1 .. n PROVE g[i] = p[i]
    <3>1. a + i - 1 = 6 + i /\ 6 + i \in 1 .. 6 + n
      BY <2>a
    <3>2. g[i] = f[6 + i]
      BY <2>3, <3>1
    <3>3. f[6 + i] = bytes[6 + i]
      BY <1>9, <3>1
    <3>4. bytes[6 + i] = p[i]
      BY <1>5
    <3> QED
      BY <3>2, <3>3, <3>4
  <2>5. Len(p) = n
    BY DEF n
  <2>6. g = p
    BY <2>3, <2>4, <2>5, SeqEqual
  <2> QED
    BY <2>6 DEF g, b
<1>14. IsFrameOf(f, [cmd |-> cmd, payload |-> p])
  BY <1>9, <1>10, <1>12, <1>13 DEF IsFrameOf
<1> QED
  BY <1>4, <1>5, <1>8, <1>14 DEF f, t, h, n

-----------------------------------------------------------------------------
\* s is the beginning of t.
Leads(s, t) == Len(s) <= Len(t) /\ \A i \in 1 .. Len(s) : s[i] = t[i]

\* The library's prefix, element by element.
LEMMA PrefixLeads ==
  ASSUME NEW S, NEW s \in Seq(S), NEW t \in Seq(S)
  PROVE  IsPrefix(s, t) <=> Leads(s, t)
<1>1. Len(s) \in Nat /\ Len(t) \in Nat /\ DOMAIN s = 1 .. Len(s) /\ DOMAIN t = 1 .. Len(t)
  BY LenProperties
<1>2. /\ \A i \in 1 .. Len(s) : s[i] \in S
      /\ \A i \in 1 .. Len(t) : t[i] \in S
  BY ElementOfSeq
<1> DEFINE u == SubSeq(s, 1, Len(s))
           v == SubSeq(t, 1, Len(s))
<1>3. /\ u \in Seq(S) /\ Len(u) = Len(s)
      /\ \A i \in 1 .. Len(s) : u[i] = s[i]
  <2>1. /\ u \in Seq(S) /\ Len(u) = (IF 1 <= Len(s) THEN Len(s) - 1 + 1 ELSE 0)
        /\ \A i \in 1 .. Len(s) - 1 + 1 : u[i] = s[1 + i - 1]
    BY <1>1, <1>2, SubSeqProperties
  <2> HIDE DEF u
  <2>2. Len(s) - 1 + 1 = Len(s) /\ (~(1 <= Len(s)) => Len(s) = 0)
    BY <1>1
  <2>3. \A i \in 1 .. Len(s) : 1 + i - 1 = i
    BY <1>1
  <2> QED
    BY <2>1, <2>2, <2>3
<1>4. Len(s) <= Len(t) =>
        /\ v \in Seq(S) /\ Len(v) = Len(s)
        /\ \A i \in 1 .. Len(s) : v[i] = t[i]
  <2> SUFFICES ASSUME Len(s) <= Len(t)
               PROVE  /\ v \in Seq(S) /\ Len(v) = Len(s)
                      /\ \A i \in 1 .. Len(s) : v[i] = t[i]
    OBVIOUS
  <2>0. \A i \in 1 .. Len(s) : t[i] \in S
    BY <1>1, <1>2
  <2>1. /\ v \in Seq(S) /\ Len(v) = (IF 1 <= Len(s) THEN Len(s) - 1 + 1 ELSE 0)
        /\ \A i \in 1 .. Len(s) - 1 + 1 : v[i] = t[1 + i - 1]
    BY <1>1, <2>0, SubSeqProperties
  <2> HIDE DEF v
  <2>2. Len(s) - 1 + 1 = Len(s) /\ (~(1 <= Len(s)) => Len(s) = 0)
    BY <1>1
  <2>3. \A i \in 1 .. Len(s) : 1 + i - 1 = i
    BY <1>1
  <2> QED
    BY <2>1, <2>2, <2>3
<1>5. IsPrefix(s, t) <=> Len(s) <= Len(t) /\ u = v
  BY <1>1 DEF IsPrefix
<1> HIDE DEF u, v
<1>6. ASSUME Len(s) <= Len(t), u = v PROVE Leads(s, t)
  BY <1>3, <1>4, <1>6 DEF Leads
<1>7. ASSUME Leads(s, t) PROVE Len(s) <= Len(t) /\ u = v
  <2>1. Len(s) <= Len(t) /\ \A i \in 1 .. Len(s) : s[i] = t[i]
    BY <1>7 DEF Leads
  <2>2. Len(u) = Len(v) /\ u \in Seq(S) /\ v \in Seq(S)
    BY <1>3, <1>4, <2>1
  <2>3. \A i \in 1 .. Len(u) : u[i] = v[i]
    BY <1>3, <1>4, <2>1
  <2>4. u = v
    BY <2>2, <2>3, SeqEqual
  <2> QED
    BY <2>1, <2>4
<1> QED
  BY <1>5, <1>6, <1>7

\* s is a frame or the beginning of one.
Begun(s) == \E f \in Seq(Byte) : WellFormed(f) /\ Leads(s, f)

\* The beginning of what is begun is begun.
LEMMA BegunBefore ==
  ASSUME NEW s \in Seq(Byte), NEW t \in Seq(Byte), IsPrefix(s, t), Begun(t)
  PROVE  Begun(s)
<1>1. PICK f \in Seq(Byte) : WellFormed(f) /\ Leads(t, f)
  BY DEF Begun
<1>2. Leads(s, t)
  BY PrefixLeads
<1>3. Len(s) \in Nat /\ Len(t) \in Nat /\ Len(f) \in Nat
  BY LenProperties
<1>4. Leads(s, f)
  BY <1>1, <1>2, <1>3 DEF Leads
<1> QED
  BY <1>1, <1>4 DEF Begun

\* How a frame begins.
LEMMA BegunIs ==
  ASSUME NEW s \in Seq(Byte), s # <<>>, Begun(s)
  PROVE  /\ s[1] = StartC
         /\ Len(s) >= 6 => /\ Fits(s) /\ Len(s) <= LenField(s) + 8
                           /\ Len(s) >= LenField(s) + 8 => WellFormed(s)
<1>1. PICK f \in Seq(Byte) : WellFormed(f) /\ Leads(s, f)
  BY DEF Begun
<1>2. Len(s) \in Nat /\ Len(f) \in Nat /\ Len(s) > 0
  BY EmptySeq, LenProperties
<1>3. Len(s) <= Len(f) /\ \A i \in 1 .. Len(s) : s[i] = f[i]
  BY <1>1 DEF Leads
<1>4. s[1] = StartC
  BY <1>1, <1>2, <1>3 DEF WellFormed
<1>5. ASSUME Len(s) >= 6
      PROVE  /\ Fits(s) /\ Len(s) <= LenField(s) + 8
             /\ Len(s) >= LenField(s) + 8 => WellFormed(s)
  <2>1. s[3] = f[3] /\ s[4] = f[4] /\ s[5] = f[5] /\ s[6] = f[6]
    BY <1>2, <1>3, <1>5
  <2>2. LenField(s) = LenField(f)
    BY <2>1 DEF LenField
  <2>3. Fits(f) /\ Len(f) = LenField(f) + 8
    BY <1>1 DEF WellFormed
  <2>4. LenField(f) \in Nat
    BY <1>2, <1>3, <1>5, LenFieldType
  <2>5. Len(s) >= LenField(s) + 8 => WellFormed(s)
    <3> SUFFICES ASSUME Len(s) >= LenField(s) + 8 PROVE WellFormed(s)
      OBVIOUS
    <3>1. Len(s) = Len(f)
      BY <1>2, <1>3, <2>2, <2>3, <2>4
    <3>2. s = f
      BY <1>3, <3>1, SeqEqual
    <3> QED
      BY <1>1, <3>2
  <2> QED
    BY <1>2, <1>3, <2>2, <2>3, <2>4, <2>5 DEF Fits
<1> QED
  BY <1>4, <1>5

-----------------------------------------------------------------------------
\* The length read stays as long as the frame is in the buffer.
LengthKept == saveFlag = 3 => dataLen = LenField(data)

\* A history worth comparing is what the buffer holds, and the beginning of a
\* frame, which the receiver has not given up.
HeardInv == clean => heard = data /\ saveFlag \in {1, 2, 3} /\ heard # <<>> /\ Begun(heard)

\* A byte keeps the length of a finished frame.
LEMMA LengthStep ==
  ASSUME TypeOK, Progress, LengthKept, NEW c \in Byte, NEW gap \in Gaps, Receive(c, gap)
  PROVE  LengthKept'
<1>1. PICK flag \in {0, saveFlag} :
        \/ flag = 0 /\ AwaitStart(c)
        \/ flag = 1 /\ Header(c)
        \/ flag = 2 /\ Payload(c)
        \/ flag = 3 /\ UNCHANGED <<saveFlag, data, dataLen>>
  BY DEF Receive, Restarted
<1>2. CASE flag = 0 /\ AwaitStart(c)
  BY <1>2 DEF AwaitStart, LengthKept
<1>3. CASE flag = 1 /\ Header(c)
  <2>1. saveFlag = 1
    BY <1>1, <1>3
  <2>2. saveFlag' \in {0, 1, 2}
    BY <1>3, <2>1, HeaderStep
  <2> QED
    BY <2>2 DEF LengthKept
<1>4. CASE flag = 2 /\ Payload(c)
  <2>1. saveFlag = 2
    BY <1>1, <1>4
  <2>2. dataLen' = dataLen /\ dataLen = LenField(data')
    BY <1>4, <2>1, PayloadStep
  <2> QED
    BY <2>2 DEF LengthKept, LenField
<1>5. CASE flag = 3 /\ UNCHANGED <<saveFlag, data, dataLen>>
  BY <1>1, <1>5 DEF LengthKept, LenField
<1> QED
  BY <1>1, <1>2, <1>3, <1>4, <1>5

\* A byte keeps the history what the buffer holds.
LEMMA FollowStep ==
  ASSUME TypeOK, Progress, AcceptedIsWellFormed, HeardInv,
         NEW c \in Byte, NEW gap \in Gaps, Receive(c, gap), Follow(c, gap),
         sent \in Seq(Byte), Begun(sent)
  PROVE  heard' \in Seq(Byte) /\ clean' \in BOOLEAN /\ HeardInv'
<1> DEFINE more == IF gap > Timeout + 1 THEN <<c>> ELSE Append(heard, c)
<1>1. oldTime \in 0..(ClockW - 1) /\ gap \in 0..(ClockW - 1) /\ Timeout \in Nat
  BY ReceiveAssumption DEF TypeOK
<1>2. PICK t \in {gap, gap - 1} :
        \/ Restarted(t) = 0 /\ AwaitStart(c)
        \/ Restarted(t) = 1 /\ Header(c)
        \/ Restarted(t) = 2 /\ Payload(c)
        \/ Restarted(t) = 3 /\ UNCHANGED <<saveFlag, data, dataLen>>
  BY <1>1, MeasuredPause DEF Receive
<1>3. heard \in Seq(Byte) /\ saveFlag \in 0..3 /\ data \in Seq(Byte)
  BY DEF TypeOK
<1>4. /\ more \in Seq(Byte) /\ more # <<>>
  <2>1. <<c>> \in Seq(Byte) /\ <<c>> # <<>>
    OBVIOUS
  <2>2. Append(heard, c) \in Seq(Byte) /\ Append(heard, c) # <<>>
    BY <1>3, AppendProperties
  <2> QED
    BY <2>1, <2>2
<1>5. CASE ~clean'
  <2>1. clean' = FALSE /\ heard' = <<>>
    BY <1>5 DEF Follow
  <2>2. heard' \in Seq(Byte)
    BY <2>1
  <2> QED
    BY <2>1, <2>2 DEF HeardInv
<1>6. CASE clean'
  <2>1. /\ clean' = TRUE /\ heard' = more
        /\ IF gap > Timeout + 1 THEN saveFlag # 3 ELSE clean /\ gap <= Timeout
        /\ IsPrefix(more, sent)
    BY <1>6 DEF Follow
  <2>2. Begun(more)
    BY <1>4, <2>1, BegunBefore
  <2>3. /\ more[1] = StartC
        /\ Len(more) >= 6 => /\ Fits(more) /\ Len(more) <= LenField(more) + 8
                             /\ Len(more) >= LenField(more) + 8 => WellFormed(more)
    BY <1>4, <2>2, BegunIs
  <2>4. SUFFICES saveFlag' \in {1, 2, 3} /\ data' = more
    <3>1. ASSUME saveFlag' \in {1, 2, 3}, data' = more
          PROVE  HeardInv'
      <4>1. heard' = data' /\ heard' # <<>> /\ Begun(heard)'
        BY <1>4, <2>1, <2>2, <3>1 DEF Begun, WellFormed, Fits, LenField, Leads
      <4> QED
        BY <3>1, <4>1 DEF HeardInv
    <3> QED
      BY <1>4, <2>1, <3>1
  <2>5. CASE gap > Timeout + 1
    <3>1. more = <<c>> /\ c = StartC /\ saveFlag # 3
      BY <2>1, <2>3, <2>5
    <3>2. Restarted(t) = 0
      BY <1>1, <1>2, <1>3, <2>5, <3>1 DEF Restarted
    <3>3. AwaitStart(c)
      <4>1. 0 # 1 /\ 0 # 2 /\ 0 # 3
        OBVIOUS
      <4> QED
        BY <1>2, <3>2, <4>1
    <3>4. saveFlag' = 1 /\ data' = <<c>>
      BY <3>1, <3>3 DEF AwaitStart
    <3>5. data' = more
      BY <3>1, <3>4, Zenon
    <3> QED
      BY <3>4, <3>5
  <2>6. CASE ~(gap > Timeout + 1)
    <3>1. clean /\ gap <= Timeout /\ more = Append(heard, c)
      BY <2>1, <2>6
    <3>2. heard = data /\ saveFlag \in {1, 2, 3}
      BY <3>1 DEF HeardInv
    <3>3. Restarted(t) = saveFlag
      BY <1>1, <1>2, <3>1 DEF Restarted
    <3>4. more = Append(data, c) /\ Len(more) = Len(data) + 1 /\ Len(data) \in Nat
      BY <1>3, <3>1, <3>2, AppendProperties, LenProperties
    <3> HIDE DEF more
    <3>5. CASE saveFlag = 1
      <4>1. Header(c)
        BY <1>2, <3>3, <3>5
      <4>2. /\ data' = Append(data, c)
            /\ saveFlag' \in {1, 2} \/ (Len(data') = 6 /\ ~Fits(data'))
        BY <3>5, <4>1, HeaderStep
      <4>3. data' = more
        BY <3>4, <4>2
      <4>4. ~(Len(data') = 6 /\ ~Fits(data'))
        <5> SUFFICES ASSUME Len(data') = 6 PROVE Fits(data')
          OBVIOUS
        <5>1. Len(more) = 6
          BY <4>3
        <5>2. Len(more) >= 6
          BY <5>1
        <5>3. Fits(more)
          BY <2>3, <5>2
        <5> QED
          BY <4>3, <5>3 DEF Fits
      <4> QED
        BY <4>2, <4>3, <4>4
    <3>6. CASE saveFlag = 2
      <4>1. Payload(c)
        BY <1>2, <3>3, <3>6
      <4>2. /\ data' = Append(data, c) /\ dataLen = LenField(data')
            /\ Len(data') \in 7..MaxLen
            /\ \/ saveFlag' \in {2, 3}
               \/ Len(data') = dataLen + 8 /\ ~WellFormed(data')
        BY <3>6, <4>1, PayloadStep
      <4>3. data' = more
        BY <3>4, <4>2
      <4>4. Len(data') = dataLen + 8 => WellFormed(data')
        <5> SUFFICES ASSUME Len(data') = dataLen + 8 PROVE WellFormed(data')
          OBVIOUS
        <5>1. Len(more) = dataLen + 8 /\ dataLen = LenField(more) /\ Len(more) \in 7..MaxLen
          BY <4>2, <4>3 DEF LenField
        <5>2. Len(more) >= 6 /\ Len(more) >= LenField(more) + 8
          BY <5>1, ReceiveAssumption
        <5>3. WellFormed(more)
          BY <2>3, <5>2
        <5> QED
          BY <4>3, <5>3 DEF WellFormed, Fits
      <4> QED
        BY <4>2, <4>3, <4>4
    <3>7. CASE saveFlag = 3
      <4>1. WellFormed(data)
        BY <3>7 DEF AcceptedIsWellFormed
      <4>2. Len(data) >= 8 /\ Len(data) = LenField(data) + 8
        BY <4>1 DEF WellFormed
      <4>3. LenField(more) = LenField(data)
        BY <1>3, <3>4, <4>2, LenFieldAppend
      <4>4. Len(more) <= LenField(more) + 8
        BY <2>3, <3>4, <4>2
      <4>5. FALSE
        BY <3>4, <4>2, <4>3, <4>4
      <4> QED
        BY <4>5
    <3> QED
      BY <3>2, <3>5, <3>6, <3>7
  <2> QED
    BY <2>5, <2>6
<1> QED
  BY <1>5, <1>6

-----------------------------------------------------------------------------
Strings == Runs(Byte)

\* What is still to be written, one string after the other.
Rest(t) ==
  IF Len(t) = 1 THEN t[1]
  ELSE IF Len(t) = 2 THEN Then(t[1], t[2])
  ELSE IF Len(t) = 3 THEN Then(t[1], Then(t[2], t[3]))
  ELSE Then(t[1], Then(t[2], Then(t[3], t[4])))

\* A call has one to four strings left, the last of which is the checksum and the end.
Ready(t) == t \in Seq(Strings) /\ Len(t) \in 1 .. 4 /\ Len(t[Len(t)]) = 2

\* s lacks the end of a frame.
Lacks(s) == \E f \in Strings : WellFormed(f) /\ Leads(s, f) /\ Len(s) < Len(f)

SendInv ==
  /\ status \in {"idle", "sending", "sent", "failed"}
  /\ sent \in Strings /\ line \in Strings
  /\ status = "idle" => line = <<>>
  /\ status = "sending" => Ready(todo) /\ IsFrameOf(Then(sent, Rest(todo)), want)
  /\ status = "sent" => IsFrameOf(sent, want)
  /\ status = "failed" => Lacks(sent)

-----------------------------------------------------------------------------

\* Strings joined are a string, as long as the two together.
LEMMA JoinStrings ==
  \A s, t \in Strings :
    Then(s, t) \in Strings /\ Len(Then(s, t)) = Len(s) + Len(t) /\ Len(s) \in Nat /\ Len(t) \in Nat
<1>1. \A s, t \in Strings : Then(s, t) \in Strings
  BY ThenIsRun DEF Strings
<1>2. \A s, t \in Strings : Len(Then(s, t)) = Len(s) + Len(t)
  BY ThenLength DEF Strings
<1>3. \A s \in Strings : Len(s) \in Nat
  BY LenProperties DEF Strings, Runs
<1> QED
  BY <1>1, <1>2, <1>3

\* It does not matter which are joined first.
LEMMA JoinTwice ==
  \A s, t, u \in Strings : Then(Then(s, t), u) = Then(s, Then(t, u))
BY ThenAssociates DEF Strings

\* The first string, and the others.
LEMMA RestIs ==
  ASSUME NEW t, Ready(t)
  PROVE  /\ t[1] \in Strings /\ Head(t) = t[1] /\ Rest(t) \in Strings
         /\ Len(t) = 1 => Tail(t) = <<>> /\ Rest(t) = t[1] /\ Len(t[1]) = 2
         /\ Len(t) # 1 => /\ Tail(t) # <<>> /\ Ready(Tail(t)) /\ Rest(Tail(t)) \in Strings
                          /\ Rest(t) = Then(t[1], Rest(Tail(t))) /\ Len(Rest(Tail(t))) >= 2
<1>1. t \in Seq(Strings) /\ Len(t) \in 1 .. 4 /\ t # <<>> /\ Len(t[Len(t)]) = 2
  <2>1. t \in Seq(Strings) /\ Len(t) \in 1 .. 4 /\ Len(t[Len(t)]) = 2
    BY DEF Ready
  <2>2. t # <<>>
    BY <2>1, EmptySeq
  <2> QED
    BY <2>1, <2>2
<1> DEFINE r == Tail(t)
<1>2. /\ Head(t) = t[1] /\ r \in Seq(Strings) /\ Len(r) = Len(t) - 1
      /\ \A i \in 1 .. Len(r) : r[i] = t[i + 1]
  BY <1>1, HeadTailProperties
<1>3. \A i \in 1 .. Len(t) : t[i] \in Strings
  BY <1>1, ElementOfSeq
<1> HIDE DEF r
<1>4. CASE Len(t) = 1
  <2>1. t[1] \in Strings /\ Len(t[1]) = 2 /\ r = <<>> /\ Rest(t) = t[1]
    BY <1>1, <1>2, <1>3, <1>4, EmptySeq DEF Rest
  <2> QED
    BY <1>2, <1>4, <2>1 DEF r
<1>5. CASE Len(t) = 2
  <2>1. /\ t[1] \in Strings /\ t[2] \in Strings /\ Len(r) = 1 /\ r[1] = t[2]
        /\ Len(t[2]) = 2
    BY <1>1, <1>2, <1>3, <1>5
  <2>2. Rest(t) = Then(t[1], t[2]) /\ Rest(r) = t[2]
    BY <1>5, <2>1 DEF Rest
  <2>3. Ready(r) /\ r # <<>>
    BY <1>2, <2>1, EmptySeq DEF Ready
  <2>4. Rest(t) \in Strings
    BY <2>1, <2>2, JoinStrings
  <2>5. Rest(t) = Then(t[1], Rest(r)) /\ Rest(r) \in Strings /\ Len(Rest(r)) >= 2
    BY <2>1, <2>2
  <2> QED
    BY <1>2, <1>5, <2>1, <2>3, <2>4, <2>5 DEF r
<1>6. CASE Len(t) = 3
  <2>1. /\ t[1] \in Strings /\ t[2] \in Strings /\ t[3] \in Strings
        /\ Len(r) = 2 /\ r[1] = t[2] /\ r[2] = t[3] /\ Len(t[3]) = 2
    BY <1>1, <1>2, <1>3, <1>6
  <2>2. Rest(t) = Then(t[1], Then(t[2], t[3])) /\ Rest(r) = Then(t[2], t[3])
    BY <1>6, <2>1 DEF Rest
  <2>3. Ready(r) /\ r # <<>>
    BY <1>2, <2>1, EmptySeq DEF Ready
  <2>4. Rest(r) \in Strings /\ Len(Rest(r)) = Len(t[2]) + Len(t[3]) /\ Len(t[2]) \in Nat
    BY <2>1, <2>2, JoinStrings
  <2>5. Rest(t) \in Strings /\ Rest(t) = Then(t[1], Rest(r))
    BY <2>1, <2>2, <2>4, JoinStrings
  <2>6. Len(Rest(r)) >= 2
    BY <2>1, <2>4
  <2> QED
    BY <1>2, <1>6, <2>1, <2>3, <2>4, <2>5, <2>6 DEF r
<1>7. CASE Len(t) = 4
  <2>1. /\ t[1] \in Strings /\ t[2] \in Strings /\ t[3] \in Strings /\ t[4] \in Strings
        /\ Len(r) = 3 /\ r[1] = t[2] /\ r[2] = t[3] /\ r[3] = t[4] /\ Len(t[4]) = 2
    BY <1>1, <1>2, <1>3, <1>7
  <2>2. Rest(t) = Then(t[1], Then(t[2], Then(t[3], t[4]))) /\ Rest(r) = Then(t[2], Then(t[3], t[4]))
    BY <1>7, <2>1 DEF Rest
  <2>3. Ready(r) /\ r # <<>>
    BY <1>2, <2>1, EmptySeq DEF Ready
  <2> DEFINE z == Then(t[3], t[4])
  <2>4. z \in Strings /\ Len(z) = Len(t[3]) + Len(t[4]) /\ Len(t[3]) \in Nat
    BY <2>1, JoinStrings
  <2>5. Rest(r) = Then(t[2], z) /\ Rest(t) = Then(t[1], Rest(r))
    BY <2>2
  <2> HIDE DEF z
  <2>6. Rest(r) \in Strings /\ Len(Rest(r)) = Len(t[2]) + Len(z) /\ Len(t[2]) \in Nat
    BY <2>1, <2>4, <2>5, JoinStrings
  <2>7. Rest(t) \in Strings
    BY <2>1, <2>5, <2>6, JoinStrings
  <2>8. Len(Rest(r)) >= 2
    <3>1. \A i, j, k \in Nat : k = 2 => i + (j + k) >= 2
      OBVIOUS
    <3>2. Len(t[4]) \in Nat /\ Len(Rest(r)) = Len(t[2]) + (Len(t[3]) + Len(t[4]))
      BY <2>1, <2>4, <2>6
    <3> QED
      BY <2>1, <2>4, <2>6, <3>1, <3>2
  <2> QED
    BY <1>2, <1>7, <2>1, <2>3, <2>5, <2>6, <2>7, <2>8 DEF r
<1>8. Len(t) = 1 \/ Len(t) = 2 \/ Len(t) = 3 \/ Len(t) = 4
  BY <1>1
<1> QED
  BY <1>8, <1>4, <1>5, <1>6, <1>7

\* s is the n elements of u and, behind them, e.
IsAppended(s, u, n, e) ==
  Len(s) = n + 1 /\ s[n + 1] = e /\ \A i \in 1 .. n : s[i] = u[i]

\* A sequence with an element appended.
LEMMA Appended ==
  ASSUME NEW S, NEW u \in Seq(S), NEW e \in S, NEW n, n = Len(u), NEW s, s = Append(u, e)
  PROVE  s \in Seq(S) /\ IsAppended(s, u, n, e)
BY AppendProperties DEF IsAppended

\* One string before the checksum and the end.
LEMMA ReadyFrom1 ==
  ASSUME NEW a \in Strings, NEW t \in Strings, Len(t) = 2
  PROVE  Ready(Append(<<a>>, t)) /\ Rest(Append(<<a>>, t)) = Then(a, t)
<1> DEFINE s == Append(<<a>>, t)
<1> DEFINE u == <<a>>
<1>1. u \in Seq(Strings) /\ Len(u) = 1 /\ u[1] = a
  OBVIOUS
<1> HIDE DEF u
<1>2. s \in Seq(Strings) /\ Len(s) = 2 /\ s[1] = a /\ s[2] = t
  <2>1. s = Append(u, t)
    BY DEF u
  <2> HIDE DEF s
  <2>2. s \in Seq(Strings) /\ IsAppended(s, u, 1, t)
    <3>1. 1 = Len(u) /\ u \in Seq(Strings)
      BY <1>1
    <3> QED
      BY <2>1, <3>1, Appended
  <2> QED
    BY <1>1, <2>2 DEF IsAppended
<1> HIDE DEF s
<1>3. Rest(s) = Then(a, t)
  BY <1>2 DEF Rest
<1>4. Ready(s)
  BY <1>2 DEF Ready
<1> QED
  BY <1>3, <1>4 DEF s

\* Two strings before the checksum and the end.
LEMMA ReadyFrom2 ==
  ASSUME NEW a \in Strings, NEW b \in Strings, NEW t \in Strings, Len(t) = 2
  PROVE  Ready(Append(<<a, b>>, t)) /\ Rest(Append(<<a, b>>, t)) = Then(Then(a, b), t)
<1> DEFINE s == Append(<<a, b>>, t)
<1> DEFINE u == <<a, b>>
<1>1. u \in Seq(Strings) /\ Len(u) = 2 /\ u[1] = a /\ u[2] = b
  OBVIOUS
<1> HIDE DEF u
<1>2. s \in Seq(Strings) /\ Len(s) = 3 /\ s[1] = a /\ s[2] = b /\ s[3] = t
  <2>1. s = Append(u, t)
    BY DEF u
  <2> HIDE DEF s
  <2>2. s \in Seq(Strings) /\ IsAppended(s, u, 2, t)
    <3>1. 2 = Len(u) /\ u \in Seq(Strings)
      BY <1>1
    <3> QED
      BY <2>1, <3>1, Appended
  <2> QED
    BY <1>1, <2>2 DEF IsAppended
<1> HIDE DEF s
<1>3. Rest(s) = Then(a, Then(b, t))
  BY <1>2 DEF Rest
<1>4. Ready(s)
  BY <1>2 DEF Ready
<1>5. Then(Then(a, b), t) = Then(a, Then(b, t))
  BY JoinTwice
<1> QED
  BY <1>3, <1>4, <1>5 DEF s

\* Three strings before them.
LEMMA ReadyFrom3 ==
  ASSUME NEW a \in Strings, NEW b \in Strings, NEW c \in Strings, NEW t \in Strings, Len(t) = 2
  PROVE  /\ Ready(Append(<<a, b, c>>, t))
         /\ Rest(Append(<<a, b, c>>, t)) = Then(Then(Then(a, b), c), t)
<1> DEFINE s == Append(<<a, b, c>>, t)
<1> DEFINE u == <<a, b, c>>
<1>1. u \in Seq(Strings) /\ Len(u) = 3 /\ u[1] = a /\ u[2] = b /\ u[3] = c
  OBVIOUS
<1> HIDE DEF u
<1>2. s \in Seq(Strings) /\ Len(s) = 4 /\ s[1] = a /\ s[2] = b /\ s[3] = c /\ s[4] = t
  <2>1. s = Append(u, t)
    BY DEF u
  <2> HIDE DEF s
  <2>2. s \in Seq(Strings) /\ IsAppended(s, u, 3, t)
    <3>1. 3 = Len(u) /\ u \in Seq(Strings)
      BY <1>1
    <3> QED
      BY <2>1, <3>1, Appended
  <2> QED
    BY <1>1, <2>2 DEF IsAppended
<1> HIDE DEF s
<1>3. Rest(s) = Then(a, Then(b, Then(c, t)))
  BY <1>2 DEF Rest
<1>4. Ready(s)
  BY <1>2 DEF Ready
<1>5. Then(a, b) \in Strings /\ Then(c, t) \in Strings
  BY JoinStrings
<1>6. Then(Then(Then(a, b), c), t) = Then(Then(a, b), Then(c, t))
  BY <1>5, JoinTwice
<1>7. Then(Then(a, b), Then(c, t)) = Then(a, Then(b, Then(c, t)))
  BY <1>5, JoinTwice
<1> QED
  BY <1>3, <1>4, <1>6, <1>7 DEF s

-----------------------------------------------------------------------------
\* Two strings joined begin with the first.
LEMMA JoinLeads ==
  ASSUME NEW s \in Strings, NEW t \in Strings
  PROVE  Leads(s, Then(s, t)) /\ (Len(t) # 0 => Len(s) < Len(Then(s, t)))
<1>1. Len(Then(s, t)) = Len(s) + Len(t) /\ Len(s) \in Nat /\ Len(t) \in Nat
  BY JoinStrings
<1>2. \A i \in 1 .. Len(s) : Then(s, t)[i] = s[i]
  BY ThenElements DEF Strings
<1> QED
  BY <1>1, <1>2 DEF Leads

\* What has been written is the beginning of a frame.
LEMMA SentBegins ==
  ASSUME SendInv, status # "idle"
  PROVE  Begun(sent)
<1>1. sent \in Strings
  BY DEF SendInv
<1>2. CASE status = "sending"
  <2>1. Ready(todo) /\ IsFrameOf(Then(sent, Rest(todo)), want)
    BY <1>2 DEF SendInv
  <2>2. Rest(todo) \in Strings
    BY <2>1, RestIs
  <2>3. Leads(sent, Then(sent, Rest(todo)))
    BY <1>1, <2>2, JoinLeads
  <2> QED
    BY <2>1, <2>3 DEF Begun, IsFrameOf
<1>3. CASE status = "sent"
  <2>1. IsFrameOf(sent, want)
    BY <1>3 DEF SendInv
  <2>2. Leads(sent, sent)
    <3>1. Len(sent) \in Nat
      BY <1>1, JoinStrings
    <3> QED
      BY <3>1 DEF Leads
  <2> QED
    BY <2>1, <2>2 DEF Begun, IsFrameOf
<1>4. CASE status = "failed"
  BY <1>4 DEF SendInv, Lacks, Begun, Strings, Runs
<1> QED
  BY <1>2, <1>3, <1>4 DEF SendInv

\* A call begins.
LEMMA BeginStep ==
  ASSUME SendInv, NEW cmd, NEW payload, NEW parts, Begin(cmd, payload, parts),
         NEW bytes, bytes = FlattenSeq(parts), NEW t, t = Tail2(bytes),
         Ready(Append(parts, t)), Rest(Append(parts, t)) = Then(bytes, t),
         Then(bytes, t) \in Strings,
         IsFrameOf(Then(bytes, t), [cmd |-> cmd, payload |-> payload])
  PROVE  SendInv'
<1>1. /\ status' = "sending" /\ sent' = <<>> /\ line' = line
      /\ todo' = Append(parts, t) /\ want' = [cmd |-> cmd, payload |-> payload]
  BY DEF Begin
<1>2. sent' \in Strings /\ line' \in Strings
  <2>1. line \in Strings
    BY DEF SendInv
  <2>2. <<>> \in Strings
    BY ThenEmpty DEF Strings
  <2> QED
    BY <1>1, <2>1, <2>2
<1>3. Then(sent', Rest(todo')) = Then(bytes, t)
  <2>1. Then(<<>>, Then(bytes, t)) = Then(bytes, t)
    BY ThenEmpty DEF Strings
  <2> QED
    BY <1>1, <2>1
<1>4. Ready(todo') /\ IsFrameOf(Then(sent', Rest(todo')), want')
  BY <1>1, <1>3
<1> QED
  BY <1>1, <1>2, <1>4 DEF SendInv

\* One devWrite more.
LEMMA DevWriteStep == ASSUME SendInv, DevWrite PROVE SendInv'
<1>1. Ready(todo) /\ IsFrameOf(Then(sent, Rest(todo)), want) /\ sent \in Strings /\ line \in Strings
  BY DEF SendInv, DevWrite
<1> DEFINE a == todo[1]
<1>2. /\ a \in Strings /\ Head(todo) = a /\ Rest(todo) \in Strings
      /\ Len(todo) = 1 => Tail(todo) = <<>> /\ Rest(todo) = a
      /\ Len(todo) # 1 => /\ Tail(todo) # <<>> /\ Ready(Tail(todo)) /\ Rest(Tail(todo)) \in Strings
                          /\ Rest(todo) = Then(a, Rest(Tail(todo)))
  BY <1>1, RestIs
<1> HIDE DEF a
<1>3. /\ line' = Then(line, a) /\ sent' = Then(sent, a) /\ todo' = Tail(todo) /\ want' = want
      /\ status' = IF Tail(todo) = <<>> THEN "sent" ELSE "sending"
  BY <1>2 DEF DevWrite, Then
<1>4. line' \in Strings /\ sent' \in Strings
  BY <1>1, <1>2, <1>3, JoinStrings
<1>5. CASE Len(todo) = 1
  <2>1. status' = "sent" /\ IsFrameOf(sent', want')
    BY <1>1, <1>2, <1>3, <1>5
  <2> QED
    BY <1>4, <2>1 DEF SendInv
<1>6. CASE Len(todo) # 1
  <2>1. Then(sent', Rest(todo')) = Then(sent, Rest(todo))
    BY <1>1, <1>2, <1>3, <1>6, JoinTwice
  <2>2. status' = "sending" /\ Ready(todo') /\ IsFrameOf(Then(sent', Rest(todo')), want')
    BY <1>1, <1>2, <1>3, <1>6, <2>1
  <2> QED
    BY <1>4, <2>2 DEF SendInv
<1> QED
  BY <1>5, <1>6

\* One devWrite that fails: the end of the frame is missing.
LEMMA DevWriteFailsStep == ASSUME SendInv, DevWriteFails PROVE SendInv'
<1>1. Ready(todo) /\ IsFrameOf(Then(sent, Rest(todo)), want) /\ sent \in Strings /\ line \in Strings
  BY DEF SendInv, DevWriteFails
<1> DEFINE a == todo[1]
           r == Rest(Tail(todo))
<1>2. /\ a \in Strings /\ Head(todo) = a /\ Rest(todo) \in Strings
      /\ Len(todo) = 1 => Rest(todo) = a /\ Len(a) = 2
      /\ Len(todo) # 1 => r \in Strings /\ Rest(todo) = Then(a, r) /\ Len(r) >= 2
  BY <1>1, RestIs
<1> HIDE DEF a, r
<1>3. PICK k \in 0 .. Len(a) :
         /\ k = 0 \/ k < Len(a)
         /\ line' = line \o SubSeq(a, 1, k) /\ sent' = sent \o SubSeq(a, 1, k)
  BY <1>2 DEF DevWriteFails
<1> DEFINE w == SubSeq(a, 1, k)
           x == SubSeq(a, k + 1, Len(a))
<1>4. w \in Strings /\ x \in Strings /\ a = Then(w, x) /\ Len(x) = Len(a) - k
  <2>1. a \in Seq(Byte)
    BY <1>2 DEF Strings, Runs
  <2> QED
    BY <2>1, CutInTwo DEF Strings, Runs, Then
<1> HIDE DEF w, x
<1>5. line' = Then(line, w) /\ sent' = Then(sent, w)
  BY <1>3 DEF w, Then
<1>6. line' \in Strings /\ sent' \in Strings
  BY <1>1, <1>4, <1>5, JoinStrings
<1>7. \E y \in Strings : Rest(todo) = Then(w, y) /\ Len(y) # 0
  <2>1. CASE Len(todo) = 1
    <3>1. Len(x) # 0
      <4>a. Len(a) = 2
        BY <1>2, <2>1
      <4>b. k = 0 \/ k < 2
        BY <1>3, <4>a
      <4>1. Len(a) = 2 /\ k \in 0 .. 2 /\ k # 2
        <5>1. \A n \in 0 .. 2 : n = 0 \/ n < 2 => n # 2
          OBVIOUS
        <5>2. k \in 0 .. 2
          BY <4>a
        <5> QED
          BY <4>a, <4>b, <5>1, <5>2
      <4>2. Len(x) = 2 - k
        BY <1>4, <4>1
      <4> HIDE DEF x
      <4> QED
        BY <4>1, <4>2
    <3> QED
      BY <1>2, <1>4, <2>1, <3>1
  <2>2. CASE Len(todo) # 1
    <3>1. Then(x, r) \in Strings /\ Len(Then(x, r)) = Len(x) + Len(r) /\ Len(x) \in Nat /\ Len(r) \in Nat
      BY <1>2, <1>4, <2>2, JoinStrings
    <3>2. Len(Then(x, r)) # 0
      BY <1>2, <2>2, <3>1
    <3>3. Rest(todo) = Then(w, Then(x, r))
      BY <1>2, <1>4, <2>2, JoinTwice
    <3> QED
      BY <3>1, <3>2, <3>3
  <2> QED
    BY <2>1, <2>2
<1>8. PICK y \in Strings : Rest(todo) = Then(w, y) /\ Len(y) # 0
  BY <1>7
<1>9. Then(sent, Rest(todo)) = Then(sent', y)
  BY <1>1, <1>4, <1>5, <1>8, JoinTwice
<1>10. Lacks(sent')
  <2>1. Leads(sent', Then(sent', y)) /\ Len(sent') < Len(Then(sent', y))
    BY <1>6, <1>8, JoinLeads
  <2>2. Then(sent', y) \in Strings /\ WellFormed(Then(sent', y))
    BY <1>1, <1>6, <1>9, JoinStrings DEF IsFrameOf
  <2> QED
    BY <2>1, <2>2 DEF Lacks
<1>11. status' = "failed"
  BY DEF DevWriteFails
<1> QED
  BY <1>6, <1>10, <1>11 DEF SendInv

-----------------------------------------------------------------------------
\* Odd types that occur are 1: sky_recOffsetType writes the window only for type 1
\* but counts it for every odd type.
PlainTypes == \A t \in Types : t % 2 = 1 => t = 1

\* One string in front of one or two others.
LEMMA Fronts ==
  /\ \A a, b : <<a>> \o <<b>> = <<a, b>>
  /\ \A a, b, c : <<a>> \o <<b, c>> = <<a, b, c>>
<1>1. ASSUME NEW a, NEW b PROVE <<a>> \o <<b>> = <<a, b>>
  <2> DEFINE S == {a, b}
             r == <<a>>
             s == <<b>>
             t == <<a, b>>
             u == r \o s
  <2>1. /\ r \in Seq(S) /\ s \in Seq(S) /\ t \in Seq(S) /\ 1 = Len(r) /\ 1 = Len(s) /\ Len(t) = 2
        /\ r[1] = a /\ s[1] = b /\ t[1] = a /\ t[2] = b
    OBVIOUS
  <2>0. u = r \o s
    OBVIOUS
  <2> HIDE DEF r, s, t, u, S
  <2>2. u \in Seq(S) /\ IsJoin(u, r, 1, s, 1)
    BY <2>0, <2>1, Joins
  <2>3. Len(u) = Len(t) /\ \A i \in 1 .. Len(u) : u[i] = t[i]
    BY <2>1, <2>2 DEF IsJoin
  <2>4. u = t
    BY <2>1, <2>2, <2>3, SeqEqual
  <2> QED
    BY <2>4 DEF u, r, s, t
<1>2. ASSUME NEW a, NEW b, NEW c PROVE <<a>> \o <<b, c>> = <<a, b, c>>
  <2> DEFINE S == {a, b, c}
             r == <<a>>
             s == <<b, c>>
             t == <<a, b, c>>
             u == r \o s
  <2>1. /\ r \in Seq(S) /\ s \in Seq(S) /\ t \in Seq(S) /\ 1 = Len(r) /\ 2 = Len(s) /\ Len(t) = 3
        /\ r[1] = a /\ s[1] = b /\ s[2] = c /\ t[1] = a /\ t[2] = b /\ t[3] = c
    OBVIOUS
  <2>0. u = r \o s
    OBVIOUS
  <2> HIDE DEF r, s, t, u, S
  <2>2. u \in Seq(S) /\ IsJoin(u, r, 1, s, 2)
    BY <2>0, <2>1, Joins
  <2>3. Len(u) = Len(t) /\ \A i \in 1 .. Len(u) : u[i] = t[i]
    <3>1. u[1] = a /\ u[2] = b /\ u[3] = c /\ Len(u) = 3
      <4>1. Len(u) = 1 + 2 /\ u[1] = r[1] /\ u[1 + 1] = s[1] /\ u[1 + 2] = s[2]
        BY <2>2 DEF IsJoin
      <4> QED
        BY <2>1, <4>1
    <3>2. \A i \in 1 .. 3 : i = 1 \/ i = 2 \/ i = 3
      OBVIOUS
    <3> QED
      BY <2>1, <3>1, <3>2
  <2>4. u = t
    BY <2>1, <2>2, <2>3, SeqEqual
  <2> QED
    BY <2>4 DEF u, r, s, t
<1> QED
  BY <1>1, <1>2

\* What two or three strings are when flattened.
LEMMA FlattenThen ==
  /\ \A a, b : FlattenSeq(<<a, b>>) = Then(a, b)
  /\ \A a, b, c : FlattenSeq(<<a, b, c>>) = Then(Then(a, b), c)
<1>1. \A a, b : FlattenSeq(<<a, b>>) = Then(a, b)
  BY Flatten2 DEF Then
<1>2. \A a, b, c : FlattenSeq(<<a, b, c>>) = Then(Then(a, b), c)
  BY Flatten3 DEF Then
<1> QED
  BY <1>1, <1>2

\* The frame of a call, in the strings it is written in.
LEMMA FrameStrings ==
  ASSUME NEW cmd \in Byte, NEW p \in Strings, Len(p) <= MaxLen - 10,
         NEW bytes, bytes = Then(Head6(cmd, Len(p)), p)
  PROVE  /\ Head6(cmd, Len(p)) \in Strings
         /\ bytes \in Strings
         /\ Tail2(bytes) \in Strings /\ Len(Tail2(bytes)) = 2
         /\ Then(bytes, Tail2(bytes)) \in Strings
         /\ IsFrameOf(Then(bytes, Tail2(bytes)), [cmd |-> cmd, payload |-> p])
<1>1. p \in Seq(Byte) /\ bytes = Head6(cmd, Len(p)) \o p
  BY DEF Strings, Runs, Then
<1>2. /\ Head6(cmd, Len(p)) \in Seq(Byte)
      /\ Tail2(bytes) \in Seq(Byte) /\ Len(Tail2(bytes)) = 2
      /\ bytes \in Seq(Byte)
      /\ IsFrameOf(bytes \o Tail2(bytes), [cmd |-> cmd, payload |-> p])
  BY <1>1, FrameMade
<1>3. Then(bytes, Tail2(bytes)) = bytes \o Tail2(bytes)
  BY DEF Then
<1>4. IsFrameOf(Then(bytes, Tail2(bytes)), [cmd |-> cmd, payload |-> p])
  BY <1>2, <1>3
<1>5. Head6(cmd, Len(p)) \in Strings /\ bytes \in Strings /\ Tail2(bytes) \in Strings
  BY <1>2 DEF Strings, Runs
<1> QED
  BY <1>2, <1>4, <1>5, JoinStrings

\* The arguments of a call.
LEMMA PayloadIs ==
  ASSUME NEW d \in Payloads, NEW e \in Payloads
  PROVE  d \in Strings /\ e \in Strings /\ Len(d) <= MaxLen - 10 /\ Len(d) + Len(e) <= MaxLen - 10
<1>1. d \in Seq(Byte) /\ e \in Seq(Byte)
  BY FrameLinkAssumption
<1>2. Len(d) + Len(e) <= MaxLen - 10
  BY FrameLinkAssumption
<1>3. d \in Strings /\ e \in Strings
  BY <1>1 DEF Strings, Runs
<1>4. Len(d) \in Nat /\ Len(e) \in Nat /\ MaxLen \in Nat
  BY <1>3, JoinStrings, ReceiveAssumption
<1>5. Len(d) <= MaxLen - 10
  <2>1. \A i, j, m \in Nat : i + j <= m - 10 => i <= m - 10
    OBVIOUS
  <2> QED
    BY <1>2, <1>4, <2>1
<1> QED
  BY <1>2, <1>3, <1>5

\* sky_sendData: the data in one part.
LEMMA SendOneStep ==
  ASSUME SendInv, NEW cmd \in Cmds, NEW d \in Payloads, SendParts(cmd, <<d>>)
  PROVE  SendInv'
<1>1. cmd \in Byte /\ d \in Strings /\ Len(d) <= MaxLen - 10
  BY PayloadIs, FrameLinkAssumption
<1>2. FlattenSeq(<<d>>) = d
  BY Flatten1
<1> DEFINE h == Head6(cmd, Len(d))
           bytes == Then(h, d)
           t == Tail2(bytes)
           parts == <<h, d>>
<1>3. /\ h \in Strings /\ bytes \in Strings /\ t \in Strings /\ Len(t) = 2
      /\ Then(bytes, t) \in Strings
      /\ IsFrameOf(Then(bytes, t), [cmd |-> cmd, payload |-> d])
  BY <1>1, FrameStrings
<1>4. Begin(cmd, d, parts)
  <2>1. Begin(cmd, d, <<h>> \o <<d>>)
    BY <1>2 DEF SendParts
  <2> HIDE DEF h
  <2>2. <<h>> \o <<d>> = parts
    BY Fronts
  <2> QED
    BY <2>1, <2>2
<1> HIDE DEF h
<1>5. bytes = FlattenSeq(parts)
  BY FlattenThen
<1> HIDE DEF bytes, t
<1>6. Ready(Append(parts, t)) /\ Rest(Append(parts, t)) = Then(bytes, t)
  BY <1>1, <1>3, ReadyFrom2 DEF bytes
<1> HIDE DEF parts
<1>7. t = Tail2(bytes)
  BY DEF t
<1> QED
  BY <1>3, <1>4, <1>5, <1>6, <1>7, BeginStep

\* The senders of several parts: the header holds the sum of their lengths.
LEMMA SendTwoStep ==
  ASSUME SendInv, NEW cmd \in Cmds, NEW d \in Payloads, NEW e \in Payloads,
         SendParts(cmd, <<d, e>>)
  PROVE  SendInv'
<1>1. cmd \in Byte /\ d \in Strings /\ e \in Strings /\ Len(d) + Len(e) <= MaxLen - 10
  BY PayloadIs, FrameLinkAssumption
<1> DEFINE p == Then(d, e)
<1>2. p = FlattenSeq(<<d, e>>) /\ p \in Strings /\ Len(p) <= MaxLen - 10
  <2>1. p \in Strings /\ Len(p) = Len(d) + Len(e)
    BY <1>1, JoinStrings
  <2>2. p = FlattenSeq(<<d, e>>)
    BY Flatten2 DEF Then
  <2> QED
    BY <1>1, <2>1, <2>2
<1> DEFINE h == Head6(cmd, Len(p))
           bytes == Then(h, p)
           t == Tail2(bytes)
           parts == <<h, d, e>>
<1> HIDE DEF p
<1>3. /\ h \in Strings /\ bytes \in Strings /\ t \in Strings /\ Len(t) = 2
      /\ Then(bytes, t) \in Strings
      /\ IsFrameOf(Then(bytes, t), [cmd |-> cmd, payload |-> p])
  BY <1>1, <1>2, FrameStrings
<1>4. Begin(cmd, p, parts)
  <2>1. Begin(cmd, p, <<h>> \o <<d, e>>)
    BY <1>2 DEF SendParts
  <2> HIDE DEF h
  <2>2. <<h>> \o <<d, e>> = parts
    BY Fronts
  <2> QED
    BY <2>1, <2>2
<1> HIDE DEF h
<1>5. Then(Then(h, d), e) = bytes
  BY <1>1, <1>3, JoinTwice DEF p
<1>6. bytes = FlattenSeq(parts)
  <2>1. FlattenSeq(parts) = Then(Then(h, d), e)
    BY FlattenThen
  <2> QED
    BY <1>5, <2>1
<1> HIDE DEF bytes, t
<1>7. Ready(Append(parts, t)) /\ Rest(Append(parts, t)) = Then(bytes, t)
  <2>1. /\ Ready(Append(<<h, d, e>>, t))
        /\ Rest(Append(<<h, d, e>>, t)) = Then(Then(Then(h, d), e), t)
    BY <1>1, <1>3, ReadyFrom3
  <2> QED
    BY <1>5, <2>1
<1> HIDE DEF parts
<1>8. t = Tail2(bytes)
  BY DEF t
<1> QED
  BY <1>3, <1>4, <1>6, <1>7, <1>8, BeginStep

\* What sky_recOffsetType writes: the offset and the length, and the window.
Prefix(offset, len) == Bytes2(offset) \o Bytes2(len)
Window(d, offset, len) == SubSeq(d, offset + 1, offset + len)

\* The offset and the length, before a window.
LEMMA WindowIs ==
  ASSUME NEW d \in Payloads, NEW offset \in 0 .. 2, NEW len \in 0 .. 2, offset + len <= Len(d)
  PROVE  /\ Prefix(offset, len) \in Strings /\ Len(Prefix(offset, len)) = 4
         /\ Window(d, offset, len) \in Strings /\ Len(Window(d, offset, len)) = len
<1> DEFINE prefix == Prefix(offset, len)
           window == Window(d, offset, len)
<1>1. Bytes2(offset) \in Strings /\ Bytes2(len) \in Strings
      /\ Len(Bytes2(offset)) = 2 /\ Len(Bytes2(len)) = 2
  BY Bytes2Type DEF Strings, Runs
<1>2. prefix \in Strings /\ Len(prefix) = 4
  <2>1. prefix = Then(Bytes2(offset), Bytes2(len))
    BY DEF Then, Prefix
  <2>2. prefix \in Strings /\ Len(prefix) = Len(Bytes2(offset)) + Len(Bytes2(len))
    BY <1>1, <2>1, JoinStrings
  <2> QED
    BY <1>1, <2>2
<1>3. d \in Seq(Byte) /\ Len(d) \in Nat
  BY PayloadIs, JoinStrings DEF Strings, Runs
<1>4. window \in Seq(Byte) /\ Len(window) = len
  <2> DEFINE i == offset + 1
             j == offset + len
  <2>1. \A a, b \in 0 .. 2, n \in Nat : a + b <= n =>
          /\ a + 1 \in 1 .. n + 1 /\ a + b \in (a + 1) - 1 .. n
          /\ (a + b) - (a + 1) + 1 = b
          /\ a + 1 <= a + b + 1
    OBVIOUS
  <2>2. /\ i \in 1 .. Len(d) + 1 /\ j \in i - 1 .. Len(d) /\ j - i + 1 = len
    BY <1>3, <2>1
  <2>3. window = SubSeq(d, i, j)
    BY DEF Window
  <2> HIDE DEF i, j, window
  <2> QED
    BY <1>3, <2>2, <2>3, SubSeqProperties
<1>5. window \in Strings
  BY <1>4 DEF Strings, Runs
<1> QED
  BY <1>2, <1>4, <1>5

\* sky_recOffsetType.
LEMMA RecOffsetStep ==
  ASSUME PlainTypes, SendInv, NEW cmd \in Cmds, NEW d \in Payloads, NEW type \in Types,
         NEW offset \in 0 .. 2, NEW len \in 0 .. 2, offset + len <= Len(d),
         RecOffsetType(cmd, d, offset, len, type)
  PROVE  SendInv'
<1> DEFINE window == Window(d, offset, len)
           prefix == Prefix(offset, len)
<1>2. Begin(cmd,
            prefix \o (IF type % 2 = 1 THEN window ELSE <<>>),
            <<Head6(cmd, IF type % 2 = 1 THEN 4 + len ELSE 4) \o prefix>>
              \o (IF type = 1 THEN <<window>> ELSE <<>>))
  BY DEF RecOffsetType, Window, Prefix
<1> HIDE DEF window, prefix
<1>1. prefix \in Strings /\ Len(prefix) = 4 /\ window \in Strings /\ Len(window) = len
  BY WindowIs DEF window, prefix
<1>3. cmd \in Byte /\ 6 <= MaxLen - 10 /\ MaxLen \in Nat
  BY FrameLinkAssumption, ReceiveAssumption
<1>4. CASE type % 2 = 1
  <2>1. type = 1
    BY <1>4 DEF PlainTypes
  <2> DEFINE p == Then(prefix, window)
             h == Head6(cmd, Len(p))
             bytes == Then(h, p)
             t == Tail2(bytes)
             parts == <<Then(h, prefix), window>>
  <2>2. p \in Strings /\ Len(p) = 4 + len /\ Len(p) <= MaxLen - 10
    <3>1. p \in Strings /\ Len(p) = Len(prefix) + Len(window)
      BY <1>1, JoinStrings
    <3>2. \A m \in Nat, i \in 0 .. 2 : 6 <= m - 10 => 4 + i <= m - 10
      OBVIOUS
    <3> QED
      BY <1>1, <1>3, <3>1, <3>2
  <2>3. Begin(cmd, p, parts)
    <3>1. Begin(cmd, prefix \o window, <<Head6(cmd, 4 + len) \o prefix>> \o <<window>>)
      BY <1>2, <1>4, <2>1
    <3>2. prefix \o window = p /\ Head6(cmd, 4 + len) \o prefix = Then(h, prefix)
      BY <2>2 DEF Then
    <3> HIDE DEF p, h
    <3>3. <<Then(h, prefix)>> \o <<window>> = parts
      BY Fronts
    <3> QED
      BY <3>1, <3>2, <3>3
  <2> HIDE DEF p
  <2>4. /\ h \in Strings /\ bytes \in Strings /\ t \in Strings /\ Len(t) = 2
        /\ Then(bytes, t) \in Strings
        /\ IsFrameOf(Then(bytes, t), [cmd |-> cmd, payload |-> p])
    BY <1>3, <2>2, FrameStrings
  <2> HIDE DEF h
  <2>5. Then(Then(h, prefix), window) = bytes /\ Then(h, prefix) \in Strings
    BY <1>1, <2>4, JoinTwice, JoinStrings DEF p
  <2>6. bytes = FlattenSeq(parts)
    <3>1. FlattenSeq(parts) = Then(Then(h, prefix), window)
      BY FlattenThen
    <3> QED
      BY <2>5, <3>1
  <2> HIDE DEF bytes, t
  <2>7. Ready(Append(parts, t)) /\ Rest(Append(parts, t)) = Then(bytes, t)
    <3> DEFINE a == Then(h, prefix)
    <3>1. a \in Strings /\ Then(a, window) = bytes
      BY <2>5
    <3>2. parts = <<a, window>>
      OBVIOUS
    <3> HIDE DEF a, parts
    <3>3. /\ Ready(Append(<<a, window>>, t))
          /\ Rest(Append(<<a, window>>, t)) = Then(Then(a, window), t)
      BY <1>1, <2>4, <3>1, ReadyFrom2
    <3> QED
      BY <3>1, <3>2, <3>3
  <2> HIDE DEF parts
  <2>8. t = Tail2(bytes)
    BY DEF t
  <2> QED
    BY <2>3, <2>4, <2>6, <2>7, <2>8, BeginStep
<1>5. CASE type % 2 # 1
  <2>1. type # 1
    BY <1>5
  <2> DEFINE h == Head6(cmd, Len(prefix))
             bytes == Then(h, prefix)
             t == Tail2(bytes)
             parts == <<bytes>>
  <2>2. Len(prefix) <= MaxLen - 10
    <3>1. \A m \in Nat : 6 <= m - 10 => 4 <= m - 10
      OBVIOUS
    <3> QED
      BY <1>1, <1>3, <3>1
  <2>3. Begin(cmd, prefix, parts)
    <3>1. Begin(cmd, prefix \o <<>>, <<Head6(cmd, 4) \o prefix>> \o <<>>)
      BY <1>2, <1>5, <2>1
    <3>2. prefix \o <<>> = prefix
      BY <1>1, ThenEmpty DEF Strings, Then
    <3>3. Head6(cmd, 4) \o prefix = bytes
      BY <1>1 DEF Then
    <3> HIDE DEF bytes
    <3>4. <<bytes>> \o <<>> = parts
      OBVIOUS
    <3> QED
      BY <3>1, <3>2, <3>3, <3>4
  <2>4. /\ bytes \in Strings /\ t \in Strings /\ Len(t) = 2
        /\ Then(bytes, t) \in Strings
        /\ IsFrameOf(Then(bytes, t), [cmd |-> cmd, payload |-> prefix])
    BY <1>1, <1>3, <2>2, FrameStrings
  <2> HIDE DEF bytes, t
  <2>5. bytes = FlattenSeq(parts)
    BY Flatten1
  <2>6. Ready(Append(parts, t)) /\ Rest(Append(parts, t)) = Then(bytes, t)
    BY <2>4, ReadyFrom1
  <2> HIDE DEF parts
  <2>7. t = Tail2(bytes)
    BY DEF t
  <2> QED
    BY <2>3, <2>4, <2>5, <2>6, <2>7, BeginStep
<1> QED
  BY <1>4, <1>5

-----------------------------------------------------------------------------
\* The inductive invariant of the line: the receiver's, and what the sender is at.
LinkInv ==
  /\ TypeOK /\ Progress /\ AcceptedIsWellFormed /\ LengthKept
  /\ HeardInv /\ SendInv

\* The invariant holds at first.
LEMMA InitLinkInv == LinkInit => LinkInv
<1> SUFFICES ASSUME LinkInit
             PROVE  LinkInv
  OBVIOUS
<1>1. TypeOK /\ Progress /\ AcceptedIsWellFormed
  BY InitIInv DEF LinkInit, IInv
<1>2. LengthKept /\ HeardInv
  BY DEF LinkInit, Init, LengthKept, HeardInv
<1>3. SendInv
  <2>1. <<>> \in Strings
    BY ThenEmpty DEF Strings
  <2> QED
    BY <2>1 DEF LinkInit, SendInv
<1> QED
  BY <1>1, <1>2, <1>3 DEF LinkInv

\* The sender leaves the receiver as it is.
LEMMA RxUnchanged == LinkInv /\ UNCHANGED vars => (LinkInv' <=> SendInv')
<1> SUFFICES ASSUME LinkInv, UNCHANGED vars
             PROVE  LinkInv' <=> SendInv'
  OBVIOUS
<1>1. TypeOK' /\ Progress' /\ AcceptedIsWellFormed'
  BY DEF LinkInv, vars, TypeOK, Progress, AcceptedIsWellFormed
<1>2. LengthKept' /\ HeardInv'
  BY DEF LinkInv, vars, LengthKept, HeardInv
<1> QED
  BY <1>1, <1>2 DEF LinkInv

\* A byte arrives.
LEMMA LinkArriveStep == ASSUME LinkInv, LinkArrive PROVE LinkInv'
<1>1. /\ TypeOK /\ Progress /\ AcceptedIsWellFormed /\ LengthKept /\ HeardInv /\ SendInv
  BY DEF LinkInv
<1>2. line \in Seq(Byte) /\ line # <<>> /\ line' = Tail(line) /\ UNCHANGED <<holding, sender>>
  BY <1>1 DEF LinkArrive, SendInv, Strings, Runs
<1>3. PICK c \in Byte, gap \in Gaps : Receive(c, gap) /\ Follow(c, gap)
  <2>1. Head(line) \in Byte
    BY <1>2, HeadTailProperties
  <2> QED
    BY <2>1 DEF LinkArrive
<1>4. status # "idle" /\ sent \in Seq(Byte)
  BY <1>1, <1>2 DEF SendInv, Strings, Runs
<1>5. Begun(sent)
  BY <1>1, <1>4, SentBegins
<1>6. /\ saveFlag' \in 0..3 /\ data' \in Seq(Byte) /\ Len(data') <= MaxLen
      /\ dataLen' \in Nat /\ oldTime' \in 0..(ClockW - 1)
      /\ Progress' /\ AcceptedIsWellFormed'
  BY <1>1, <1>3, ReceiveStep
<1>7. LengthKept'
  BY <1>1, <1>3, LengthStep
<1>8. heard' \in Seq(Byte) /\ clean' \in BOOLEAN /\ HeardInv'
  BY <1>1, <1>3, <1>4, <1>5, FollowStep
<1>9. TypeOK'
  <2>1. holding' \in BOOLEAN
    BY <1>1, <1>2 DEF TypeOK
  <2> QED
    BY <1>6, <1>8, <2>1 DEF TypeOK
<1>10. SendInv'
  <2>1. line' \in Strings
    BY <1>2, HeadTailProperties DEF Strings, Runs
  <2>2. status' = status /\ todo' = todo /\ sent' = sent /\ want' = want
    BY <1>2 DEF sender
  <2> QED
    BY <1>1, <1>4, <2>1, <2>2 DEF SendInv
<1> QED
  BY <1>6, <1>7, <1>8, <1>9, <1>10 DEF LinkInv

\* The main loop takes a frame or gives the buffer back.
LEMMA MainLoopStep == ASSUME LinkInv, MainLoop PROVE LinkInv'
<1>1. SendInv'
  <2>1. /\ status' = status /\ todo' = todo /\ sent' = sent /\ want' = want /\ line' = line
    BY DEF MainLoop, sender
  <2> QED
    BY <2>1 DEF LinkInv, SendInv
<1>2. CASE Take
  <2>1. /\ UNCHANGED <<saveFlag, data, dataLen, oldTime, heard, clean>> /\ holding' = TRUE
    BY <1>2 DEF Take, rxVars
  <2>2. TypeOK' /\ Progress' /\ AcceptedIsWellFormed'
    BY <2>1 DEF LinkInv, TypeOK, Progress, AcceptedIsWellFormed
  <2>3. LengthKept' /\ HeardInv'
    BY <2>1 DEF LinkInv, LengthKept, HeardInv
  <2> QED
    BY <1>1, <2>2, <2>3 DEF LinkInv
<1>3. CASE Release
  <2>1. /\ UNCHANGED <<data, dataLen, oldTime>> /\ holding' = FALSE
        /\ saveFlag' = 0 /\ heard' = <<>> /\ clean' = FALSE
    BY <1>3 DEF Release
  <2>2. TypeOK'
    <3>1. data' \in Seq(Byte) /\ Len(data') <= MaxLen /\ dataLen' \in Nat
          /\ oldTime' \in 0..(ClockW - 1)
      BY <2>1 DEF LinkInv, TypeOK
    <3>2. saveFlag' \in 0..3 /\ heard' \in Seq(Byte)
      BY <2>1
    <3>3. holding' \in BOOLEAN /\ clean' \in BOOLEAN
      BY <2>1
    <3> QED
      BY <3>1, <3>2, <3>3 DEF TypeOK
  <2>3. Progress' /\ AcceptedIsWellFormed' /\ LengthKept' /\ HeardInv'
    BY <2>1 DEF Progress, AcceptedIsWellFormed, LengthKept, HeardInv
  <2> QED
    BY <1>1, <2>2, <2>3 DEF LinkInv
<1> QED
  BY <1>2, <1>3 DEF MainLoop

\* Every step keeps the invariant, if the odd types are 1.
LEMMA NextLinkInv == PlainTypes /\ LinkInv /\ [LinkNext]_linkVars => LinkInv'
<1> SUFFICES ASSUME PlainTypes, LinkInv, [LinkNext]_linkVars
             PROVE  LinkInv'
  OBVIOUS
<1>s. SendInv
  BY DEF LinkInv
<1>1. ASSUME NEW c \in Cmds, NEW d \in Payloads, SendParts(c, <<d>>) PROVE LinkInv'
  BY <1>s, <1>1, SendOneStep, RxUnchanged DEF SendParts, Begin
<1>2. ASSUME NEW c \in Cmds, NEW d \in Payloads, NEW e \in Payloads, SendParts(c, <<d, e>>)
      PROVE  LinkInv'
  BY <1>s, <1>2, SendTwoStep, RxUnchanged DEF SendParts, Begin
<1>3. ASSUME NEW c \in Cmds, NEW d \in Payloads, NEW t \in Types, NEW len \in 0 .. 2,
             NEW offset \in 0 .. 2, offset + len <= Len(d), RecOffsetType(c, d, offset, len, t)
      PROVE  LinkInv'
  BY <1>s, <1>3, RecOffsetStep, RxUnchanged DEF RecOffsetType, Begin
<1>4. CASE DevWrite
  BY <1>s, <1>4, DevWriteStep, RxUnchanged DEF DevWrite
<1>5. CASE DevWriteFails
  BY <1>s, <1>5, DevWriteFailsStep, RxUnchanged DEF DevWriteFails
<1>6. CASE LinkArrive
  BY <1>6, LinkArriveStep
<1>7. CASE MainLoop
  BY <1>7, MainLoopStep
<1>8. CASE UNCHANGED linkVars
  <2>1. SendInv'
    BY <1>s, <1>8 DEF linkVars, sender, SendInv
  <2> QED
    BY <1>8, <2>1, RxUnchanged DEF linkVars
<1> QED
  BY <1>1, <1>2, <1>3, <1>4, <1>5, <1>6, <1>7, <1>8 DEF LinkNext

\* The invariant of every behaviour of the line.
LEMMA LinkSpecInv == PlainTypes => (LinkSpec => []LinkInv)
<1>1. LinkInit => LinkInv
  BY InitLinkInv
<1>2. ASSUME PlainTypes PROVE LinkInv /\ [LinkNext]_linkVars => LinkInv'
  BY <1>2, NextLinkInv
<1>3. ASSUME PlainTypes PROVE LinkSpec => []LinkInv
  BY <1>1, <1>2, <1>3, PTL DEF LinkSpec
<1> QED
  BY <1>3

\* A frame written in full after a silence arrives as the sender was called,
\* whatever was sent before it (communication.c:257-456 against 92-153).
THEOREM FramesArrive == PlainTypes => (LinkSpec => []SentIsReceived)
<1>1. LinkInv => SentIsReceived
  <2> SUFFICES ASSUME LinkInv, status = "sent", clean, heard = sent
               PROVE  /\ saveFlag = 3 /\ data = sent
                      /\ data[2] = want.cmd /\ SubSeq(data, 7, 6 + dataLen) = want.payload
    BY DEF SentIsReceived
  <2>1. IsFrameOf(sent, want)
    BY DEF LinkInv, SendInv
  <2>2. data = sent /\ saveFlag \in {1, 2, 3} /\ WellFormed(data) /\ data \in Seq(Byte)
    BY <2>1 DEF LinkInv, HeardInv, IsFrameOf
  <2>3. Len(data) >= 8 /\ Len(data) = LenField(data) + 8
    BY <2>2 DEF WellFormed
  <2>4. saveFlag = 3
    <3>1. Len(data) \in Nat
      BY <2>2, LenProperties
    <3>2. saveFlag # 1
      BY <2>3, <3>1 DEF LinkInv, Progress
    <3>3. saveFlag # 2
      <4>1. saveFlag = 2 => dataLen = LenField(data) /\ Len(data) < dataLen + 8
        BY DEF LinkInv, Progress
      <4> QED
        BY <2>3, <3>1, <4>1
    <3> QED
      BY <2>2, <3>2, <3>3
  <2>5. dataLen = LenField(data)
    BY <2>4 DEF LinkInv, LengthKept
  <2> QED
    BY <2>1, <2>2, <2>4, <2>5 DEF IsFrameOf
<1>2. ASSUME PlainTypes PROVE LinkSpec => []SentIsReceived
  BY <1>1, <1>2, LinkSpecInv, PTL
<1> QED
  BY <1>2

\* A frame that a failing devWrite cut off is not taken for one
\* (communication.c:313-314, 99-103).
THEOREM CutOffsAreDropped == PlainTypes => (LinkSpec => []CutOffIsNotReceived)
<1>1. LinkInv => CutOffIsNotReceived
  <2> SUFFICES ASSUME LinkInv, status = "failed", clean, heard = sent, saveFlag = 3
               PROVE  FALSE
    BY DEF CutOffIsNotReceived
  <2>1. WellFormed(sent) /\ sent \in Seq(Byte)
    BY DEF LinkInv, HeardInv, AcceptedIsWellFormed, TypeOK
  <2>2. PICK f \in Strings : WellFormed(f) /\ Leads(sent, f) /\ Len(sent) < Len(f)
    BY DEF LinkInv, SendInv, Lacks
  <2>3. /\ Len(sent) >= 8 /\ Len(sent) = LenField(sent) + 8 /\ Len(f) = LenField(f) + 8
        /\ \A i \in 1 .. Len(sent) : sent[i] = f[i]
    BY <2>1, <2>2 DEF WellFormed, Leads
  <2>4. 3 \in 1 .. Len(sent) /\ 4 \in 1 .. Len(sent) /\ 5 \in 1 .. Len(sent) /\ 6 \in 1 .. Len(sent)
    <3>1. Len(sent) \in Nat
      BY <2>1, LenProperties
    <3> QED
      BY <2>3, <3>1
  <2>5. LenField(sent) = LenField(f)
    BY <2>3, <2>4 DEF LenField
  <2>6. Len(sent) \in Nat /\ Len(sent) = Len(f)
    BY <2>1, <2>3, <2>5, LenProperties
  <2> QED
    BY <2>2, <2>6
<1>2. ASSUME PlainTypes PROVE LinkSpec => []CutOffIsNotReceived
  BY <1>1, <1>2, LinkSpecInv, PTL
<1> QED
  BY <1>2
=============================================================================
