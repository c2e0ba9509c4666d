---------------------------- MODULE ReceivePact ----------------------------
(***************************************************************************)
(* skySoftware/src/communication.c: the byte-by-byte frame receiver.       *)
(*                                                                         *)
(* A frame is  startc cmd len(4, little endian) payload xor endc.  The     *)
(* receive interrupt calls sky_receivePact for each byte; the main loop    *)
(* waits for saveFlag to become 3, works on the frame where it lies in the *)
(* buffer, and hands the buffer back by clearing saveFlag.  A silence of   *)
(* more than Timeout ms sends an unfinished frame back to the start.       *)
(*                                                                         *)
(* The line is arbitrary: any byte may arrive at any time, so lost,        *)
(* duplicated and corrupted bytes are all here.                            *)
(*                                                                         *)
(* data holds the bytes of the buffer below saveNum (what is above is left *)
(* over from earlier frames and nobody reads it), so saveNum is Len(data). *)
(* The clock is read only when a byte arrives, so it moves with the bytes: *)
(* each arrives gap ms after the one before.                               *)
(***************************************************************************)
EXTENDS Integers, Sequences

CONSTANTS
  B,            \* a byte is one of 0..B-1 (256)
  ByteXor(_, _),    \* exclusive or of two bytes
  StartC, EndC, \* the frame's first and last byte
  MaxLen,       \* maxlen, the size of the buffer
  Timeout,      \* the silence that restarts the reception, in ms (50)
  ClockW,       \* the clock counts modulo this (2^32)
  Gaps          \* the times between two bytes, shorter than ClockW

Byte == 0..(B - 1)

\* A buffer shorter than 10 would make maxlen - 10 wrap; every caller of
\* sky_ConmmunicationInit passes a longer one.
ASSUME ReceiveAssumption ==
  /\ B \in Nat \ {0}
  /\ StartC \in Byte /\ EndC \in Byte
  /\ MaxLen \in Nat /\ MaxLen >= 10
  /\ Timeout \in Nat /\ ClockW \in Nat /\ Timeout + 2 < ClockW
  /\ Gaps \subseteq 0..(ClockW - 1)

VARIABLES
  saveFlag,     \* 0 idle, 1 in the header, 2 in the payload, 3 frame complete
  data,         \* the bytes below saveNum
  dataLen,      \* the payload length read from the header
  oldTime,      \* when the last byte arrived
  holding,      \* the main loop works on the frame in the buffer
  heard,        \* history: the bytes since the last silence, while these may
                \* still become one frame
  clean         \* history: heard is worth comparing with what was received

rxVars == <<saveFlag, data, dataLen, oldTime>>
vars == <<saveFlag, data, dataLen, oldTime, holding, heard, clean>>

-----------------------------------------------------------------------------
\* The 32-bit length in the header.
LenField(f) == f[3] + B * (f[4] + B * (f[5] + B * f[6]))

\* Exclusive or of the bytes 2 to n of f: what the sender puts after the
\* payload and the receiver computes again.
Checksum(f, n) ==
  LET x[i \in Nat] == IF i < 2 THEN 0 ELSE ByteXor(x[i - 1], f[i]) IN x[n]

\* sky_GetMeasureTime_ms: the time since ts.  The branch for a wrapped clock
\* is one short.
MeasureTime(tmp, ts) ==
  IF tmp < ts THEN (ClockW - 1) - ts + tmp ELSE tmp - ts

\* Mutant of Restarted: a silence also takes back a finished frame.
RestartedAlways(t) == IF t > Timeout THEN 0 ELSE saveFlag

\* Mutant of Restarted: no silence check.
RestartedNever(t) == saveFlag

\* The flag after the silence check.
Restarted(t) == IF t > Timeout /\ saveFlag # 3 THEN 0 ELSE saveFlag

\* Waiting for the first byte of a frame.
AwaitStart(c) ==
  IF c = StartC
    THEN saveFlag' = 1 /\ data' = <<c>> /\ UNCHANGED dataLen
    ELSE saveFlag' = 0 /\ UNCHANGED <<data, dataLen>>

\* Mutant of Header: the length is compared with the whole buffer.
HeaderTooLong(c) ==
  /\ data' = Append(data, c)
  /\ IF Len(data) + 1 < 6
       THEN saveFlag' = 1 /\ UNCHANGED dataLen
       ELSE /\ dataLen' = LenField(data')
            /\ saveFlag' = IF dataLen' > MaxLen THEN 0 ELSE 2

\* In the header; its sixth byte completes the length, which must fit.
Header(c) ==
  /\ data' = Append(data, c)
  /\ IF Len(data) + 1 < 6
       THEN saveFlag' = 1 /\ UNCHANGED dataLen
       ELSE /\ dataLen' = LenField(data')
            /\ saveFlag' = IF dataLen' > MaxLen - 10 THEN 0 ELSE 2

\* Mutant of Payload: the end character is not looked at.
PayloadAnyEnd(c) ==
  /\ data' = Append(data, c)
  /\ saveFlag' =
       IF Len(data) + 1 < dataLen + 8 THEN 2
       ELSE IF Checksum(data', dataLen + 6) = data'[dataLen + 7] THEN 3 ELSE 0
  /\ UNCHANGED dataLen

\* In the payload; the last byte completes the frame, which must check.
Payload(c) ==
  /\ data' = Append(data, c)
  /\ saveFlag' =
       IF Len(data) + 1 < dataLen + 8 THEN 2
       ELSE IF /\ Checksum(data', dataLen + 6) = data'[dataLen + 7]
               /\ data'[dataLen + 8] = EndC
            THEN 3 ELSE 0
  /\ UNCHANGED dataLen

\* sky_receivePact(c), gap ms after the byte before.
Receive(c, gap) ==
  LET tmp  == (oldTime + gap) % ClockW
      flag == Restarted(MeasureTime(tmp, oldTime))
  IN  /\ oldTime' = tmp
      /\ \/ flag = 0 /\ AwaitStart(c)
         \/ flag = 1 /\ Header(c)
         \/ flag = 2 /\ Payload(c)
         \/ flag = 3 /\ UNCHANGED <<saveFlag, data, dataLen>>

-----------------------------------------------------------------------------
\* What a frame is, for the properties below.
Fits(f) == LenField(f) <= MaxLen - 10

WellFormed(f) ==
  /\ Len(f) >= 8
  /\ f[1] = StartC
  /\ Fits(f) /\ Len(f) = LenField(f) + 8
  /\ Checksum(f, Len(f) - 2) = f[Len(f) - 1]
  /\ f[Len(f)] = EndC

\* f is, or may become, a frame.
Viable(f) ==
  /\ f # <<>> /\ f[1] = StartC
  /\ Len(f) >= 6 => Fits(f) /\ Len(f) <= LenField(f) + 8

\* The history of the line.  It starts over after a silence that no reading of
\* the clock can miss, and is given up when it cannot be a frame, when a pause
\* leaves it open whether the receiver starts over, and when the receiver was
\* not free to listen.
Listen(c, gap) ==
  LET more == IF gap > Timeout + 1 THEN <<c>> ELSE Append(heard, c)
      ok   == /\ saveFlag # 3
              /\ gap > Timeout + 1 \/ (clean /\ gap <= Timeout)
              /\ Viable(more)
  IN  /\ clean' = ok
      /\ heard' = IF ok THEN more ELSE <<>>

-----------------------------------------------------------------------------
Init ==
  /\ saveFlag = 0 /\ data = <<>> /\ dataLen = 0 /\ oldTime = 0
  /\ holding = FALSE
  /\ heard = <<>> /\ clean = FALSE

\* The receive interrupt: Write2dev, sky_devSingle, sky_receivePactData.
Arrive ==
  \E c \in Byte, gap \in Gaps :
    Receive(c, gap) /\ Listen(c, gap) /\ UNCHANGED holding

\* The main loop finds a complete frame (iapUpRun and the bus nodes poll for
\* saveFlag = 3) and starts to work on it.
Take ==
  /\ ~holding /\ saveFlag = 3
  /\ holding' = TRUE
  /\ UNCHANGED <<rxVars, heard, clean>>

\* It is done and hands the buffer back.
Release ==
  /\ holding
  /\ saveFlag' = 0 /\ holding' = FALSE
  /\ heard' = <<>> /\ clean' = FALSE
  /\ UNCHANGED <<data, dataLen, oldTime>>

\* A main loop that is about to send a command throws away what is there,
\* finished or not (sky_runCmdPact).
Discard ==
  /\ ~holding
  /\ saveFlag' = 0
  /\ heard' = <<>> /\ clean' = FALSE
  /\ UNCHANGED <<data, dataLen, oldTime, holding>>

Next == Arrive \/ Take \/ Release \/ Discard

Spec == Init /\ [][Next]_vars

-----------------------------------------------------------------------------
\* Every variable holds a value of its type, and the bytes fit the buffer.
TypeOK ==
  /\ saveFlag \in 0..3
  /\ data \in Seq(Byte) /\ Len(data) <= MaxLen
  /\ dataLen \in Nat
  /\ oldTime \in 0..(ClockW - 1)
  /\ holding \in BOOLEAN
  /\ heard \in Seq(Byte) /\ clean \in BOOLEAN

\* Where the reception stands is what saveFlag says.
Progress ==
  /\ saveFlag \in {1, 2} => data # <<>> /\ data[1] = StartC
  /\ saveFlag = 1 => Len(data) < 6
  /\ saveFlag = 2 => /\ Len(data) >= 6 /\ dataLen = LenField(data)
                     /\ Fits(data) /\ Len(data) < dataLen + 8

\* communication.c:92-153: whatever arrives, in whatever order and with
\* whatever pauses, and whenever the main loop clears the flag, what is handed
\* over as a frame is one: right length, checksum and end, inside the buffer.
AcceptedIsWellFormed == saveFlag = 3 => WellFormed(data)

\* communication.c:84: while the main loop works on a frame no byte from the
\* line, and no silence, touches it.
FrameStable ==
  [][holding /\ holding' => UNCHANGED <<saveFlag, data, dataLen>>]_vars

\* The main loop never works on a frame the receiver has not completed.
HeldIsComplete == holding => saveFlag = 3

\* communication.c:99-103: garbage, half frames and bad checksums before it do
\* no lasting harm: a well-formed frame that follows a silence, with no further
\* silence inside it and nobody clearing the flag, is accepted as it was sent.
GoodFrameAccepted ==
  clean /\ WellFormed(heard) => saveFlag = 3 /\ data = heard

\* The comment above sky_receivePact (communication.c:83): a pause of more than
\* 50 ms counts as a timeout and restarts an unfinished frame.
SilenceRestarts ==
  [][\A gap \in Gaps :
       /\ gap > Timeout /\ oldTime' = (oldTime + gap) % ClockW
       /\ saveFlag \in {1, 2}
       => saveFlag' = 0 \/ (saveFlag' = 1 /\ Len(data') = 1)]_vars
=============================================================================
