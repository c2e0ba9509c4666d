----------------------------- MODULE NfcBridge -----------------------------
(***************************************************************************)
(* f103_C8t6RTThreadUSBNFCInitialise/user/main.c: two boards carry bytes   *)
(* between their serial ports over NFC.  On each, the receive interrupt    *)
(* fills sendFifo, a thread of its own exchanges what is there with the    *)
(* other board, and the main loop empties recFifo into the serial port.    *)
(*                                                                         *)
(* The initiator's exchange is nfc_Transceive; the target's is nfc_recve   *)
(* and nfc_send.  Either side may fail at any moment it waits on the air   *)
(* and connects anew.  Nothing is sent a second time.  FIFOs are the       *)
(* bounded queues MyFIFO implements.  A byte is its number in its stream.  *)
(***************************************************************************)
EXTENDS Integers, Sequences

CONSTANTS
  NfcFifoLen,   \* what sendFifo and recFifo hold
  ChunkLen,     \* what one exchange carries, 262
  MaxBytes,     \* bound: the bytes each serial port brings
  MaxFails      \* bound: the exchanges that fail

ASSUME NfcAssumption ==
  /\ NfcFifoLen \in Nat \ {0} /\ ChunkLen \in Nat \ {0}
  /\ MaxBytes \in Nat /\ MaxFails \in Nat

Boards == {"initiator", "target"}

Other(b) == IF b = "initiator" THEN "target" ELSE "initiator"

VARIABLES
  nfcPc,        \* what each board's thread does
  sendFifo, recFifo,
  buffer,       \* each thread's buffer: what it took from sendFifo
  air,          \* the frame on the air: its sender and its bytes, or Silent
  \* history
  came,         \* per board, the bytes its serial port has brought
  dropped,      \* per board, how many of its bytes found a FIFO full
  fails,        \* how many exchanges failed
  put         \* per board, the bytes that went out of its serial port

nfcVars == <<nfcPc, sendFifo, recFifo, buffer, air, came, dropped, fails, put>>

Silent == [by |-> "none", bytes |-> <<>>]

NfcInit ==
  /\ nfcPc = [b \in Boards |-> "connect"]
  /\ sendFifo = [b \in Boards |-> <<>>] /\ recFifo = [b \in Boards |-> <<>>]
  /\ buffer = [b \in Boards |-> <<>>] /\ air = Silent
  /\ came = [b \in Boards |-> 0] /\ dropped = [b \in Boards |-> 0]
  /\ fails = 0 /\ put = [b \in Boards |-> <<>>]

Least(m, n) == IF m < n THEN m ELSE n

\* The serial port's interrupt: Write2dev into sendFifo.
SerialIn(b) ==
  /\ came[b] < MaxBytes
  /\ came' = [came EXCEPT ![b] = @ + 1]
  /\ IF Len(sendFifo[b]) < NfcFifoLen
     THEN sendFifo' = [sendFifo EXCEPT ![b] = Append(@, came'[b])] /\ UNCHANGED dropped
     ELSE dropped' = [dropped EXCEPT ![b] = @ + 1] /\ UNCHANGED sendFifo
  /\ UNCHANGED <<nfcPc, recFifo, buffer, air, fails, put>>

\* One turn of the main loop's while: recFifo to the serial port.
SerialOut(b) ==
  /\ recFifo[b] # <<>>
  /\ put' = [put EXCEPT ![b] = @ \o recFifo[b]]
  /\ recFifo' = [recFifo EXCEPT ![b] = <<>>]
  /\ UNCHANGED <<nfcPc, sendFifo, buffer, air, came, dropped, fails>>

-----------------------------------------------------------------------------

\* nfcInitialiseConnect and nfcTargetConnect find each other.
Connect ==
  /\ \A b \in Boards : nfcPc[b] = "connect"
  /\ nfcPc' = [initiator |-> "take", target |-> "receive"]
  /\ air' = Silent
  /\ UNCHANGED <<sendFifo, recFifo, buffer, came, dropped, fails, put>>

\* Mutant of Take: the bytes stay in the FIFO until the next exchange.
TakeCopy(b) ==
  /\ nfcPc[b] = "take"
  /\ buffer' = [buffer EXCEPT ![b] = SubSeq(sendFifo[b], 1, Least(ChunkLen, Len(sendFifo[b])))]
  /\ nfcPc' = [nfcPc EXCEPT ![b] = "send"]
  /\ UNCHANGED <<sendFifo, recFifo, air, came, dropped, fails, put>>

\* Mutant of Take: the last byte taken is not sent.
TakeShort(b) ==
  /\ nfcPc[b] = "take"
  /\ LET n == Least(ChunkLen, Len(sendFifo[b]))
     IN  /\ buffer' = [buffer EXCEPT ![b] = SubSeq(sendFifo[b], 1, n - 1)]
         /\ sendFifo' = [sendFifo EXCEPT ![b] = SubSeq(@, n + 1, Len(@))]
  /\ nfcPc' = [nfcPc EXCEPT ![b] = "send"]
  /\ UNCHANGED <<recFifo, air, came, dropped, fails, put>>

\* myFIFORead of sendFifo, whether there is anything in it or not.
Take(b) ==
  /\ nfcPc[b] = "take"
  /\ LET n == Least(ChunkLen, Len(sendFifo[b]))
     IN  /\ buffer' = [buffer EXCEPT ![b] = SubSeq(sendFifo[b], 1, n)]
         /\ sendFifo' = [sendFifo EXCEPT ![b] = SubSeq(@, n + 1, Len(@))]
  /\ nfcPc' = [nfcPc EXCEPT ![b] = "send"]
  /\ UNCHANGED <<recFifo, air, came, dropped, fails, put>>

\* nfc_send and the first half of nfc_Transceive: each then waits to hear.
Send(b) ==
  /\ nfcPc[b] = "send"
  /\ air' = [by |-> b, bytes |-> buffer[b]]
  /\ buffer' = [buffer EXCEPT ![b] = <<>>]
  /\ nfcPc' = [nfcPc EXCEPT ![b] = "receive"]
  /\ UNCHANGED <<sendFifo, recFifo, came, dropped, fails, put>>

\* How many of the bytes on the air fit into recFifo.
Fits(b) == Least(NfcFifoLen - Len(recFifo[b]), Len(air.bytes))

\* nfc_recve or the second half of nfc_Transceive, and myFIFOWrite of what came:
\* what does not fit into recFifo is dropped.
Receive(b) ==
  /\ nfcPc[b] = "receive" /\ air.by = Other(b)
  /\ recFifo' = [recFifo EXCEPT ![b] = @ \o SubSeq(air.bytes, 1, Fits(b))]
  /\ dropped' = [dropped EXCEPT ![Other(b)] = @ + Len(air.bytes) - Fits(b)]
  /\ air' = Silent
  /\ nfcPc' = [nfcPc EXCEPT ![b] = "take"]
  /\ UNCHANGED <<sendFifo, buffer, came, fails, put>>

\* Nobody listens to the frame on the air.
Unheard ==
  /\ air # Silent /\ nfcPc[Other(air.by)] = "connect"
  /\ air' = Silent
  /\ UNCHANGED <<nfcPc, sendFifo, recFifo, buffer, came, dropped, fails, put>>

\* The frame on the air is lost; nobody is told.
Fade ==
  /\ air # Silent /\ fails < MaxFails
  /\ air' = Silent /\ fails' = fails + 1
  /\ UNCHANGED <<nfcPc, sendFifo, recFifo, buffer, came, dropped, put>>

\* Mutant of GiveUp: the initiator goes on with the connection it has.
GiveUpNoReconnect(b) ==
  /\ nfcPc[b] = "receive" /\ air = Silent
  /\ nfcPc[Other(b)] \in {"receive", "connect"}
  /\ nfcPc' = [nfcPc EXCEPT ![b] = IF b = "initiator" THEN "take" ELSE "connect"]
  /\ UNCHANGED <<sendFifo, recFifo, buffer, air, came, dropped, fails, put>>

\* The time-out of a board nobody sends to: it connects anew.
GiveUp(b) ==
  /\ nfcPc[b] = "receive" /\ air = Silent
  /\ nfcPc[Other(b)] \in {"receive", "connect"}
  /\ nfcPc' = [nfcPc EXCEPT ![b] = "connect"]
  /\ UNCHANGED <<sendFifo, recFifo, buffer, air, came, dropped, fails, put>>

\* The exchange fails for a board though the other was about to answer it, or had.
FailEarly(b) ==
  /\ nfcPc[b] = "receive" /\ fails < MaxFails
  /\ nfcPc' = [nfcPc EXCEPT ![b] = "connect"] /\ fails' = fails + 1
  /\ air' = IF air.by = Other(b) THEN Silent ELSE air
  /\ UNCHANGED <<sendFifo, recFifo, buffer, came, dropped, put>>

\* nfc_send does not report that it failed.
SendFails ==
  /\ nfcPc["target"] = "send" /\ fails < MaxFails
  /\ buffer' = [buffer EXCEPT !["target"] = <<>>]
  /\ nfcPc' = [nfcPc EXCEPT !["target"] = "receive"] /\ fails' = fails + 1
  /\ UNCHANGED <<sendFifo, recFifo, air, came, dropped, put>>

Exchange(b) == Take(b) \/ Send(b) \/ Receive(b) \/ GiveUp(b)

NfcNext ==
  \/ Connect \/ Unheard \/ Fade \/ SendFails
  \/ \E b \in Boards : SerialIn(b) \/ SerialOut(b) \/ Exchange(b) \/ FailEarly(b)

NfcSpec == NfcInit /\ [][NfcNext]_nfcVars

\* The threads run, the boards find each other, and an exchange that hears
\* nothing times out.
NfcFairSpec ==
  NfcSpec /\ WF_nfcVars(Connect) /\ WF_nfcVars(Unheard)
    /\ \A b \in Boards : WF_nfcVars(Exchange(b)) /\ WF_nfcVars(SerialOut(b))

-----------------------------------------------------------------------------

Streams == Seq(1..MaxBytes)

NfcTypeOK ==
  /\ nfcPc \in [Boards -> {"connect", "take", "send", "receive"}]
  /\ \A f \in {sendFifo, recFifo} : f \in [Boards -> Streams] /\ \A b \in Boards : Len(f[b]) <= NfcFifoLen
  /\ buffer \in [Boards -> Streams] /\ air \in [by : Boards \cup {"none"}, bytes : Streams]
  /\ came \in [Boards -> 0..MaxBytes] /\ dropped \in [Boards -> 0..MaxBytes]
  /\ fails \in 0..MaxFails /\ put \in [Boards -> Streams]

\* The bytes of board b's serial port that are not lost, from the oldest on.
Pipe(b) ==
  put[Other(b)] \o recFifo[Other(b)]
    \o (IF air.by = b THEN air.bytes ELSE <<>>) \o buffer[b] \o sendFifo[b]

\* main.c:62-85, 124-143: through failed exchanges, answers nobody hears and
\* connections made anew, the bytes come out of the other board's serial port in
\* the order they went in and none of them twice.
InOrderOnce ==
  \A b \in Boards : \A i, j \in DOMAIN Pipe(b) : i < j => Pipe(b)[i] < Pipe(b)[j]

Lost(b) == came[b] - Len(Pipe(b)) - dropped[b]

\* main.c:127-130, 74-76: the bytes are taken from the FIFO before the exchange,
\* so a failed one loses them, but no more than those of one of its two frames;
\* a byte that finds room in the FIFOs is lost in no other way.
LossIsBounded == Lost("initiator") + Lost("target") <= fails * ChunkLen

\* main.c:51-57, 114-120: after the last failure the two boards find each other
\* again, whichever of them noticed it first, and what waits is sent.
EverythingIsSent == \A b \in Boards : sendFifo[b] # <<>> ~> sendFifo[b] = <<>>

\* The bytes of board b that may still come out.
OnTheWay(b) ==
  UNION {{s[k] : k \in DOMAIN s} :
           s \in {recFifo[Other(b)], IF air.by = b THEN air.bytes ELSE <<>>, buffer[b], sendFifo[b]}}

ToTarget == INSTANCE LossyStream
  WITH given <- came["initiator"], waiting <- OnTheWay("initiator"), out <- put["target"]

ToInitiator == INSTANCE LossyStream
  WITH given <- came["target"], waiting <- OnTheWay("target"), out <- put["initiator"]

\* main.c:60-85, 122-143: the bridge is a lossy stream in each direction: whatever
\* fails and however often the boards connect anew, a byte that was given up does not
\* come out later, behind bytes that came after it.
CarriesStreams == ToTarget!Spec /\ ToInitiator!Spec
=============================================================================
