----------------------------- MODULE FrameLink -----------------------------
(***************************************************************************)
(* The senders of skySoftware/src/communication.c, and ReceivePact's       *)
(* receiver at the other end of the line.                                  *)
(*                                                                         *)
(* Each sender writes a frame with several calls of devWrite: the header   *)
(* with the length, the data in one or more parts, and the checksum with   *)
(* the end character.  A devWrite that fails ends the call there, with the *)
(* frame cut off.  The bytes arrive in order, with pauses between them.    *)
(***************************************************************************)
EXTENDS ReceivePact, SequencesExt

CONSTANTS
  Cmds,         \* command bytes
  Payloads,     \* the strings of bytes a caller hands over
  Types,        \* type arguments of sky_recOffsetType
  MaxCalls      \* bound: the frames sent

\* The exclusive or of bytes is one, and the senders' frames fit in the buffer.
ASSUME FrameLinkAssumption ==
  /\ B > 1 /\ MaxLen <= B * B * B * B
  /\ \A a, b \in Byte : ByteXor(a, b) \in Byte
  /\ Cmds \subseteq Byte /\ Types \subseteq 0 .. 255 /\ MaxCalls \in Nat
  /\ \A d \in Payloads : d \in Seq(Byte)
  /\ \A d, e \in Payloads : Len(d) + Len(e) <= MaxLen - 10
  /\ 6 <= MaxLen - 10    \* of sky_recOffsetType

VARIABLES
  status,       \* of the last call: "idle", "sending", "sent" or "failed"
  todo,         \* the strings it has still to hand to devWrite
  sent,         \* the bytes it has written
  want,         \* history: the command and the data it was called with
  line,         \* bytes written and not yet arrived
  calls

sender == <<status, todo, sent, want, calls>>
linkVars == <<vars, sender, line>>

-----------------------------------------------------------------------------

Bytes2(n) == <<n % B, n \div B>>

\* Mutant of Bytes4: the most significant byte first.
Bytes4BigEndian(n) == <<n \div (B * B * B), (n \div (B * B)) % B, (n \div B) % B, n % B>>

Bytes4(n) == <<n % B, (n \div B) % B, (n \div (B * B)) % B, n \div (B * B * B)>>

Head6(cmd, len) == <<StartC, cmd>> \o Bytes4(len)

\* The checksum is over all but the start character.
Tail2(bytes) == <<Checksum(bytes, Len(bytes)), EndC>>

\* A call whose devWrites are parts and the tail.
Begin(cmd, payload, parts) ==
  /\ status # "sending" /\ calls < MaxCalls /\ calls' = calls + 1
  /\ status' = "sending" /\ sent' = <<>>
  /\ todo' = Append(parts, Tail2(FlattenSeq(parts)))
  /\ want' = [cmd |-> cmd, payload |-> payload]
  /\ UNCHANGED <<vars, line>>

\* sky_sendData, sky_send2Data, sky_sendNData and sky_sendStrNData: the data
\* come in one, two or more parts, and the header holds the sum of the lengths.
SendParts(cmd, ds) ==
  Begin(cmd, FlattenSeq(ds), <<Head6(cmd, Len(FlattenSeq(ds)))>> \o ds)

\* sky_recOffsetType: a window of len bytes from offset, with the bytes
\* themselves if the type says so.
RecOffsetType(cmd, d, offset, len, type) ==
  LET window == SubSeq(d, offset + 1, offset + len)
      prefix == Bytes2(offset) \o Bytes2(len)
  IN  Begin(cmd,
            prefix \o (IF type % 2 = 1 THEN window ELSE <<>>),
            <<Head6(cmd, IF type % 2 = 1 THEN 4 + len ELSE 4) \o prefix>>
              \o (IF type = 1 THEN <<window>> ELSE <<>>))

\* One devWrite succeeds.
DevWrite ==
  /\ status = "sending"
  /\ line' = line \o Head(todo) /\ sent' = sent \o Head(todo)
  /\ todo' = Tail(todo)
  /\ status' = IF Tail(todo) = <<>> THEN "sent" ELSE "sending"
  /\ UNCHANGED <<vars, want, calls>>

\* Mutant of DevWriteFails: the call goes on to the tail and fails at its end.
DevWriteFailsLate ==
  /\ status = "sending"
  /\ line' = line \o todo[Len(todo)] /\ sent' = sent \o todo[Len(todo)]
  /\ status' = "failed" /\ todo' = <<>>
  /\ UNCHANGED <<vars, want, calls>>

\* It fails, having written less than it was given, and so does the call.
DevWriteFails ==
  /\ status = "sending"
  /\ \E k \in 0 .. Len(Head(todo)) :
       LET written == SubSeq(Head(todo), 1, k) IN
       /\ k = 0 \/ k < Len(Head(todo))
       /\ line' = line \o written /\ sent' = sent \o written
  /\ status' = "failed" /\ todo' = <<>>
  /\ UNCHANGED <<vars, want, calls>>

\* History: heard is what has come since the last silence, if the receiver was
\* free then, no later pause leaves open whether it starts over, and it is the
\* frame being sent.
Follow(c, gap) ==
  LET more == IF gap > Timeout + 1 THEN <<c>> ELSE Append(heard, c)
      ok   == /\ IF gap > Timeout + 1 THEN saveFlag # 3 ELSE clean /\ gap <= Timeout
              /\ IsPrefix(more, sent)
  IN  /\ clean' = ok
      /\ heard' = IF ok THEN more ELSE <<>>

\* A byte arrives at the receiver.
LinkArrive ==
  /\ line # <<>> /\ line' = Tail(line)
  /\ \E gap \in Gaps : Receive(Head(line), gap) /\ Follow(Head(line), gap)
  /\ UNCHANGED <<holding, sender>>

\* The receiver's main loop takes a frame and gives the buffer back.
MainLoop == (Take \/ Release) /\ UNCHANGED <<sender, line>>

LinkInit ==
  /\ Init
  /\ status = "idle" /\ todo = <<>> /\ sent = <<>> /\ line = <<>> /\ calls = 0
  /\ want = [cmd |-> 0, payload |-> <<>>]

LinkNext ==
  \/ \E c \in Cmds, d1 \in Payloads :
       \/ SendParts(c, <<d1>>)
       \/ \E d2 \in Payloads : SendParts(c, <<d1, d2>>)
  \/ \E c \in Cmds, d \in Payloads, t \in Types, len \in 0..2 :
       \E offset \in 0..2 : offset + len <= Len(d) /\ RecOffsetType(c, d, offset, len, t)
  \/ DevWrite \/ DevWriteFails \/ LinkArrive \/ MainLoop

LinkSpec == LinkInit /\ [][LinkNext]_linkVars

-----------------------------------------------------------------------------

\* Whatever was sent before, cut off or in full: a frame that was written in full
\* and began after a silence, with no pause inside that counts as one, arrives
\* as the command and the data the sender was called with (communication.c:257-456
\* against 92-153).
SentIsReceived ==
  status = "sent" /\ line = <<>> /\ clean /\ heard = sent =>
    /\ saveFlag = 3 /\ data = sent
    /\ data[2] = want.cmd /\ SubSeq(data, 7, 6 + dataLen) = want.payload

\* A frame that was cut off by a failing devWrite is not taken for one; that it
\* does not spoil the next is in SentIsReceived (communication.c:313-314, 99-103).
CutOffIsNotReceived ==
  status = "failed" /\ line = <<>> /\ clean /\ heard = sent => saveFlag # 3
=============================================================================
