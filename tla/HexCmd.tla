------------------------------- MODULE HexCmd -------------------------------
(***************************************************************************)
(* skySoftware/src/Public_SoftHexCmd.c: binary commands, found in the      *)
(* stream of bytes that come out of the FIFO wherever they begin.          *)
(*                                                                         *)
(* A row of CMDList is a length, a pattern and a mask; here, for each byte *)
(* of the command, the set of the bytes the masked comparison accepts.     *)
(***************************************************************************)
EXTENDS Integers, Sequences

CONSTANTS
  HexByte,      \* the byte values
  CMDList,      \* the rows
  HexBufLen     \* CMDBufLen

ASSUME HexAssumption ==
  /\ CMDList \in Seq(Seq(SUBSET HexByte) \ {<<>>})
  /\ HexBufLen \in Nat /\ HexBufLen >= 2
  /\ \A r \in DOMAIN CMDList : Len(CMDList[r]) < HexBufLen

VARIABLES
  hexBuf,   \* the first cmdNum bytes of CMDBuf
  report,   \* the row P_HexCmdReadCMD just returned, 0 for none, the bytes the
            \* caller finds at the front of CMDBuf and, as history, unread then
  unread    \* history: the bytes since the last report or P_HexCmd_Buf_Clear,
            \* the last HexBufLen of them

hexVars == <<hexBuf, report, unread>>

Nothing == [row |-> 0, bytes |-> <<>>, came |-> <<>>]

HexInit == hexBuf = <<>> /\ report = Nothing /\ unread = <<>>

\* Row r matches the bytes of s from k + 1 on.
MatchesAt(r, s, k) == \A m \in DOMAIN CMDList[r] : s[k + m] \in CMDList[r][m]

\* Where row r can begin in s.
Starts(r, s) == 0 .. Len(s) - Len(CMDList[r])

Found(s) == {r \in DOMAIN CMDList : \E k \in Starts(r, s) : MatchesAt(r, s, k)}

\* k runs down from the end.
At(r, s) ==
  CHOOSE k \in Starts(r, s) :
    MatchesAt(r, s, k) /\ \A l \in Starts(r, s) : MatchesAt(r, s, l) => l <= k

\* Mutant of HexWrapped: the buffer starts again one byte too early.
HexWrappedEarly == IF Len(hexBuf) > HexBufLen - 3 THEN <<>> ELSE hexBuf

\* Mutant of HexWrapped: it starts again one byte too late.
HexWrappedLate == IF Len(hexBuf) > HexBufLen - 1 THEN <<>> ELSE hexBuf

HexWrapped == IF Len(hexBuf) > HexBufLen - 2 THEN <<>> ELSE hexBuf

\* What stays in the buffer: cmdNum is 0 after a report.
Kept(s, r) == IF r = 0 THEN s ELSE <<>>

\* One turn of the loop: byte b comes out of the FIFO.
P_HexCmdReadCMD(b) ==
  LET s == Append(HexWrapped, b)
      row == IF Found(s) = {} THEN 0
             ELSE CHOOSE r \in Found(s) : \A q \in Found(s) : r <= q
  IN  /\ hexBuf' = Kept(s, row)
      /\ report' = IF row = 0 THEN Nothing
                   ELSE [row |-> row,
                         bytes |-> SubSeq(s, At(row, s) + 1, At(row, s) + Len(CMDList[row])),
                         came |-> Append(unread, b)]
      /\ unread' = IF row # 0 THEN <<>>
                   ELSE IF Len(unread) < HexBufLen THEN Append(unread, b)
                   ELSE Append(Tail(unread), b)

P_HexCmd_Buf_Clear ==
  hexBuf' = <<>> /\ report' = Nothing /\ unread' = <<>>

HexNext == (\E b \in HexByte : P_HexCmdReadCMD(b)) \/ P_HexCmd_Buf_Clear

HexSpec == HexInit /\ [][HexNext]_hexVars

-----------------------------------------------------------------------------

HexTypeOK ==
  /\ hexBuf \in Seq(HexByte) /\ Len(hexBuf) < HexBufLen
  /\ unread \in Seq(HexByte) /\ Len(unread) <= HexBufLen
  /\ report \in [row : {0} \cup DOMAIN CMDList, bytes : Seq(HexByte), came : Seq(HexByte)]

\* Public_SoftHexCmd.c:32-66: a row is reported when the bytes that have just
\* come are its command, in full, none of them used by an earlier report, and
\* they are what the caller then finds at the front of the buffer; and no command
\* goes by unreported, whatever bytes come before and between, as long as the
\* buffer has not wrapped since the last report.
ReportsAreExact ==
  /\ report.row # 0 =>
       LET n == Len(report.came) - Len(report.bytes)
       IN  /\ Len(report.bytes) = Len(CMDList[report.row])
           /\ MatchesAt(report.row, report.bytes, 0)
           /\ n >= 0 /\ report.bytes = SubSeq(report.came, n + 1, Len(report.came))
  /\ Len(unread) < HexBufLen => Found(unread) = {}
=============================================================================
