----------------------------- MODULE StringCmd -----------------------------
(***************************************************************************)
(* skySoftware/src/Public_SoftStringCmd.c: text commands, one per line,    *)
(* that the main loop takes out of the FIFO the receive interrupt fills.   *)
(*                                                                         *)
(* The FIFO is the bounded queue MyFIFO implements: a byte that finds it   *)
(* full is dropped.  The bytes of a line are kept with its line feed, in   *)
(* history fields no guard reads, so that a command can be compared with   *)
(* what was typed.                                                         *)
(***************************************************************************)
EXTENDS Integers, Sequences

CONSTANTS
  Letter,       \* the bytes that are stored
  CMDBufLen,    \* the size of the command buffer, terminator included
  StrFifoLen,   \* how many bytes the FIFO holds
  MaxTyped      \* bound: the bytes of a line

ASSUME StrAssumption ==
  /\ CMDBufLen \in Nat /\ CMDBufLen >= 2 /\ StrFifoLen \in Nat \ {0} /\ MaxTyped \in Nat
  /\ "CR" \notin Letter /\ "LF" \notin Letter

VARIABLES
  strFifo,  \* [byte, and with a line feed: the line typed, and whether all of it was stored]
  CMDBuf,   \* the first cmdNum bytes of the command buffer
  cmd,      \* the command this step returned, with the history of its line
  typed,    \* history: the letters sent since the last line feed that was stored
  whole     \* history: all of them, and their line feeds, were stored

strVars == <<strFifo, CMDBuf, cmd, typed, whole>>

\* No command was returned.
Silence == [text |-> <<>>, typed |-> <<>>, whole |-> FALSE]

StrInit ==
  /\ strFifo = <<>> /\ CMDBuf = <<>>
  /\ cmd = Silence
  /\ typed = <<>> /\ whole = TRUE

Stored(b) == IF b = "LF" THEN [byte |-> b, typed |-> typed, whole |-> whole]
             ELSE [byte |-> b, typed |-> <<>>, whole |-> FALSE]

StrRoom == Len(strFifo) < StrFifoLen

\* The receive interrupt: Write2dev puts the byte into the FIFO.
StrReceive(b) ==
  /\ b \in Letter => Len(typed) < MaxTyped
  /\ strFifo' = IF StrRoom
                THEN Append(strFifo, Stored(b))
                ELSE strFifo
  /\ typed' = IF b = "LF" /\ StrRoom THEN <<>>
              ELSE IF b \in Letter THEN Append(typed, b) ELSE typed
  /\ whole' = (StrRoom /\ (whole \/ b = "LF"))
  /\ cmd' = Silence
  /\ UNCHANGED CMDBuf

\* Mutant of Wrapped: the test is one byte too early.
WrappedEarly == IF Len(CMDBuf) > CMDBufLen - 3 THEN <<>> ELSE CMDBuf

\* The buffer starts again when only the terminator's place is left.
Wrapped == IF Len(CMDBuf) > CMDBufLen - 2 THEN <<>> ELSE CMDBuf

\* One turn of its loop; the caller takes the command it returns at once.
P_StringCmdReadCMD ==
  /\ strFifo # <<>>
  /\ LET b == Head(strFifo).byte
     IN  /\ CMDBuf' = IF b \in Letter THEN Append(Wrapped, b)
                      ELSE IF b = "LF" THEN <<>> ELSE Wrapped
         /\ cmd' = IF b = "LF"
                   THEN [text |-> Wrapped, typed |-> Head(strFifo).typed,
                         whole |-> Head(strFifo).whole]
                   ELSE Silence
  /\ strFifo' = Tail(strFifo)
  /\ UNCHANGED <<typed, whole>>

StrNext == (\E b \in Letter \cup {"CR", "LF"} : StrReceive(b)) \/ P_StringCmdReadCMD

StrSpec == StrInit /\ [][StrNext]_strVars

-----------------------------------------------------------------------------

StrTypeOK ==
  /\ strFifo \in Seq([byte : Letter \cup {"CR", "LF"}, typed : Seq(Letter), whole : BOOLEAN])
  /\ Len(strFifo) <= StrFifoLen
  /\ CMDBuf \in Seq(Letter) /\ Len(CMDBuf) < CMDBufLen
  /\ cmd \in [text : Seq(Letter), typed : Seq(Letter), whole : BOOLEAN]
  /\ typed \in Seq(Letter) /\ Len(typed) <= MaxTyped /\ whole \in BOOLEAN

\* Public_SoftStringCmd.c:30-40: a line of which no byte was dropped gives a
\* command that is its end: all of it when it fits, wherever the line before it
\* was cut off or wrapped.  Of a line that does not fit, what is taken for the
\* command depends on its length; one that fills the buffer up to the
\* terminator's place is taken for an empty command.  Whichever bytes were
\* dropped, a command is what is left of some of its line: it has no letter of an
\* earlier one and its letters in their order.
CommandIsLinesEnd ==
  /\ cmd.whole =>
       LET n == Len(cmd.typed)
       IN  cmd.text = SubSeq(cmd.typed, n + 1 - (n % (CMDBufLen - 1)), n)
  /\ \E from \in [DOMAIN cmd.text -> DOMAIN cmd.typed] :
       /\ \A i \in DOMAIN cmd.text : cmd.text[i] = cmd.typed[from[i]]
       /\ \A i, j \in DOMAIN cmd.text : i < j => from[i] < from[j]
=============================================================================
