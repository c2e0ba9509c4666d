------------------------------ MODULE StmFlash ------------------------------
(***************************************************************************)
(* STMFLASH_Write (stmflash.c): write half-words anywhere in the flash and *)
(* keep what else is in the sectors they fall into.  Sector by sector it   *)
(* reads the sector into STMFLASH_BUF and looks whether the half-words to  *)
(* write are erased; if so it programs them, otherwise it erases the       *)
(* sector and programs the buffer with the new half-words in it.           *)
(*                                                                         *)
(* addr is WriteAddr, a byte address; the other positions count half-words.*)
(***************************************************************************)
EXTENDS Flash, Sequences

CONSTANTS
  Values,       \* what half-words hold
  MaxNum        \* bound: the most half-words of one call

ASSUME StmFlashAssumption ==
  Erased \in Values /\ MaxNum \in Nat /\ FlashSize % PageSize = 0

VARIABLES
  pc,           \* where the call is: "idle", "look", "patch" (erased, to be
                \* programmed from buf), "direct", "done" or "fault"
  at, data,     \* the call's arguments: address in half-words and half-words
  before,       \* history: the flash when it was called
  addr, num, src,   \* WriteAddr, NumToWrite and how far pBuffer has moved
  secpos, secoff, secremain,
  buf,          \* STMFLASH_BUF
  i             \* the index of the loop in STMFLASH_Write_NoCheck

args == <<at, data, before>>
cursor == <<addr, num, src, secpos, secoff, secremain>>
vars == <<flash, pgerr, pc, args, cursor, buf, i>>

Smaller(a, b) == IF a < b THEN a ELSE b

Init ==
  /\ flash \in [Addresses -> Values] /\ pgerr = FALSE
  /\ pc = "idle" /\ at = 0 /\ data = <<>> /\ before = flash
  /\ addr = 0 /\ num = 0 /\ src = 0 /\ secpos = 0 /\ secoff = 0 /\ secremain = 0
  /\ buf = [k \in 0 .. PageSize - 1 |-> Erased] /\ i = 0

\* The call, up to the loop.
Write(a, d) ==
  /\ pc = "idle" /\ pc' = "look"
  /\ at' = a /\ data' = d /\ before' = flash
  /\ addr' = 2 * a /\ num' = Len(d) /\ src' = 0
  /\ secpos' = Page(a) /\ secoff' = a % PageSize
  /\ secremain' = Smaller(Len(d), PageSize - (a % PageSize))
  /\ UNCHANGED <<flash, pgerr, buf, i>>

\* Mutant of Look: the last half-word is not checked.
LookOneShort ==
  LET sector == [k \in 0 .. PageSize - 1 |-> flash[secpos * PageSize + k]]
      wanted == secoff .. secoff + secremain - 1
  IN  /\ pc = "look" /\ i' = 0
      /\ IF \A k \in secoff .. secoff + secremain - 2 : sector[k] = Erased
         THEN pc' = "direct" /\ buf' = sector /\ UNCHANGED <<flash, pgerr>>
         ELSE /\ pc' = "patch"
              /\ buf' = [k \in 0 .. PageSize - 1 |->
                           IF k \in wanted THEN data[src + k - secoff + 1] ELSE sector[k]]
              /\ ErasePage(secpos)
      /\ UNCHANGED <<args, cursor>>

\* The sector is read, checked and, if need be, erased and merged in buf.
Look ==
  LET sector == [k \in 0 .. PageSize - 1 |-> flash[secpos * PageSize + k]]
      wanted == secoff .. secoff + secremain - 1
  IN  /\ pc = "look" /\ i' = 0
      /\ IF \A k \in wanted : sector[k] = Erased
         THEN pc' = "direct" /\ buf' = sector /\ UNCHANGED <<flash, pgerr>>
         ELSE /\ pc' = "patch"
              /\ buf' = [k \in 0 .. PageSize - 1 |->
                           IF k \in wanted THEN data[src + k - secoff + 1] ELSE sector[k]]
              /\ ErasePage(secpos)
      /\ UNCHANGED <<args, cursor>>

\* STMFLASH_Write_NoCheck over the whole sector.
PatchStep ==
  /\ pc = "patch" /\ i < PageSize
  /\ ProgramHalfWord(secpos * PageSize + i, buf[i])
  /\ i' = i + 1
  /\ UNCHANGED <<pc, args, cursor, buf>>

\* STMFLASH_Write_NoCheck from WriteAddr.  The flash takes no half-word at an
\* odd address: the access faults and the fault handler never returns.
DirectStep ==
  /\ pc = "direct" /\ i < secremain
  /\ IF addr % 2 = 0
     THEN ProgramHalfWord(addr \div 2 + i, data[src + i + 1]) /\ i' = i + 1 /\ UNCHANGED pc
     ELSE pc' = "fault" /\ UNCHANGED <<flash, pgerr, i>>
  /\ UNCHANGED <<args, cursor, buf>>

\* The end of the loop's body: done, or on to the next sector.
NextSector ==
  /\ \/ pc = "patch" /\ i = PageSize
     \/ pc = "direct" /\ i = secremain
  /\ IF num = secremain
     THEN pc' = "done" /\ UNCHANGED cursor
     ELSE /\ pc' = "look"
          /\ secpos' = secpos + 1 /\ secoff' = 0
          /\ src' = src + secremain /\ addr' = addr + secremain
          /\ num' = num - secremain /\ secremain' = Smaller(num', PageSize)
  /\ UNCHANGED <<flash, pgerr, args, buf, i>>

Next ==
  \/ \E a \in Addresses, n \in 1 .. MaxNum :
       a + n <= FlashSize /\ \E d \in [1..n -> Values] : Write(a, d)
  \/ Look \/ PatchStep \/ DirectStep \/ NextSector

Spec == Init /\ [][Next]_vars

-----------------------------------------------------------------------------

Expected ==
  [a \in Addresses |-> IF a \in at .. at + Len(data) - 1 THEN data[a - at + 1]
                       ELSE before[a]]

OneSector == Page(at) = Page(at + Len(data) - 1)

\* A call that stays in one sector leaves the flash as it was but for the
\* half-words it was asked to write, whatever these and their neighbours held,
\* and without a programming error.
OneSectorExact == pc = "done" /\ OneSector => flash = Expected /\ ~pgerr

\* The comment at stmflash.c:37: the half-words asked for are written from the
\* address given on.
WritesFromTheAddress ==
  pc = "done" => \A a \in at .. at + Len(data) - 1 : flash[a] = Expected[a]
=============================================================================
