------------------------------- MODULE W25Qxx -------------------------------
(***************************************************************************)
(* skySoftware/src/skySoft_w25qxx.c: skySoft_W25QXX_Write on a serial      *)
(* flash chip, which goes on with an erasure or a program when the         *)
(* processor is reset in the middle of it, and until then ignores every    *)
(* command but the reading of its status.                                  *)
(*                                                                         *)
(* A cell is one bit: erasing sets it, programming can only clear it.      *)
(***************************************************************************)
EXTENDS Integers, Sequences

CONSTANTS
  SectorSize,   \* 4096
  WritePage,    \* 256
  ChipSize,
  Patterns,     \* the data the calls write: functions of 1..ChipSize into 0..1
  WriteSizes    \* how many bytes they write

ASSUME W25Assumption ==
  /\ WritePage \in Nat \ {0} /\ SectorSize \in Nat \ {0} /\ ChipSize \in Nat
  /\ SectorSize % WritePage = 0 /\ ChipSize % SectorSize = 0
  /\ \A d \in Patterns : d \in [1..ChipSize -> 0..1]
  /\ WriteSizes \subseteq Nat \ {0}

Cells == 0 .. ChipSize - 1

VARIABLES
  \* the chip
  mem,          \* its cells
  chipOp,       \* what it is busy with: the cells and their new values, or Idle
  wel,          \* the write enable latch
  \* skySoft_W25QXX_Write
  w25Pc,        \* "idle", "read", "erase", "sector", "program", "wait"
  w25Addr, w25Buf, w25Len,  \* addr, buf and len, as the loop moves them
  job,          \* what skySoft_W25QXX_Write_NoCheck still has to write: address, cells
  merged,       \* it is W25QXX_BUF that is written
  \* history
  asked25,      \* the call: address and data, and the cells before it (Unknown
                \* when it is not calm)
  calm25        \* the chip was idle when it began, and it was not cut off

chipVars == <<mem, chipOp, wel>>
callVars == <<w25Addr, w25Buf, w25Len, asked25>>
w25Vars == <<chipVars, w25Pc, callVars, job, merged, calm25>>

Idle == [at |-> 0, cells |-> <<>>]
Busy == chipOp # Idle

Unknown == [at |-> 0, data |-> <<>>, before |-> <<>>]

W25Init ==
  /\ mem = [c \in Cells |-> 1] /\ chipOp = Idle /\ wel = FALSE
  /\ w25Pc = "idle" /\ w25Addr = 0 /\ w25Buf = <<>> /\ w25Len = 0
  /\ job = Idle /\ merged = FALSE
  /\ asked25 = Unknown /\ calm25 = FALSE

Min25(m, n) == IF m < n THEN m ELSE n

SecPos == w25Addr \div SectorSize
SecOff == w25Addr % SectorSize
SecRemain == Min25(w25Len, SectorSize - SecOff)

\* The chip ends what it is busy with: programming clears bits, erasing sets them.
ChipDone ==
  /\ Busy
  /\ mem' = [c \in Cells |->
       IF c \in chipOp.at .. chipOp.at + Len(chipOp.cells) - 1
       THEN chipOp.cells[c - chipOp.at + 1] ELSE mem[c]]
  /\ chipOp' = Idle
  /\ UNCHANGED <<wel, w25Pc, callVars, job, merged, calm25>>

\* Page program: what the cells from at on become.
Programmed(at, cells) ==
  [at |-> at, cells |-> [i \in DOMAIN cells |-> Min25(cells[i], mem[at + i - 1])]]

ErasedSector(s) == [at |-> s * SectorSize, cells |-> [i \in 1..SectorSize |-> 1]]

-----------------------------------------------------------------------------

W25QXX_Write(a, d) ==
  /\ w25Pc = "idle" /\ w25Pc' = "read"
  /\ w25Addr' = a /\ w25Buf' = d /\ w25Len' = Len(d)
  /\ asked25' = IF Busy THEN Unknown ELSE [at |-> a, data |-> d, before |-> mem]
  /\ calm25' = ~Busy
  /\ UNCHANGED <<chipVars, job, merged>>

\* W25QXX_BUF with the data over what was read.
Merge(cells) ==
  [i \in 1..SectorSize |->
    IF i - 1 \in SecOff .. SecOff + SecRemain - 1 THEN w25Buf[i - SecOff] ELSE cells[i]]

\* Mutant of Blank: the last cell is not looked at.
BlankOneShort(cells) == \A i \in SecOff + 1 .. SecOff + SecRemain - 1 : cells[i] = 1

\* The cells the data go to are erased.
Blank(cells) == \A i \in SecOff + 1 .. SecOff + SecRemain : cells[i] = 1

\* Reading the sector.  A busy chip does not answer: what is read is the level
\* the line has.  (W25QXX_BUF is filled here, after the erasure in the code.)
ReadSector ==
  /\ w25Pc = "read"
  /\ \E cells \in IF Busy THEN {[i \in 1..SectorSize |-> 0], [i \in 1..SectorSize |-> 1]}
                  ELSE {[i \in 1..SectorSize |-> mem[SecPos * SectorSize + i - 1]]} :
       IF Blank(cells)
       THEN /\ w25Pc' = "program" /\ merged' = FALSE
            /\ job' = [at |-> w25Addr, cells |-> SubSeq(w25Buf, 1, SecRemain)]
       ELSE /\ w25Pc' = "erase" /\ merged' = TRUE
            /\ job' = [at |-> SecPos * SectorSize, cells |-> Merge(cells)]
  /\ UNCHANGED <<chipVars, callVars, calm25>>

\* skySoft_W25QXX_Erase_Sector: the write enable, before it waits for the chip.
EraseEnable ==
  /\ w25Pc = "erase" /\ w25Pc' = "sector"
  /\ wel' = (wel \/ ~Busy)
  /\ UNCHANGED <<mem, chipOp, callVars, job, merged, calm25>>

\* The chip is idle; the erasure, which it ignores without the write enable.
EraseSector ==
  /\ w25Pc = "sector" /\ ~Busy /\ w25Pc' = "program"
  /\ wel' = FALSE
  /\ chipOp' = IF wel THEN ErasedSector(SecPos) ELSE Idle
  /\ UNCHANGED <<mem, callVars, job, merged, calm25>>

\* Erase_Sector waits for the end of the erasure.
Ready25 == merged => ~Busy

PageRemain == Min25(Len(job.cells), WritePage - (job.at % WritePage))

\* Where the chip puts n cells programmed from at on: it stays in the page.
Wrapped25(at, cells) ==
  LET page == at - (at % WritePage)
      new == [i \in 1..WritePage |->
        IF \E k \in DOMAIN cells : (at + k - 1) % WritePage = i - 1
        THEN cells[CHOOSE k \in DOMAIN cells : (at + k - 1) % WritePage = i - 1] ELSE 1]
  IN  Programmed(page, new)

\* skySoft_W25QXX_Write_Page: write enable and program, both ignored by a busy
\* chip.
WritePageStep ==
  /\ w25Pc = "program" /\ Ready25 /\ w25Pc' = "wait"
  /\ chipOp' = IF Busy THEN chipOp ELSE Wrapped25(job.at, SubSeq(job.cells, 1, PageRemain))
  /\ wel' = (wel /\ Busy)
  /\ job' = [at |-> job.at + PageRemain,
             cells |-> SubSeq(job.cells, PageRemain + 1, Len(job.cells))]
  /\ UNCHANGED <<mem, callVars, merged, calm25>>

\* Wait_Busy, and the end of the page, of the sector or of the call.
PageDone ==
  /\ w25Pc = "wait" /\ ~Busy
  /\ IF job.cells # <<>> THEN w25Pc' = "program" /\ UNCHANGED <<callVars, job, merged>>
     ELSE /\ w25Pc' = IF w25Len = SecRemain THEN "idle" ELSE "read"
          /\ w25Addr' = w25Addr + SecRemain
          /\ w25Buf' = SubSeq(w25Buf, SecRemain + 1, w25Len)
          /\ w25Len' = w25Len - SecRemain
          /\ job' = Idle /\ merged' = FALSE
          /\ UNCHANGED asked25
  /\ UNCHANGED <<chipVars, calm25>>

\* The processor is reset; the chip is not.
Reset25 ==
  /\ w25Pc # "idle" /\ w25Pc' = "idle"
  /\ w25Addr' = 0 /\ w25Buf' = <<>> /\ w25Len' = 0 /\ job' = Idle /\ merged' = FALSE
  /\ calm25' = FALSE /\ asked25' = Unknown
  /\ UNCHANGED chipVars

W25Next ==
  \/ \E a \in Cells, n \in WriteSizes, d \in Patterns :
       a + n <= ChipSize /\ W25QXX_Write(a, SubSeq(d, 1, n))
  \/ ReadSector \/ EraseEnable \/ EraseSector \/ WritePageStep \/ PageDone
  \/ ChipDone \/ Reset25

W25Spec == W25Init /\ [][W25Next]_w25Vars

-----------------------------------------------------------------------------

\* skySoft_w25qxx.c:348-394: a write that begins with an idle chip and is not cut
\* off leaves every cell it was asked to write with its data and every other as
\* it was, over any number of pages and sectors.
W25WritesExact ==
  w25Pc = "idle" /\ calm25 =>
    mem = [c \in Cells |->
            IF c \in asked25.at .. asked25.at + Len(asked25.data) - 1
            THEN asked25.data[c - asked25.at + 1] ELSE asked25.before[c]]
=============================================================================
