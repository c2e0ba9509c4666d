------------------------------- MODULE Flash -------------------------------
(***************************************************************************)
(* The on-chip flash of the STM32F103 as the boot loader sees it through   *)
(* the three functions of stm32f10x_flash.c it calls.  An address is the   *)
(* index of a half-word from STM32_FLASH_BASE.  FLASH_ErasePage and        *)
(* FLASH_ProgramHalfWord both begin with FLASH_WaitForLastOperation and do *)
(* nothing unless it answers FLASH_COMPLETE; it does not while the         *)
(* controller's PGERR bit is set, and only FLASH_ClearFlag or a reset      *)
(* clears that bit.  The controller itself sets it, and leaves the word    *)
(* alone, when a half-word that is not erased is programmed with anything  *)
(* but zero.                                                               *)
(***************************************************************************)
EXTENDS Integers

CONSTANTS
  PageSize,     \* half-words of a page (STM_SECTOR_SIZE / 2)
  FlashSize,    \* half-words of the flash
  Erased,       \* 0xFFFF
  Zero          \* 0x0000

ASSUME FlashAssumption ==
  /\ PageSize \in Nat \ {0}
  /\ FlashSize \in Nat \ {0}

VARIABLES
  flash,        \* the half-words
  pgerr         \* the PGERR bit of FLASH->SR

flashVars == <<flash, pgerr>>

Addresses == 0 .. FlashSize - 1

Page(a) == a \div PageSize

PagesOf(n) == n \div PageSize + (IF n % PageSize = 0 THEN 0 ELSE 1)

-----------------------------------------------------------------------------

ErasePage(p) ==
  /\ flash' = IF pgerr
              THEN flash
              ELSE [a \in Addresses |-> IF Page(a) = p THEN Erased ELSE flash[a]]
  /\ UNCHANGED pgerr

Programmable(a, v) == flash[a] = Erased \/ v = Zero

ProgramHalfWord(a, v) ==
  IF ~pgerr /\ Programmable(a, v)
  THEN flash' = [flash EXCEPT ![a] = v] /\ UNCHANGED pgerr
  ELSE pgerr' = TRUE /\ UNCHANGED flash
=============================================================================
