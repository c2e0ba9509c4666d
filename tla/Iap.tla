-------------------------------- MODULE Iap --------------------------------
(***************************************************************************)
(* Updating a board over its serial line: the boot loader of f103VC_IAP    *)
(* (main.c, iapSoftware.c, stmflash.c; f103_IAP holds the same code) and   *)
(* the host that sends it a new image with sky_runCmdPact.                 *)
(*                                                                         *)
(* The host enters the boot loader (0x40), has the image's pages erased    *)
(* (0x41), sends the image piece by piece (0x42) and resets the board      *)
(* (0x43), sending a command again when the call for it failed.  Frames    *)
(* may be lost in both directions, a frame that arrives while the board    *)
(* works on another is dropped, calls time out at any moment, and the      *)
(* power may fail between any two operations of the board.                 *)
(*                                                                         *)
(* Lengths are in half-words: a byte count of the code is twice the model's.*)
(***************************************************************************)
EXTENDS Flash, Sequences

CONSTANTS
  Start,        \* where the application begins (appxaddr), a page boundary
  ImageLen,     \* half-words of an application
  ChunkSize,    \* the most half-words one write command carries
  Old, New,     \* the application on the board, and the one to install
  Boot,         \* what the half-words below Start hold: the boot loader
  Behind,       \* what those behind the application hold: whatever it keeps there
  StackTops,    \* the upper half-words of a stack pointer iap_load_app accepts
  Queries,      \* the other commands a host may send, among "version", "other"
  MaxSends,     \* bound: the commands the host sends
  MaxCuts       \* bound: the power failures

End == Start + ImageLen

ImageArea == Start .. End - 1

Halfwords == {Erased, Zero, Boot} \cup StackTops
               \cup {Old[a] : a \in ImageArea} \cup {New[a] : a \in ImageArea}
               \cup {Behind[a] : a \in End .. FlashSize - 1}

ASSUME IapAssumption ==
  /\ Start \in Nat /\ Start % PageSize = 0
  /\ ImageLen \in Nat \ {0, 1}
  /\ End <= FlashSize
  /\ ChunkSize \in Nat \ {0}
  /\ DOMAIN Old = ImageArea /\ DOMAIN New = ImageArea
  /\ DOMAIN Behind = End .. FlashSize - 1
  /\ Erased \notin StackTops
  /\ Queries \subseteq {"version", "other"}
  /\ MaxSends \in Nat /\ MaxCuts \in Nat

Codes == {"enter", "erase", "write", "reset", "version", "other"}

Command(c, at, n) == [code |-> c, at |-> at, len |-> n]

Commands == [code : Codes, at : Nat, len : Nat]

None == "none"

NoCommand == Command(None, 0, 0)

VARIABLES
  \* the board
  mode,         \* "boot", "app", or "locked" in EncryRun's while(1)
  cipher,       \* mcu_flash_cipher1: "blank", its first half-word, "whole"
  iapFlag,      \* whether the boot loader stays
  held,         \* the command of a held frame (saveFlag is 3), or NoCommand
  step,         \* flash operations already made for it
  \* the line
  requests,     \* commands on their way to the board
  replies,      \* codes of the answers on their way to the host
  \* the host
  phase,        \* what it is at
  next,         \* the first half-word not acknowledged yet
  waiting,      \* whether it is in sky_waitData
  answer,       \* the code of the answer it holds (saveFlag is 3), or None
  sends, cuts,  \* commands sent and power failures so far
  \* history
  clean,        \* nothing that can spoil this update has happened
  unbroken      \* it began with quiet lines, and the board has run on since

board == <<mode, cipher, iapFlag, held, step>>
host == <<phase, next, waiting, answer>>
vars == <<flash, pgerr, board, requests, replies, host, sends, cuts, clean, unbroken>>

-----------------------------------------------------------------------------

OldFlash ==
  [a \in Addresses |-> IF a < Start THEN Boot
                       ELSE IF a \in ImageArea THEN Old[a] ELSE Behind[a]]

Init ==
  /\ flash = OldFlash /\ pgerr = FALSE
  /\ mode = "boot" /\ cipher = "blank" /\ iapFlag = FALSE
  /\ held = NoCommand /\ step = 0
  /\ requests = <<>> /\ replies = <<>>
  /\ phase = "idle" /\ next = Start /\ waiting = FALSE /\ answer = None
  /\ sends = 0 /\ cuts = 0 /\ clean = FALSE /\ unbroken = FALSE

-----------------------------------------------------------------------------
(***************************************************************************)
(* The board.  The main loop runs EncryRun, then iapUpRun, then looks at   *)
(* the clock; a command is handled to its end before the next turn.        *)
(***************************************************************************)

\* EncryRun on a board whose cipher is blank: it clears the controller's
\* flags and programs the cipher, one half-word after the other.
SealLow ==
  /\ mode = "boot" /\ cipher = "blank"
  /\ cipher' = "half" /\ pgerr' = FALSE
  /\ UNCHANGED <<flash, mode, iapFlag, held, step, requests, replies, host,
                 sends, cuts, clean, unbroken>>

SealHigh ==
  /\ mode = "boot" /\ cipher = "half"
  /\ cipher' = "whole"
  /\ UNCHANGED <<flash, pgerr, mode, iapFlag, held, step, requests, replies,
                 host, sends, cuts, clean, unbroken>>

\* Mutant of Ready: iapUpRun does not wait for EncryRun.
ReadyAtOnce == mode = "boot"

\* EncryRun has returned and iapUpRun can look at a frame.
Ready == mode = "boot" /\ cipher = "whole"

\* Mutant of Deliver: a new frame takes the place of the one in hand.
DeliverOver ==
  /\ requests # <<>>
  /\ requests' = Tail(requests)
  /\ held' = IF mode = "boot" THEN Head(requests) ELSE held
  /\ UNCHANGED <<flash, pgerr, mode, cipher, iapFlag, step, replies, host,
                 sends, cuts, clean, unbroken>>

\* A frame reaches the board.  The receiver drops it while it holds another
\* (saveFlag is 3), and the application takes no boot loader commands.
Deliver ==
  /\ requests # <<>>
  /\ requests' = Tail(requests)
  /\ held' = IF mode = "boot" /\ held = NoCommand THEN Head(requests) ELSE held
  /\ UNCHANGED <<flash, pgerr, mode, cipher, iapFlag, step, replies, host,
                 sends, cuts, clean, unbroken>>

\* Mutant of Operations: the page the image ends in is forgotten.
OperationsRoundedDown(c) ==
  CASE c.code = "erase" -> c.len \div PageSize
    [] c.code = "write" -> c.len
    [] OTHER -> 0

\* How many flash operations a command takes.
Operations(c) ==
  CASE c.code = "erase" -> PagesOf(c.len + 2)
    [] c.code = "write" -> c.len
    [] OTHER -> 0

\* Case 0x41: STMFLASH_ERASE(start, len + 4), one page.
EraseStep ==
  /\ Ready /\ held # NoCommand /\ held.code = "erase" /\ held.at \in Addresses
  /\ step < Operations(held)
  /\ ErasePage(Page(held.at) + step)
  /\ step' = step + 1
  /\ UNCHANGED <<mode, cipher, iapFlag, held, requests, replies, host,
                 sends, cuts, clean, unbroken>>

\* Mutant of WriteStep: the address advances by one half-word too many.
WriteStepTwice ==
  /\ Ready /\ held # NoCommand /\ held.code = "write" /\ held.at \in Addresses
  /\ step < Operations(held)
  /\ ProgramHalfWord(held.at + step * 2, New[held.at + step])
  /\ step' = step + 1
  /\ UNCHANGED <<mode, cipher, iapFlag, held, requests, replies, host,
                 sends, cuts, clean, unbroken>>

\* Case 0x42: STMFLASH_Write_NO_ERASE, one half-word.
WriteStep ==
  /\ Ready /\ held # NoCommand /\ held.code = "write" /\ held.at \in Addresses
  /\ step < Operations(held)
  /\ ProgramHalfWord(held.at + step, New[held.at + step])
  /\ step' = step + 1
  /\ UNCHANGED <<mode, cipher, iapFlag, held, requests, replies, host,
                 sends, cuts, clean, unbroken>>

\* The end of iapUpRun: one answer, two for 0x47, and for a command the
\* switch does not know one without the success bit.
Answers(c) ==
  CASE c.code = "version" -> <<"version", "version">>
    [] c.code = "other" -> <<"error">>
    [] OTHER -> <<c.code>>

\* Mutant of Reply: entering the boot loader does not set iapFlag.
ReplyWithoutFlag ==
  /\ Ready /\ held # NoCommand /\ held.code # "reset"
  /\ held.at \in Addresses => step = Operations(held)
  /\ replies' = replies \o Answers(held)
  /\ held' = NoCommand /\ step' = 0
  /\ UNCHANGED <<flash, pgerr, mode, cipher, iapFlag, requests, host, sends, cuts, clean, unbroken>>

Reply ==
  /\ Ready /\ held # NoCommand /\ held.code # "reset"
  /\ held.at \in Addresses => step = Operations(held)
  /\ iapFlag' = (iapFlag \/ held.code = "enter")
  /\ replies' = replies \o Answers(held)
  /\ held' = NoCommand /\ step' = 0
  /\ UNCHANGED <<flash, pgerr, mode, cipher, requests, host, sends, cuts, clean, unbroken>>

\* What a reset does to the board: the flash and its cipher survive, RAM and
\* the flash controller start over.
Restart ==
  /\ mode' = IF cipher = "half" THEN "locked" ELSE "boot"
  /\ pgerr' = FALSE /\ iapFlag' = FALSE /\ held' = NoCommand /\ step' = 0
  /\ UNCHANGED <<flash, cipher>>

\* Case 0x43: the answer, then NVIC_SystemReset.
ResetCommand ==
  /\ Ready /\ held # NoCommand /\ held.code = "reset"
  /\ replies' = replies \o Answers(held)
  /\ Restart /\ unbroken' = FALSE
  /\ UNCHANGED <<requests, host, sends, cuts, clean>>

\* The boot time-out: iap_load_app starts what the flash holds if the stack
\* pointer looks valid, otherwise the boot loader stays.
LoadApp ==
  /\ Ready /\ held = NoCommand /\ ~iapFlag
  /\ IF flash[Start + 1] \in StackTops
     THEN mode' = "app" /\ UNCHANGED iapFlag
     ELSE iapFlag' = TRUE /\ UNCHANGED mode
  /\ UNCHANGED <<flash, pgerr, cipher, held, step, requests, replies, host,
                 sends, cuts, clean, unbroken>>

-----------------------------------------------------------------------------
(***************************************************************************)
(* The host: sky_runCmdPact clears the flag of the answer it holds, sends  *)
(* the command and polls for an answer until one comes or time is up.  An  *)
(* answer carries the command's code and nothing else.                     *)
(***************************************************************************)

LesserOf(a, b) == IF a < b THEN a ELSE b

ChunkLen(at) == LesserOf(ChunkSize, End - at)

\* The command of each phase.
CommandOf(p, at) ==
  CASE p = "erase" -> Command("erase", Start, ImageLen)
    [] p = "write" -> Command("write", at, ChunkLen(at))
    [] OTHER       -> Command(p, Start, 0)

\* Nothing of an earlier call is left anywhere.
Quiet == requests = <<>> /\ held = NoCommand /\ replies = <<>>

\* sky_runCmdPact up to the wait.
Send(c) ==
  /\ sends < MaxSends /\ sends' = sends + 1
  /\ requests' = Append(requests, c)
  /\ answer' = None /\ waiting' = TRUE

\* An update, from its first command.
Begin ==
  /\ phase = "idle"
  /\ Send(CommandOf("enter", Start))
  /\ phase' = "enter" /\ next' = Start
  /\ clean' = (Quiet /\ ~pgerr) /\ unbroken' = Quiet
  /\ UNCHANGED <<flash, pgerr, board, replies, cuts>>

\* A command outside an update.
Query ==
  /\ phase = "idle"
  /\ \E q \in Queries : phase' = q /\ Send(CommandOf(q, Start))
  /\ UNCHANGED <<flash, pgerr, board, replies, next, cuts, clean, unbroken>>

\* The command of the phase, for the first time or again after a failed call.
Call ==
  /\ phase \in {"enter", "erase", "write", "reset"} /\ ~waiting
  /\ Send(CommandOf(phase, next))
  /\ UNCHANGED <<flash, pgerr, board, replies, phase, next, cuts, clean, unbroken>>

\* A frame reaches the host, which drops it while it holds another.
Hear ==
  /\ replies # <<>>
  /\ replies' = Tail(replies)
  /\ answer' = IF answer = None THEN Head(replies) ELSE answer
  /\ UNCHANGED <<flash, pgerr, board, requests, phase, next, waiting,
                 sends, cuts, clean, unbroken>>

NextPhase ==
  CASE phase = "enter" -> "erase"
    [] phase = "erase" -> "write"
    [] phase = "write" -> IF next + ChunkLen(next) = End THEN "reset" ELSE "write"
    [] phase = "reset" -> "done"
    [] OTHER           -> "idle"

\* sky_waitData finds the answer to the command: the call returns 1.
Accept ==
  /\ waiting /\ answer = phase
  /\ waiting' = FALSE
  /\ phase' = NextPhase
  /\ next' = IF phase = "write" THEN next + ChunkLen(next) ELSE next
  /\ UNCHANGED <<flash, pgerr, board, requests, replies, answer, sends, cuts, clean, unbroken>>

\* It finds another answer: the flag is cleared and the call returns -2.
Refuse ==
  /\ waiting /\ answer # None /\ answer # phase
  /\ waiting' = FALSE /\ answer' = None
  /\ UNCHANGED <<flash, pgerr, board, requests, replies, phase, next, sends, cuts, clean, unbroken>>

\* It finds none in time: the call returns -1.  A call that ends while its
\* command or its answer is still on the way leaves a stray answer behind.
TimeOut ==
  /\ waiting /\ answer = None
  /\ waiting' = FALSE
  /\ clean' = (clean /\ Quiet)
  /\ UNCHANGED <<flash, pgerr, board, requests, replies, phase, next, answer, sends, cuts, unbroken>>

\* The host gives up, or goes on to another update.
Leave ==
  /\ phase # "idle" /\ ~waiting
  /\ phase' = "idle" /\ next' = Start
  /\ UNCHANGED <<flash, pgerr, board, requests, replies, waiting, answer, sends, cuts, clean, unbroken>>

-----------------------------------------------------------------------------
(***************************************************************************)
(* What goes wrong.                                                        *)
(***************************************************************************)

LoseRequest ==
  /\ requests # <<>> /\ requests' = Tail(requests)
  /\ UNCHANGED <<flash, pgerr, board, replies, host, sends, cuts, clean, unbroken>>

\* The loss that matters is that of the answer to a write: the host sends
\* again what the flash already holds.
LoseReply ==
  /\ replies # <<>> /\ replies' = Tail(replies)
  /\ clean' = (clean /\ Head(replies) # "write")
  /\ UNCHANGED <<flash, pgerr, board, requests, host, sends, cuts, unbroken>>

PowerCut ==
  /\ cuts < MaxCuts /\ cuts' = cuts + 1
  /\ Restart /\ unbroken' = FALSE
  /\ clean' = (clean /\ \/ phase \in {"reset", "done"}
                        \/ phase = "enter" /\ Quiet /\ answer = None)
  /\ UNCHANGED <<requests, replies, host, sends>>

-----------------------------------------------------------------------------

Board == SealLow \/ SealHigh \/ Deliver \/ EraseStep \/ WriteStep \/ Reply
           \/ ResetCommand \/ LoadApp

Host == Begin \/ Query \/ Call \/ Hear \/ Accept \/ Refuse \/ TimeOut \/ Leave

Fault == LoseRequest \/ LoseReply \/ PowerCut

Next == Board \/ Host \/ Fault

Spec == Init /\ [][Next]_vars

-----------------------------------------------------------------------------

TypeOK ==
  /\ flash \in [Addresses -> Halfwords] /\ pgerr \in BOOLEAN
  /\ mode \in {"boot", "app", "locked"} /\ cipher \in {"blank", "half", "whole"}
  /\ iapFlag \in BOOLEAN /\ held \in Commands \cup {NoCommand} /\ step \in 0..Operations(held)
  /\ requests \in Seq(Commands) /\ replies \in Seq(Codes \cup {"error"})
  /\ phase \in Codes \cup {"idle", "done"} /\ next \in ImageArea \cup {End}
  /\ waiting \in BOOLEAN /\ answer \in Codes \cup {"error", None}
  /\ sends \in 0..MaxSends /\ cuts \in 0..MaxCuts /\ clean \in BOOLEAN /\ unbroken \in BOOLEAN

Installed == \A a \in ImageArea : flash[a] = New[a]

\* An update during which no answer to a write was lost, no call ended while
\* its command or its answer was still under way, and the power stayed on,
\* ends with the image in the flash, however many commands were lost and sent
\* again, and whatever earlier updates left in the flash.
CleanUpdateInstalls == clean /\ phase \in {"reset", "done"} => Installed

\* main.c:25, iapSoftware.c:27-34, 133-146: once the host holds the answer to its
\* entry, the boot time-out starts no application, whatever is lost, late or sent
\* again, as long as the update began with quiet lines and the board has not been
\* reset since.  After a reset or a power failure in mid-update this does not hold:
\* iap_load_app then starts what part of an image there is if its stack pointer is.
EnteredBoardStays ==
  [][mode = "boot" /\ mode' = "app" =>
       ~(unbroken /\ phase \in {"erase", "write", "reset", "done"})]_vars

\* The pages the erase command of an update covers (iapSoftware.c:40): those of the
\* image, and one more when its last page has less than four bytes left.
ErasedPages == Page(Start) .. Page(Start) + PagesOf(ImageLen + 2) - 1

\* No sequence of commands, retries, losses and power failures ever changes the
\* boot loader, or puts into the application's area anything but half-words
\* of the two images in their own places.  Behind it, what shares a page with
\* the image or lies in the one page more is erased with it or kept, and nothing
\* else ever changes.
OnlyTheImageArea ==
  \A a \in Addresses :
    \/ flash[a] = OldFlash[a]
    \/ a \in ImageArea /\ flash[a] \in {Erased, New[a]}
    \/ a >= End /\ Page(a) \in ErasedPages /\ flash[a] = Erased

\* EncryRun locks a board for ever only if the power failed in its very first
\* run: never one that has worked on a command or started its application.
LocksOnlyWhenNew ==
  mode = "locked" => /\ flash = OldFlash
                     /\ phase \in {"idle", "enter"} \cup Queries /\ ~iapFlag
                     /\ replies = <<>> /\ answer = None

\* The success bit in an answer says that the command was carried out
\* (communication.c:181): a write's half-words are then in the flash.
SuccessMeansDone ==
  [][Len(replies') > Len(replies) /\ held # NoCommand /\ held.code = "write"
       => \A a \in held.at .. held.at + held.len - 1 : flash[a] = New[a]]_vars
=============================================================================
