----------------------------- MODULE Iap_proofs -----------------------------
(***************************************************************************)
(* What holds of the boot loader and its host for every flash, page size,  *)
(* image and chunk, under any losses, retries and power failures.          *)
(***************************************************************************)
EXTENDS Iap, SequenceTheorems, TLAPS

\* The commands a host sends.
Sendable ==
  {c \in Commands :
     /\ c.at \in ImageArea
     /\ c.code = "erase" => c.at = Start /\ c.len = ImageLen
     /\ c.code = "write" => c.at + c.len <= End}

\* Everything on the way or in hand is such a command, and the host stays
\* inside the image.
Bounded ==
  /\ flash \in [Addresses -> Halfwords] /\ pgerr \in BOOLEAN
  /\ mode \in {"boot", "app", "locked"} /\ cipher \in {"blank", "half", "whole"}
  /\ iapFlag \in BOOLEAN /\ held \in Sendable \cup {NoCommand} /\ step \in 0..Operations(held)
  /\ requests \in Seq(Sendable) /\ replies \in Seq(Codes \cup {"error"})
  /\ phase \in Codes \cup {"idle", "done"} /\ next \in ImageArea \cup {End}
  /\ waiting \in BOOLEAN /\ answer \in Codes \cup {"error", None}
  /\ sends \in 0..MaxSends /\ cuts \in 0..MaxCuts /\ clean \in BOOLEAN /\ unbroken \in BOOLEAN
  /\ phase \notin {"reset", "done"} => next \in ImageArea

\* Until its cipher is whole a board has done nothing at all.
Young ==
  /\ mode = "locked" => cipher = "half"
  /\ mode = "app" => cipher = "whole"
  /\ cipher # "whole" =>
       /\ flash = OldFlash /\ phase \in {"idle", "enter"} \cup Queries
       /\ ~iapFlag /\ replies = <<>> /\ answer = None

\* The inductive invariant.
IInv == Bounded /\ OnlyTheImageArea /\ Young

-----------------------------------------------------------------------------
\* The constants, in the form the proofs need.
LEMMA Constants ==
  /\ Start \in Nat /\ ImageLen \in Nat /\ ImageLen > 1 /\ End \in Nat
  /\ End = Start + ImageLen /\ End <= FlashSize /\ FlashSize \in Nat
  /\ PageSize \in Nat /\ PageSize > 0 /\ ChunkSize \in Nat /\ ChunkSize > 0
  /\ ImageArea \subseteq Addresses /\ Start \in ImageArea
  /\ MaxSends \in Nat /\ MaxCuts \in Nat
BY IapAssumption, FlashAssumption DEF End, ImageArea, Addresses

\* A command erases a whole number of pages.
LEMMA PagesOfType == ASSUME NEW n \in Nat PROVE PagesOf(n) \in Nat
<1>1. PageSize \in Nat \ {0}
  BY FlashAssumption
<1>2. n \div PageSize \in Nat
  BY <1>1
<1>3. QED
  BY <1>2 DEF PagesOf

\* A command is a number of operations on the flash.
LEMMA OperationsType ==
  ASSUME NEW c \in Sendable \cup {NoCommand} PROVE Operations(c) \in Nat
<1>1. c.len \in Nat
  BY DEF Sendable, Commands, NoCommand, Command
<1>2. c.len + 2 \in Nat
  BY <1>1
<1>3. PagesOf(c.len + 2) \in Nat
  BY <1>2, PagesOfType
<1>4. QED
  BY <1>1, <1>3 DEF Operations

\* A command in hand that is not the absence of one is a host's.
LEMMA HeldSendable ==
  ASSUME Bounded, held # NoCommand
  PROVE  /\ held \in Sendable /\ held.code \in Codes
         /\ held.at \in ImageArea /\ held.at \in Addresses
         /\ held.at \in Nat /\ held.len \in Nat /\ step \in Nat
         /\ held.code = "erase" => held.at = Start
         /\ held.code = "write" => held.at + held.len <= End
<1>1. held \in Sendable
  BY DEF Bounded
<1>2. Operations(held) \in Nat
  BY <1>1, OperationsType
<1>3. step \in Nat
  BY <1>2 DEF Bounded
<1>4. QED
  BY <1>1, <1>3, Constants DEF Sendable, Commands

\* A page from the image's first one on has no half-word below the image.
LEMMA PagesBelow ==
  ASSUME NEW a \in Addresses, NEW s \in Nat, Page(a) = Page(Start) + s
  PROVE  a >= Start
<1>1. PageSize \in Nat \ {0} /\ Start \in Nat /\ a \in Nat /\ Start % PageSize = 0
  BY IapAssumption, FlashAssumption DEF Addresses
<1>2. PICK q \in Int : q = Page(a)
  BY <1>1 DEF Page
<1>3. PICK p \in Int : p = Page(Start)
  BY <1>1 DEF Page
<1>4. Start = PageSize * p
  BY <1>1, <1>3 DEF Page
<1>5. a >= PageSize * q
  BY <1>1, <1>2 DEF Page
<1>6. q >= p
  BY <1>2, <1>3
<1>7. PageSize * q >= PageSize * p
  BY <1>1, <1>6
<1>8. QED
  BY <1>1, <1>4, <1>5, <1>7

\* What a host sends is sendable.
LEMMA CommandOfSendable ==
  ASSUME NEW p \in Codes, NEW at \in ImageArea \cup {End},
         p = "write" => at \in ImageArea
  PROVE  CommandOf(p, at) \in Sendable
<1>1. CASE p = "write"
  <2>1. ChunkLen(at) \in Nat /\ at + ChunkLen(at) <= End /\ at \in Nat
    BY <1>1, Constants DEF ChunkLen, LesserOf, ImageArea
  <2>2. QED
    BY <1>1, <2>1 DEF CommandOf, Command, Sendable, Commands
<1>2. CASE p = "erase"
  BY <1>2, Constants DEF CommandOf, Command, Sendable, Commands, Codes
<1>3. CASE p \notin {"erase", "write"}
  <2>1. CommandOf(p, at) = Command(p, Start, 0)
    BY <1>3 DEF CommandOf
  <2>2. QED
    BY <1>3, <2>1, Constants DEF Command, Sendable, Commands
<1>4. QED
  BY <1>1, <1>2, <1>3

-----------------------------------------------------------------------------
\* A board that leaves the factory, and a host that has not begun.
LEMMA InitKeeps == ASSUME Init PROVE IInv
<1>1. OldFlash \in [Addresses -> Halfwords]
  <2>1. SUFFICES ASSUME NEW a \in Addresses PROVE OldFlash[a] \in Halfwords
    BY DEF OldFlash
  <2>2. CASE a < Start
    BY <2>2 DEF OldFlash, Halfwords
  <2>3. CASE a \in ImageArea
    BY <2>3, Constants DEF OldFlash, Halfwords, ImageArea
  <2>4. CASE ~(a < Start) /\ a \notin ImageArea
    <3>1. a \in End .. FlashSize - 1 /\ OldFlash[a] = Behind[a]
      BY <2>4, Constants DEF ImageArea, Addresses, OldFlash
    <3>2. QED
      BY <3>1 DEF Halfwords
  <2>5. QED
    BY <2>2, <2>3, <2>4
<1>2. Bounded
  <2>1. Operations(NoCommand) = 0
    BY DEF Operations, NoCommand, Command, None
  <2>2. <<>> \in Seq(Sendable) /\ <<>> \in Seq(Codes \cup {"error"})
    BY EmptySeq
  <2>3. step \in 0..Operations(held)
    BY <2>1 DEF Init
  <2>4. requests \in Seq(Sendable) /\ replies \in Seq(Codes \cup {"error"})
    BY <2>2 DEF Init
  <2>5. flash \in [Addresses -> Halfwords]
    BY <1>1 DEF Init
  <2>6. sends \in 0..MaxSends /\ cuts \in 0..MaxCuts /\ next \in ImageArea
    BY Constants DEF Init
  <2>7. QED
    BY <2>3, <2>4, <2>5, <2>6 DEF Init, Bounded
<1>3. OnlyTheImageArea
  BY Constants DEF Init, OnlyTheImageArea, OldFlash, ImageArea, Addresses
<1>4. Young
  BY DEF Init, Young
<1>5. QED
  BY <1>2, <1>3, <1>4 DEF IInv

\* The actions that leave the flash and the cipher alone.
LEMMA SealKeeps == ASSUME IInv, SealLow \/ SealHigh PROVE IInv'
<1>1. Bounded'
  BY DEF IInv, Bounded, SealLow, SealHigh, host, Operations
<1>2. OnlyTheImageArea'
  BY DEF IInv, OnlyTheImageArea, SealLow, SealHigh
<1>3. Young'
  BY DEF IInv, Young, SealLow, SealHigh, host
<1>4. QED
  BY <1>1, <1>2, <1>3 DEF IInv

\* A request reaches the boot loader.
LEMMA DeliverKeeps == ASSUME IInv, Deliver PROVE IInv'
<1>1. Head(requests) \in Sendable /\ requests' \in Seq(Sendable)
  BY HeadTailProperties DEF IInv, Bounded, Deliver
<1>2. held' \in Sendable \cup {NoCommand}
  BY <1>1 DEF IInv, Bounded, Deliver
<1>3. step' \in 0..Operations(held')
  <2>1. CASE held' = held
    BY <2>1 DEF IInv, Bounded, Deliver
  <2>2. CASE held' # held
    <3>1. held = NoCommand
      BY <2>2 DEF Deliver
    <3>2. Operations(held) = 0
      BY <3>1 DEF Operations, NoCommand, Command, None
    <3>3. step' = 0
      BY <3>2 DEF IInv, Bounded, Deliver
    <3>4. QED
      BY <1>2, <3>3, OperationsType
  <2>3. QED
    BY <2>1, <2>2
<1>4. Bounded'
  BY <1>1, <1>2, <1>3 DEF IInv, Bounded, Deliver, host
<1>5. OnlyTheImageArea' /\ Young'
  BY DEF IInv, OnlyTheImageArea, Young, Deliver, host
<1>6. QED
  BY <1>4, <1>5 DEF IInv

\* Erasing touches no page below the image's first.
LEMMA EraseKeeps == ASSUME IInv, EraseStep PROVE IInv'
<1>1. held \in Sendable /\ held.at = Start /\ step \in Nat
  BY HeldSendable DEF IInv, EraseStep
<1>2. Operations(held) \in Nat
  BY <1>1, OperationsType
<1>3. flash' \in [Addresses -> Halfwords]
  BY DEF IInv, Bounded, EraseStep, ErasePage, Halfwords
<1>4. Bounded'
  BY <1>1, <1>2, <1>3 DEF IInv, Bounded, EraseStep, ErasePage, host
<1>5. OnlyTheImageArea'
  <2>1. SUFFICES ASSUME NEW a \in Addresses, flash'[a] # flash[a]
        PROVE  flash'[a] = Erased /\ (a \in ImageArea \/ (a >= End /\ Page(a) \in ErasedPages))
    BY DEF IInv, OnlyTheImageArea
  <2>2. flash'[a] = Erased /\ Page(a) = Page(Start) + step
    BY <1>1, <2>1 DEF EraseStep, ErasePage, IInv, Bounded
  <2>3. a >= Start
    BY <1>1, <2>2, PagesBelow
  <2>4. Page(a) \in ErasedPages
    <3>1. held.code = "erase" /\ held.len = ImageLen /\ step < Operations(held)
      BY <1>1 DEF EraseStep, Sendable
    <3>2. step < PagesOf(ImageLen + 2)
      BY <3>1 DEF Operations
    <3>3. PagesOf(ImageLen + 2) \in Nat /\ Page(Start) \in Int
      BY PagesOfType, Constants DEF Page
    <3>4. Page(Start) + step \in Page(Start) .. Page(Start) + PagesOf(ImageLen + 2) - 1
      BY <1>1, <3>2, <3>3
    <3>5. QED
      BY <2>2, <3>4 DEF ErasedPages
  <2>5. QED
    BY <2>2, <2>3, <2>4, Constants DEF ImageArea, Addresses
<1>6. Young'
  BY DEF IInv, Young, EraseStep, Ready
<1>7. QED
  BY <1>4, <1>5, <1>6 DEF IInv

\* A write command's half-words lie in the image, each in its own place.
LEMMA WriteKeeps == ASSUME IInv, WriteStep PROVE IInv'
<1>1. /\ held \in Sendable /\ held.code = "write" /\ held.at \in ImageArea
      /\ held.at \in Nat /\ held.len \in Nat /\ step \in Nat /\ held.at + held.len <= End
  BY HeldSendable DEF IInv, WriteStep
<1>2. Operations(held) = held.len
  BY <1>1 DEF Operations
<1>3. PICK at \in ImageArea : at = held.at + step
  BY <1>1, <1>2, Constants DEF WriteStep, ImageArea
<1>4. at \in Addresses /\ New[at] \in Halfwords
  BY <1>3, Constants DEF Halfwords
<1>5. flash' \in [Addresses -> Halfwords] /\ pgerr' \in BOOLEAN
  BY <1>3, <1>4 DEF IInv, Bounded, WriteStep, ProgramHalfWord
<1>6. Bounded'
  BY <1>1, <1>2, <1>5 DEF IInv, Bounded, WriteStep, host
<1>7. OnlyTheImageArea'
  BY <1>3, <1>4 DEF IInv, Bounded, OnlyTheImageArea, WriteStep, ProgramHalfWord
<1>8. Young'
  BY DEF IInv, Young, WriteStep, Ready
<1>9. QED
  BY <1>6, <1>7, <1>8 DEF IInv

\* What a command is answered with.
LEMMA AnswersSent ==
  ASSUME held.code \in Codes
  PROVE  Answers(held) \in Seq(Codes \cup {"error"})
<1>1. ASSUME NEW c \in Codes \cup {"error"}
      PROVE  <<c>> \in Seq(Codes \cup {"error"}) /\ <<c, c>> \in Seq(Codes \cup {"error"})
  OBVIOUS
<1>2. "version" \in Codes \cup {"error"} /\ "error" \in Codes \cup {"error"}
  BY DEF Codes
<1>3. CASE held.code = "version"
  BY <1>1, <1>2, <1>3 DEF Answers
<1>4. CASE held.code = "other"
  BY <1>1, <1>2, <1>4 DEF Answers
<1>5. CASE held.code \notin {"version", "other"}
  <2>1. Answers(held) = <<held.code>>
    BY <1>5 DEF Answers
  <2>2. QED
    BY <1>1, <2>1
<1>6. QED
  BY <1>3, <1>4, <1>5

\* Commands that end.
LEMMA AnswersType ==
  ASSUME Bounded, held # NoCommand
  PROVE  replies \o Answers(held) \in Seq(Codes \cup {"error"})
<1>1. Answers(held) \in Seq(Codes \cup {"error"})
  BY HeldSendable, AnswersSent
<1>2. QED
  BY <1>1, ConcatProperties DEF Bounded

\* The boot loader has nothing to do.
LEMMA NothingHeld ==
  ASSUME held' = NoCommand, step' = 0
  PROVE  held' \in Sendable \cup {NoCommand} /\ step' \in 0..Operations(held')
BY DEF Operations, NoCommand, Command, None

\* The boot loader answers.
LEMMA ReplyKeeps == ASSUME IInv, Reply PROVE IInv'
<1>1. replies' \in Seq(Codes \cup {"error"})
  BY AnswersType DEF IInv, Reply
<1>2. Bounded'
  BY <1>1, NothingHeld DEF IInv, Bounded, Reply, host
<1>3. OnlyTheImageArea' /\ Young'
  BY DEF IInv, OnlyTheImageArea, Young, Reply, Ready, host
<1>4. QED
  BY <1>2, <1>3 DEF IInv

\* The boot loader is told to start again.
LEMMA ResetKeeps == ASSUME IInv, ResetCommand PROVE IInv'
<1>1. replies' \in Seq(Codes \cup {"error"})
  BY AnswersType DEF IInv, ResetCommand
<1>2. Bounded'
  BY <1>1, NothingHeld DEF IInv, Bounded, ResetCommand, Restart, host
<1>3. OnlyTheImageArea' /\ Young'
  BY DEF IInv, OnlyTheImageArea, Young, ResetCommand, Restart, Ready, host
<1>4. QED
  BY <1>2, <1>3 DEF IInv

\* The boot loader starts the program.
LEMMA LoadKeeps == ASSUME IInv, LoadApp PROVE IInv'
<1>1. Bounded'
  BY DEF IInv, Bounded, LoadApp, host
<1>2. OnlyTheImageArea' /\ Young'
  BY DEF IInv, OnlyTheImageArea, Young, LoadApp, Ready, host
<1>3. QED
  BY <1>1, <1>2 DEF IInv

-----------------------------------------------------------------------------
\* The host's actions leave the board alone.
LEMMA HostKeepsFlash ==
  ASSUME IInv, UNCHANGED <<flash, pgerr, board>>
  PROVE  OnlyTheImageArea' /\ held' \in Sendable \cup {NoCommand} /\ step' \in 0..Operations(held')
BY DEF IInv, OnlyTheImageArea, Bounded, board

\* What the host sends is a command.
LEMMA SendType ==
  ASSUME Bounded, NEW p \in Codes, NEW at \in ImageArea \cup {End},
         p = "write" => at \in ImageArea, Send(CommandOf(p, at))
  PROVE  /\ requests' \in Seq(Sendable) /\ sends' \in 0..MaxSends
         /\ answer' = None /\ waiting' = TRUE
<1>1. CommandOf(p, at) \in Sendable
  BY CommandOfSendable
<1>2. QED
  BY <1>1, AppendProperties, Constants DEF Bounded, Send

\* The host begins an update.
LEMMA BeginKeeps == ASSUME IInv, Begin PROVE IInv'
<1>1. requests' \in Seq(Sendable) /\ sends' \in 0..MaxSends /\ answer' = None /\ waiting' = TRUE
  <2>1. "enter" \in Codes /\ Start \in ImageArea
    BY Constants DEF Codes
  <2>2. QED
    BY <2>1, SendType DEF IInv, Begin
<1>2. held' \in Sendable \cup {NoCommand} /\ step' \in 0..Operations(held') /\ OnlyTheImageArea'
  BY HostKeepsFlash DEF Begin
<1>3. clean' \in BOOLEAN /\ unbroken' \in BOOLEAN
  <2>1. clean' = (Quiet /\ ~pgerr) /\ unbroken' = Quiet /\ Quiet \in BOOLEAN
    BY DEF Begin, Quiet
  <2>2. QED
    BY <2>1
<1>4. phase' = "enter" /\ next' \in ImageArea
  BY Constants DEF Begin
<1>5. Bounded'
  BY <1>1, <1>2, <1>3, <1>4 DEF IInv, Bounded, Begin, board, Codes
<1>6. Young'
  BY <1>1, <1>4 DEF IInv, Young, Begin, board
<1>7. QED
  BY <1>2, <1>5, <1>6 DEF IInv

\* The host sends a command outside an update.
LEMMA QueryKeeps == ASSUME IInv, Query PROVE IInv'
<1>1. PICK q \in Queries : phase' = q /\ Send(CommandOf(q, Start))
  BY DEF Query
<1>2. q \in Codes /\ q \in {"version", "other"}
  BY IapAssumption DEF Codes
<1>3. requests' \in Seq(Sendable) /\ sends' \in 0..MaxSends /\ answer' = None /\ waiting' = TRUE
  BY <1>1, <1>2, SendType, Constants DEF IInv
<1>4. held' \in Sendable \cup {NoCommand} /\ step' \in 0..Operations(held') /\ OnlyTheImageArea'
  BY HostKeepsFlash DEF Query
<1>5. next' \in ImageArea
  BY DEF IInv, Bounded, Query
<1>6. Bounded'
  BY <1>1, <1>2, <1>3, <1>4, <1>5 DEF IInv, Bounded, Query, board
<1>7. Young'
  BY <1>1, <1>3 DEF IInv, Young, Query, board
<1>8. QED
  BY <1>4, <1>6, <1>7 DEF IInv

\* The host sends the next command of an update.
LEMMA CallKeeps == ASSUME IInv, Call PROVE IInv'
<1>1. phase \in Codes /\ (phase = "write" => next \in ImageArea) /\ next \in ImageArea \cup {End}
  BY DEF IInv, Bounded, Call, Codes
<1>2. requests' \in Seq(Sendable) /\ sends' \in 0..MaxSends /\ answer' = None /\ waiting' = TRUE
  BY <1>1, SendType DEF IInv, Call
<1>3. held' \in Sendable \cup {NoCommand} /\ step' \in 0..Operations(held') /\ OnlyTheImageArea'
  BY HostKeepsFlash DEF Call
<1>4. Bounded'
  BY <1>2, <1>3 DEF IInv, Bounded, Call, board
<1>5. Young'
  BY <1>2 DEF IInv, Young, Call, board
<1>6. QED
  BY <1>3, <1>4, <1>5 DEF IInv

\* The host hears an answer.
LEMMA HearKeeps == ASSUME IInv, Hear PROVE IInv'
<1>1. Head(replies) \in Codes \cup {"error"} /\ replies' \in Seq(Codes \cup {"error"})
  BY HeadTailProperties DEF IInv, Bounded, Hear
<1>2. held' \in Sendable \cup {NoCommand} /\ step' \in 0..Operations(held') /\ OnlyTheImageArea'
  BY HostKeepsFlash DEF Hear
<1>3. answer' \in Codes \cup {"error", None}
  BY <1>1 DEF IInv, Bounded, Hear
<1>4. Bounded'
  BY <1>1, <1>2, <1>3 DEF IInv, Bounded, Hear, board
<1>5. Young'
  BY DEF IInv, Young, Hear, board
<1>6. QED
  BY <1>2, <1>4, <1>5 DEF IInv

\* The host moves to the next piece of the image, or past its end.
LEMMA AcceptKeeps == ASSUME IInv, Accept PROVE IInv'
<1>1. held' \in Sendable \cup {NoCommand} /\ step' \in 0..Operations(held') /\ OnlyTheImageArea'
  BY HostKeepsFlash DEF Accept
<1>2. answer \in Codes \cup {"error"} /\ phase \in Codes
  BY DEF IInv, Bounded, Accept, None, Codes
<1>3. phase' \in Codes \cup {"idle", "done"} /\ (phase' = "write" => phase \in {"erase", "write"})
  BY <1>2 DEF Accept, NextPhase, Codes
<1>4. next' \in ImageArea \cup {End} /\ (phase' \notin {"reset", "done"} => next' \in ImageArea)
  <2>1. CASE phase = "write"
    <3>1. next \in ImageArea
      BY <2>1 DEF IInv, Bounded
    <3>2. next + ChunkLen(next) \in ImageArea \cup {End}
      BY <3>1, Constants DEF ChunkLen, LesserOf, ImageArea
    <3>3. next + ChunkLen(next) = End => phase' = "reset"
      BY <2>1 DEF Accept, NextPhase
    <3>4. QED
      BY <2>1, <3>2, <3>3 DEF Accept
  <2>2. CASE phase # "write"
    <3>1. phase = "reset" => phase' = "done"
      BY DEF Accept, NextPhase
    <3>2. phase # "done"
      BY <1>2 DEF Codes
    <3>3. QED
      BY <2>2, <3>1, <3>2 DEF IInv, Bounded, Accept
  <2>3. QED
    BY <2>1, <2>2
<1>5. Bounded'
  BY <1>1, <1>3, <1>4 DEF IInv, Bounded, Accept, board
<1>6. cipher = "whole"
  BY <1>2 DEF IInv, Young, None, Codes
<1>7. Young'
  BY <1>6 DEF IInv, Young, Accept, board
<1>8. QED
  BY <1>1, <1>5, <1>7 DEF IInv

\* The host is refused, or waits in vain.
LEMMA FailKeeps == ASSUME IInv, Refuse \/ TimeOut PROVE IInv'
<1>1. held' \in Sendable \cup {NoCommand} /\ step' \in 0..Operations(held') /\ OnlyTheImageArea'
  BY HostKeepsFlash DEF Refuse, TimeOut
<1>2. clean' \in BOOLEAN /\ answer' = None
  BY DEF IInv, Bounded, Refuse, TimeOut, Quiet
<1>3. Bounded'
  BY <1>1, <1>2 DEF IInv, Bounded, Refuse, TimeOut, board
<1>4. Young'
  BY <1>2 DEF IInv, Young, Refuse, TimeOut, board
<1>5. QED
  BY <1>1, <1>3, <1>4 DEF IInv

\* The host gives up, or goes on to another update.
LEMMA LeaveKeeps == ASSUME IInv, Leave PROVE IInv'
<1>1. held' \in Sendable \cup {NoCommand} /\ step' \in 0..Operations(held') /\ OnlyTheImageArea'
  BY HostKeepsFlash DEF Leave
<1>2. Bounded'
  BY <1>1, Constants DEF IInv, Bounded, Leave, board
<1>3. Young'
  BY DEF IInv, Young, Leave, board
<1>4. QED
  BY <1>1, <1>2, <1>3 DEF IInv

-----------------------------------------------------------------------------
\* What goes wrong loses frames or starts the board over.
LEMMA LossKeeps == ASSUME IInv, LoseRequest \/ LoseReply PROVE IInv'
<1>1. held' \in Sendable \cup {NoCommand} /\ step' \in 0..Operations(held') /\ OnlyTheImageArea'
  BY HostKeepsFlash DEF LoseRequest, LoseReply
<1>2. requests' \in Seq(Sendable) /\ replies' \in Seq(Codes \cup {"error"})
  BY HeadTailProperties DEF IInv, Bounded, LoseRequest, LoseReply
<1>3. clean' \in BOOLEAN
  BY DEF IInv, Bounded, LoseRequest, LoseReply
<1>4. Bounded'
  BY <1>1, <1>2, <1>3 DEF IInv, Bounded, LoseRequest, LoseReply, board, host
<1>5. Young'
  BY DEF IInv, Young, LoseRequest, LoseReply, board, host
<1>6. QED
  BY <1>1, <1>4, <1>5 DEF IInv

\* The power fails.
LEMMA CutKeeps == ASSUME IInv, PowerCut PROVE IInv'
<1>1. held' \in Sendable \cup {NoCommand} /\ step' \in 0..Operations(held')
  BY NothingHeld DEF PowerCut, Restart
<1>2. clean' \in BOOLEAN /\ cuts' \in 0..MaxCuts
  BY Constants DEF IInv, Bounded, PowerCut, Quiet
<1>3. Bounded'
  BY <1>1, <1>2 DEF IInv, Bounded, PowerCut, Restart, host
<1>4. OnlyTheImageArea' /\ Young'
  BY DEF IInv, OnlyTheImageArea, Young, PowerCut, Restart, host
<1>5. QED
  BY <1>3, <1>4 DEF IInv

-----------------------------------------------------------------------------
\* Every step keeps the invariant.
LEMMA Inductive == ASSUME IInv, [Next]_vars PROVE IInv'
<1>1. CASE Board
  BY <1>1, SealKeeps, DeliverKeeps, EraseKeeps, WriteKeeps, ReplyKeeps, ResetKeeps, LoadKeeps
     DEF Board
<1>2. CASE Host
  BY <1>2, BeginKeeps, QueryKeeps, CallKeeps, HearKeeps, AcceptKeeps, FailKeeps, LeaveKeeps
     DEF Host
<1>3. CASE Fault
  BY <1>3, LossKeeps, CutKeeps DEF Fault
<1>4. CASE UNCHANGED vars
  <2>1. UNCHANGED <<flash, pgerr, board, requests, replies, host, sends, cuts, clean, unbroken>>
    BY <1>4 DEF vars
  <2>2. Bounded'
    BY <2>1 DEF IInv, Bounded, board, host
  <2>3. OnlyTheImageArea' /\ Young'
    BY <2>1 DEF IInv, OnlyTheImageArea, Young, board, host
  <2>4. QED
    BY <2>2, <2>3 DEF IInv
<1>5. QED
  BY <1>1, <1>2, <1>3, <1>4 DEF Next

\* The invariant holds in every state.
LEMMA Always == Spec => []IInv
<1>1. Init => IInv
  BY InitKeeps
<1>2. IInv /\ [Next]_vars => IInv'
  BY Inductive
<1>3. QED
  BY <1>1, <1>2, PTL DEF Spec

\* Whatever flash, image and chunk: the variables of board and host keep their
\* types, and the host never asks for anything outside the image.
THEOREM TypeCorrect == Spec => []TypeOK
<1>1. IInv => TypeOK
  <2>1. SUFFICES ASSUME IInv PROVE TypeOK
    OBVIOUS
  <2>2. Sendable \subseteq Commands
    BY DEF Sendable
  <2>3. held \in Commands \cup {NoCommand} /\ requests \in Seq(Commands)
    BY <2>1, <2>2 DEF IInv, Bounded
  <2>4. QED
    BY <2>1, <2>3 DEF IInv, Bounded, TypeOK
<1>2. QED
  BY <1>1, Always, PTL

\* No update, complete, repeated or broken off, ever touches the boot loader,
\* anything behind the pages its erase command covers, or puts a half-word where it
\* does not belong; whatever data were behind the image (STMFLASH_ERASE,
\* STMFLASH_Write_NO_ERASE).
THEOREM BootLoaderSafe == Spec => []OnlyTheImageArea
<1>1. IInv => OnlyTheImageArea
  BY DEF IInv
<1>2. QED
  BY <1>1, Always, PTL

\* A power failure in EncryRun can lock a board for ever only before it has
\* answered anything, and never one that has left that first run.
THEOREM LocksOnlyNewBoards == Spec => []LocksOnlyWhenNew
<1>1. IInv => LocksOnlyWhenNew
  BY DEF IInv, Young, LocksOnlyWhenNew
<1>2. QED
  BY <1>1, Always, PTL

-----------------------------------------------------------------------------
(***************************************************************************)
(* An update that meets no fault installs the image.  As long as nothing   *)
(* can have spoilt it there is one command at most, the one of the host's  *)
(* phase, and how far the flash has come is what the phase and that        *)
(* command's place say.                                                    *)
(***************************************************************************)

UpdatePhases == {"enter", "erase", "write", "reset", "done"}

\* The one command, and where it is.
Current == CommandOf(phase, next)
OnItsWay == requests = <<Current>> /\ held = NoCommand /\ replies = <<>>
InHand == requests = <<>> /\ held = Current /\ replies = <<>>
Answered == requests = <<>> /\ held = NoCommand /\ replies = <<phase>>

OneCommand ==
  /\ Quiet \/ ((OnItsWay \/ InHand \/ Answered) /\ waiting /\ answer = None)
  /\ waiting => answer \in {None, phase}
  /\ phase = "done" => ~waiting

\* It was carried out, and the host does not know or is about to.
CarriedOut == Answered \/ (waiting /\ answer = phase)

\* How much of the current piece of the image is in the flash.
Written == IF InHand THEN step ELSE IF CarriedOut THEN ChunkLen(next) ELSE 0

EnterStage ==
  /\ phase \in {"enter", "erase", "write"} => ~pgerr
  /\ phase \in {"enter", "erase"} => next = Start
  /\ phase = "enter" /\ CarriedOut => iapFlag /\ mode = "boot"
  /\ phase \in {"erase", "write"} => iapFlag /\ mode = "boot"

EraseStage ==
  phase = "erase" =>
    /\ InHand => \A a \in Addresses :
                   Page(a) \in Page(Start) .. Page(Start) + step - 1 => flash[a] = Erased
    /\ CarriedOut => \A a \in ImageArea : flash[a] = Erased

WriteStage ==
  phase = "write" =>
    \A a \in ImageArea : flash[a] = IF a < next + Written THEN New[a] ELSE Erased

Stages == EnterStage /\ EraseStage /\ WriteStage /\ (phase \in {"reset", "done"} => Installed)

Undisturbed == clean /\ phase \in UpdatePhases

UpdateInv == Undisturbed => OneCommand /\ Stages

-----------------------------------------------------------------------------
\* A command is one of its phase, and not the absence of one.
LEMMA CurrentFacts ==
  ASSUME Bounded, phase \in UpdatePhases
  PROVE  /\ phase # "done" => Current.code = phase
         /\ Current.code \in UpdatePhases /\ Current # NoCommand
         /\ phase = "erase" => Current.at = Start /\ Current.len = ImageLen
         /\ phase = "write" => Current.at = next /\ Current.len = ChunkLen(next)
<1>1. NoCommand.code = "none"
  BY DEF NoCommand, Command, None
<1>2. Current.code = phase
  BY DEF Current, CommandOf, Command, UpdatePhases
<1>3. QED
  BY <1>1, <1>2 DEF Current, CommandOf, Command, UpdatePhases

\* The line as the disjuncts of OneCommand leave it.
LEMMA PlaceFacts ==
  ASSUME Bounded, phase \in UpdatePhases, OneCommand
  PROVE  /\ requests # <<>> => OnItsWay /\ waiting /\ answer = None
         /\ held # NoCommand => InHand /\ waiting /\ answer = None
         /\ replies # <<>> => Answered /\ waiting /\ answer = None
         /\ waiting /\ answer = phase => Quiet
         /\ ~waiting => Quiet
         /\ Quiet => ~InHand /\ ~OnItsWay /\ ~Answered
<1>1. Current # NoCommand
  BY CurrentFacts
<1>2. phase # None
  BY DEF UpdatePhases, None
<1>3. Quiet => ~InHand /\ ~OnItsWay /\ ~Answered
  BY <1>1 DEF Quiet, InHand, OnItsWay, Answered
<1>4. OnItsWay => ~InHand /\ ~Answered
  BY DEF InHand, OnItsWay, Answered
<1>5. InHand => ~Answered
  BY <1>1 DEF InHand, Answered
<1>6. QED
  BY <1>1, <1>2, <1>3, <1>4, <1>5 DEF OneCommand, Quiet, OnItsWay, InHand, Answered

\* Without a command in hand no operation has been made for it.
LEMMA NoStep == ASSUME Bounded, held = NoCommand PROVE step = 0
<1>1. Operations(held) = 0
  BY DEF Operations, NoCommand, Command, None
<1>2. QED
  BY <1>1 DEF Bounded

\* One that is sealed or has lost its reset command is as far as it was.
LEMMA SealUpdates == ASSUME IInv, UpdateInv, SealLow \/ SealHigh PROVE UpdateInv'
<1>1. phase \in {"idle", "enter"} \cup Queries /\ Queries \subseteq {"version", "other"}
  BY IapAssumption DEF IInv, Young, SealLow, SealHigh
<1>2. UNCHANGED <<requests, replies, held, step, flash, mode, iapFlag, host, clean>>
      /\ (pgerr' = FALSE \/ pgerr' = pgerr)
  BY DEF SealLow, SealHigh
<1>3. SUFFICES ASSUME Undisturbed, OneCommand, Stages PROVE OneCommand' /\ Stages'
  BY <1>2 DEF UpdateInv, Undisturbed, host
<1>4. phase = "enter"
  BY <1>1, <1>3 DEF Undisturbed, UpdatePhases
<1>5. UNCHANGED <<phase, next, waiting, answer>>
  BY <1>2 DEF host
<1>6. OneCommand'
  BY <1>2, <1>3, <1>5 DEF OneCommand, Quiet, OnItsWay, InHand, Answered, Current
<1>7. Stages'
  BY <1>2, <1>3, <1>4, <1>5 DEF Stages, EnterStage, EraseStage, WriteStage, CarriedOut, Answered
<1>8. QED
  BY <1>6, <1>7

\* A command that arrives, or is dropped, has changed nothing yet.
LEMMA DeliverUpdates == ASSUME IInv, UpdateInv, Deliver PROVE UpdateInv'
<1>1. UNCHANGED <<flash, pgerr, mode, iapFlag, step, replies, phase, next, waiting, answer, clean>>
  BY DEF Deliver, host
<1>2. SUFFICES ASSUME Undisturbed, OneCommand, Stages PROVE OneCommand' /\ Stages'
  BY <1>1 DEF UpdateInv, Undisturbed
<1>3. OnItsWay /\ waiting /\ answer = None
  BY <1>2, PlaceFacts DEF IInv, Undisturbed, Deliver
<1>4. requests' = <<>> /\ held' \in {NoCommand, Current} /\ replies = <<>>
  BY <1>3 DEF OnItsWay, Deliver
<1>5. Current # NoCommand
  BY <1>2, CurrentFacts DEF IInv, Undisturbed
<1>6. step = 0
  BY <1>3, NoStep DEF IInv, OnItsWay
<1>7. Current' = Current
  BY <1>1 DEF Current
<1>8. phase # None
  BY <1>2 DEF Undisturbed, UpdatePhases, None
<1>9. OneCommand'
  BY <1>1, <1>2, <1>3, <1>4, <1>7 DEF OneCommand, Quiet, InHand
<1>10. ~CarriedOut /\ ~CarriedOut' /\ ~InHand
  BY <1>1, <1>3, <1>4, <1>8 DEF CarriedOut, Answered, OnItsWay, InHand
<1>11. Written = 0 /\ Written' = 0
  BY <1>1, <1>6, <1>10 DEF Written
<1>12. EnterStage'
  BY <1>1, <1>2, <1>10 DEF Stages, EnterStage
<1>13. EraseStage'
  <2>1. Page(Start) \in Int
    BY Constants DEF Page
  <2>2. Page(Start) .. Page(Start) + step' - 1 = {}
    BY <1>1, <1>6, <2>1
  <2>3. QED
    BY <1>10, <2>2 DEF EraseStage
<1>14. WriteStage'
  BY <1>1, <1>2, <1>11 DEF Stages, WriteStage
<1>15. phase' \in {"reset", "done"} => Installed'
  BY <1>1, <1>2 DEF Stages, Installed
<1>16. QED
  BY <1>9, <1>12, <1>13, <1>14, <1>15 DEF Stages

\* A page more is erased.
LEMMA EraseUpdates == ASSUME IInv, UpdateInv, EraseStep PROVE UpdateInv'
<1>1. UNCHANGED <<requests, replies, held, mode, iapFlag, phase, next, waiting, answer, clean>>
      /\ pgerr' = pgerr /\ step' = step + 1
  BY DEF EraseStep, ErasePage, host
<1>2. SUFFICES ASSUME Undisturbed, OneCommand, Stages PROVE OneCommand' /\ Stages'
  BY <1>1 DEF UpdateInv, Undisturbed
<1>3. InHand /\ waiting /\ answer = None
  BY <1>2, PlaceFacts DEF IInv, Undisturbed, EraseStep
<1>4. phase = "erase"
  BY <1>2, <1>3, CurrentFacts DEF IInv, Undisturbed, InHand, EraseStep, OneCommand
<1>5. OneCommand'
  BY <1>1, <1>2 DEF OneCommand, Quiet, OnItsWay, InHand, Answered, Current
<1>6. held.at = Start /\ ~pgerr
  BY <1>2, <1>3, <1>4, CurrentFacts DEF IInv, Undisturbed, InHand, Stages, EnterStage
<1>7. flash' = [a \in Addresses |-> IF Page(a) = Page(Start) + step THEN Erased ELSE flash[a]]
  BY <1>6 DEF EraseStep, ErasePage
<1>8. ~CarriedOut'
  <2>1. answer' # phase' /\ replies' # <<phase'>>
    BY <1>1, <1>3, <1>4 DEF InHand, None
  <2>2. QED
    BY <2>1 DEF CarriedOut, Answered
<1>9. EraseStage'
  <2>1. SUFFICES ASSUME NEW a \in Addresses, Page(a) \in Page(Start) .. Page(Start) + (step + 1) - 1
        PROVE  flash'[a] = Erased
    BY <1>1, <1>8 DEF EraseStage
  <2>2. step \in Nat /\ Page(Start) \in Int
    <3>1. step \in Nat
      BY HeldSendable DEF IInv, EraseStep
    <3>2. QED
      BY <3>1, Constants DEF Page
  <2>3. CASE Page(a) = Page(Start) + step
    BY <1>7, <2>3
  <2>4. CASE Page(a) # Page(Start) + step
    <3>1. PICK p \in Int : p = Page(Start)
      BY <2>2
    <3>2. PICK q \in p .. p + (step + 1) - 1 : q = Page(a)
      BY <2>1, <3>1
    <3>3. q \in p .. p + step - 1
      BY <2>2, <2>4, <3>1, <3>2
    <3>4. Page(a) \in Page(Start) .. Page(Start) + step - 1
      BY <3>1, <3>2, <3>3
    <3>5. QED
      BY <1>2, <1>3, <1>4, <1>7, <2>4, <3>4 DEF Stages, EraseStage
  <2>5. QED
    BY <2>3, <2>4
<1>10. QED
  BY <1>1, <1>2, <1>4, <1>5, <1>8, <1>9 DEF Stages, EnterStage, WriteStage

\* A half-word more is written, where the flash was erased.
LEMMA WriteUpdates == ASSUME IInv, UpdateInv, WriteStep PROVE UpdateInv'
<1>1. UNCHANGED <<requests, replies, held, mode, iapFlag, phase, next, waiting, answer, clean>>
      /\ step' = step + 1
  BY DEF WriteStep, host
<1>2. SUFFICES ASSUME Undisturbed, OneCommand, Stages PROVE OneCommand' /\ Stages'
  BY <1>1 DEF UpdateInv, Undisturbed
<1>3. InHand /\ waiting /\ answer = None
  BY <1>2, PlaceFacts DEF IInv, Undisturbed, WriteStep
<1>4. phase = "write"
  BY <1>2, <1>3, CurrentFacts DEF IInv, Undisturbed, InHand, WriteStep, OneCommand
<1>5. OneCommand'
  BY <1>1, <1>2 DEF OneCommand, Quiet, OnItsWay, InHand, Answered, Current
<1>6. held.at = next /\ held.len = ChunkLen(next) /\ ~pgerr
  BY <1>2, <1>3, <1>4, CurrentFacts DEF IInv, Undisturbed, InHand, Stages, EnterStage
<1>7. /\ held.at \in ImageArea /\ held.at \in Nat /\ held.len \in Nat
      /\ step \in Nat /\ held.at + held.len <= End /\ step < held.len
  BY HeldSendable DEF IInv, WriteStep, Operations
<1>8. PICK at \in ImageArea : at = next + step
  BY <1>6, <1>7, Constants DEF ImageArea
<1>9. Written = step /\ InHand' /\ Written' = step + 1
  BY <1>1, <1>3 DEF Written, InHand, Current
<1>10. flash[at] = Erased
  <2>1. ~(at < next + step)
    BY <1>6, <1>7, <1>8
  <2>2. QED
    BY <1>2, <1>4, <1>9, <2>1 DEF Stages, WriteStage
<1>11. flash' = [flash EXCEPT ![at] = New[at]] /\ pgerr' = pgerr
  BY <1>6, <1>8, <1>10 DEF WriteStep, ProgramHalfWord, Programmable
<1>12. WriteStage'
  <2>1. SUFFICES ASSUME NEW a \in ImageArea
        PROVE  flash'[a] = IF a < next + (step + 1) THEN New[a] ELSE Erased
    BY <1>1, <1>9 DEF WriteStage
  <2>2. a \in Addresses /\ a \in Nat
    BY Constants DEF ImageArea
  <2>3. CASE a = at
    <3>1. a < next + (step + 1)
      BY <1>6, <1>7, <1>8, <2>3
    <3>2. QED
      BY <1>11, <2>2, <2>3, <3>1 DEF IInv, Bounded
  <2>4. CASE a # at
    <3>1. flash'[a] = flash[a]
      BY <1>11, <2>2, <2>4 DEF IInv, Bounded
    <3>2. flash[a] = IF a < next + step THEN New[a] ELSE Erased
      BY <1>2, <1>4, <1>9 DEF Stages, WriteStage
    <3>3. a < next + (step + 1) <=> a < next + step
      BY <1>6, <1>7, <1>8, <2>2, <2>4
    <3>4. QED
      BY <3>1, <3>2, <3>3
  <2>5. QED
    BY <2>3, <2>4
<1>13. QED
  BY <1>1, <1>2, <1>4, <1>5, <1>11, <1>12 DEF Stages, EnterStage, EraseStage

\* The pages an erase command is answered for cover the image.
LEMMA PagesCover ==
  ASSUME NEW a \in ImageArea
  PROVE  Page(a) \in Page(Start) .. Page(Start) + PagesOf(ImageLen + 2) - 1
<1>1. PageSize \in Nat \ {0} /\ Start \in Nat /\ ImageLen \in Nat /\ Start % PageSize = 0
  BY IapAssumption, FlashAssumption
<1>2. a \in Nat /\ Start <= a /\ a < Start + ImageLen
  BY Constants DEF ImageArea
<1>3. PICK p \in Int : p = Page(Start)
  BY <1>1 DEF Page
<1>4. PICK q \in Int : q = Page(a)
  BY <1>1, <1>2 DEF Page
<1>5. PICK n \in Int : n = (ImageLen + 2) \div PageSize
  BY <1>1
<1>6. PICK r \in Int : r = (ImageLen + 2) % PageSize
  BY <1>1
<1>7. Start = PageSize * p
  BY <1>1, <1>3 DEF Page
<1>8. PageSize * q <= a /\ a < PageSize * q + PageSize
  BY <1>1, <1>2, <1>4 DEF Page
<1>9. ImageLen + 2 = PageSize * n + r /\ 0 <= r /\ r < PageSize
  BY <1>1, <1>5, <1>6
<1>10. q >= p
  <2>1. SUFFICES ASSUME q <= p - 1 PROVE FALSE
    BY <1>3, <1>4
  <2>2. PageSize * q <= PageSize * (p - 1) /\ PageSize * (p - 1) = PageSize * p - PageSize
    BY <1>1, <2>1
  <2>3. QED
    BY <1>1, <1>2, <1>7, <1>8, <2>2
<1>11. q < p + PagesOf(ImageLen + 2)
  <2>1. PagesOf(ImageLen + 2) = n + (IF r = 0 THEN 0 ELSE 1)
    BY <1>5, <1>6 DEF PagesOf
  <2>2. PageSize * q < PageSize * p + PageSize * n + r
    BY <1>1, <1>2, <1>7, <1>8, <1>9
  <2>3. SUFFICES ASSUME q >= p + n + (IF r = 0 THEN 0 ELSE 1) PROVE FALSE
    BY <1>3, <1>4, <1>5, <2>1
  <2>4. PICK k \in Int : k = p + n + (IF r = 0 THEN 0 ELSE 1)
    OBVIOUS
  <2>5. PageSize * q >= PageSize * k
    BY <1>1, <2>3, <2>4
  <2>6. CASE r = 0
    <3>1. PageSize * k = PageSize * p + PageSize * n
      BY <1>1, <2>4, <2>6
    <3>2. QED
      BY <1>1, <2>2, <2>5, <2>6, <3>1
  <2>7. CASE r # 0
    <3>1. PageSize * k = PageSize * p + PageSize * n + PageSize
      BY <1>1, <2>4, <2>7
    <3>2. QED
      BY <1>1, <1>9, <2>2, <2>5, <3>1
  <2>8. QED
    BY <2>6, <2>7
<1>12. QED
  <2>1. PagesOf(ImageLen + 2) \in Nat
    BY <1>1, PagesOfType
  <2>2. QED
    BY <1>3, <1>4, <1>10, <1>11, <2>1

\* What is answered has been carried out in full.
LEMMA ReplyUpdates == ASSUME IInv, UpdateInv, Reply PROVE UpdateInv'
<1>1. UNCHANGED <<flash, pgerr, mode, requests, phase, next, waiting, answer, clean>>
      /\ held' = NoCommand /\ step' = 0 /\ replies' = replies \o Answers(held)
  BY DEF Reply, host
<1>2. SUFFICES ASSUME Undisturbed, OneCommand, Stages PROVE OneCommand' /\ Stages'
  BY <1>1 DEF UpdateInv, Undisturbed
<1>3. InHand /\ waiting /\ answer = None
  BY <1>2, PlaceFacts DEF IInv, Undisturbed, Reply
<1>4. phase \in {"enter", "erase", "write"} /\ held.code = phase
  BY <1>2, <1>3, CurrentFacts DEF IInv, Undisturbed, UpdatePhases, InHand, Reply, OneCommand
<1>5. replies' = <<phase>>
  BY <1>1, <1>3, <1>4 DEF InHand, Answers
<1>6. OneCommand' /\ Answered' /\ ~InHand'
  BY <1>1, <1>3, <1>4, <1>5 DEF OneCommand, Answered, InHand
<1>7. held.at \in Addresses
  BY HeldSendable DEF IInv, Reply
<1>8. step = Operations(held)
  BY <1>7 DEF Reply
<1>9. EnterStage'
  <2>1. mode = "boot" /\ (phase = "enter" => iapFlag') /\ (iapFlag => iapFlag')
    BY <1>4 DEF Reply, Ready
  <2>2. QED
    BY <1>1, <1>2, <2>1 DEF Stages, EnterStage
<1>10. EraseStage'
  <2>1. SUFFICES ASSUME phase = "erase", NEW a \in ImageArea PROVE flash[a] = Erased
    BY <1>1, <1>6 DEF EraseStage
  <2>2. step = PagesOf(ImageLen + 2)
    BY <1>2, <1>3, <1>4, <1>8, <2>1, CurrentFacts DEF IInv, Undisturbed, InHand, Operations
  <2>3. Page(a) \in Page(Start) .. Page(Start) + step - 1
    BY <2>2, PagesCover
  <2>4. QED
    BY <1>2, <1>3, <2>1, <2>3, Constants DEF Stages, EraseStage
<1>11. WriteStage'
  <2>1. SUFFICES ASSUME phase = "write" PROVE Written' = Written
    BY <1>1, <1>2 DEF Stages, WriteStage
  <2>2. step = ChunkLen(next)
    BY <1>2, <1>3, <1>4, <1>8, <2>1, CurrentFacts DEF IInv, Undisturbed, InHand, Operations
  <2>3. QED
    BY <1>1, <1>3, <1>6, <2>2 DEF Written, CarriedOut, ChunkLen
<1>12. QED
  BY <1>1, <1>4, <1>6, <1>9, <1>10, <1>11 DEF Stages

\* What is known of an update that lost no frame, when the boot loader starts again,
\* ...
LEMMA ResetUpdates == ASSUME IInv, UpdateInv, ResetCommand PROVE UpdateInv'
<1>1. UNCHANGED <<flash, requests, phase, next, waiting, answer, clean>>
      /\ held' = NoCommand /\ replies' = replies \o Answers(held)
  BY DEF ResetCommand, Restart, host
<1>2. SUFFICES ASSUME Undisturbed, OneCommand, Stages PROVE OneCommand' /\ Stages'
  BY <1>1 DEF UpdateInv, Undisturbed
<1>3. InHand /\ waiting /\ answer = None
  BY <1>2, PlaceFacts DEF IInv, Undisturbed, ResetCommand
<1>4. phase = "reset" /\ held.code = phase
  BY <1>2, <1>3, CurrentFacts DEF IInv, Undisturbed, InHand, ResetCommand, OneCommand
<1>5. replies' = <<phase>>
  BY <1>1, <1>3, <1>4 DEF InHand, Answers
<1>6. OneCommand'
  BY <1>1, <1>3, <1>4, <1>5 DEF OneCommand, Answered, InHand
<1>7. QED
  BY <1>1, <1>2, <1>4, <1>6 DEF Stages, EnterStage, EraseStage, WriteStage, Installed

\* While an update has the board, nothing is started.
LEMMA LoadUpdates == ASSUME IInv, UpdateInv, LoadApp PROVE UpdateInv'
<1>1. UNCHANGED <<flash, pgerr, held, step, requests, replies, phase, next, waiting, answer, clean>>
      /\ ~iapFlag
  BY DEF LoadApp, host
<1>2. SUFFICES ASSUME Undisturbed, OneCommand, Stages PROVE OneCommand' /\ Stages'
  BY <1>1 DEF UpdateInv, Undisturbed
<1>3. phase \notin {"erase", "write"} /\ ~(phase = "enter" /\ CarriedOut)
  BY <1>1, <1>2 DEF Stages, EnterStage
<1>4. OneCommand'
  BY <1>1, <1>2 DEF OneCommand, Quiet, OnItsWay, InHand, Answered, Current
<1>5. CarriedOut' = CarriedOut
  BY <1>1 DEF CarriedOut, Answered
<1>6. QED
  BY <1>1, <1>2, <1>3, <1>4, <1>5 DEF Stages, EnterStage, EraseStage, WriteStage, Installed

-----------------------------------------------------------------------------
\* A command that has just been sent has done nothing.
LEMMA SentFacts ==
  ASSUME Bounded, Quiet, phase' \in UpdatePhases, phase' # "done", Send(CommandOf(phase', next')),
         UNCHANGED <<board, replies>>
  PROVE  OneCommand' /\ ~CarriedOut' /\ ~InHand' /\ Written' = 0
<1>1. requests' = <<Current'>> /\ held' = NoCommand /\ replies' = <<>> /\ answer' = None /\ waiting'
  BY DEF Quiet, Send, Current, board
<1>2. OneCommand' /\ ~InHand'
  BY <1>1 DEF OneCommand, OnItsWay, InHand
<1>3. ~CarriedOut'
  BY <1>1 DEF CarriedOut, Answered, UpdatePhases, None
<1>4. QED
  BY <1>2, <1>3 DEF Written

\* ... when one begins, ...
LEMMA BeginUpdates == ASSUME IInv, Begin PROVE UpdateInv'
<1>1. SUFFICES ASSUME Undisturbed' PROVE OneCommand' /\ Stages'
  BY DEF UpdateInv
<1>2. Quiet /\ ~pgerr
  BY <1>1 DEF Begin, Undisturbed
<1>3. phase' = "enter" /\ next' = Start /\ Send(CommandOf(phase', next'))
      /\ UNCHANGED <<board, replies>> /\ pgerr' = pgerr
  BY DEF Begin
<1>4. OneCommand' /\ ~CarriedOut'
  BY <1>2, <1>3, SentFacts DEF IInv, UpdatePhases
<1>5. QED
  BY <1>2, <1>3, <1>4 DEF Stages, EnterStage, EraseStage, WriteStage

\* ... when the host sends its next command, ...
LEMMA CallUpdates == ASSUME IInv, UpdateInv, Call PROVE UpdateInv'
<1>1. UNCHANGED <<flash, pgerr, board, replies, phase, next, clean>> /\ ~waiting
      /\ phase \in UpdatePhases /\ phase # "done" /\ Send(CommandOf(phase', next'))
  BY DEF Call, UpdatePhases
<1>2. SUFFICES ASSUME Undisturbed, OneCommand, Stages PROVE OneCommand' /\ Stages'
  BY <1>1 DEF UpdateInv, Undisturbed
<1>3. Quiet /\ ~InHand /\ ~Answered
  BY <1>1, <1>2, PlaceFacts DEF IInv, Undisturbed
<1>4. OneCommand' /\ ~CarriedOut' /\ ~InHand' /\ Written' = 0
  BY <1>1, <1>3, SentFacts DEF IInv
<1>5. Written = 0
  BY <1>1, <1>3 DEF Written, CarriedOut
<1>6. QED
  BY <1>1, <1>2, <1>4, <1>5 DEF Stages, EnterStage, EraseStage, WriteStage, Installed, board

\* ... and when it hears the answer.
LEMMA HearUpdates == ASSUME IInv, UpdateInv, Hear PROVE UpdateInv'
<1>1. UNCHANGED <<flash, pgerr, mode, iapFlag, held, step, requests, phase, next, waiting, clean>>
  BY DEF Hear, board
<1>2. SUFFICES ASSUME Undisturbed, OneCommand, Stages PROVE OneCommand' /\ Stages'
  BY <1>1 DEF UpdateInv, Undisturbed
<1>3. Answered /\ waiting /\ answer = None
  BY <1>2, PlaceFacts DEF IInv, Undisturbed, Hear
<1>4. replies' = <<>> /\ answer' = phase
  BY <1>3 DEF Answered, Hear
<1>5. OneCommand'
  BY <1>1, <1>2, <1>3, <1>4 DEF OneCommand, Quiet, Answered
<1>6. Current # NoCommand
  BY <1>2, CurrentFacts DEF IInv, Undisturbed
<1>7. CarriedOut /\ CarriedOut' /\ ~InHand /\ ~InHand'
  BY <1>1, <1>3, <1>4, <1>6 DEF CarriedOut, Answered, InHand, Current
<1>8. Written' = Written
  BY <1>1, <1>7 DEF Written
<1>9. QED
  BY <1>1, <1>2, <1>5, <1>7, <1>8 DEF Stages, EnterStage, EraseStage, WriteStage, Installed

\* The host goes on to what the flash is ready for.
LEMMA AcceptUpdates == ASSUME IInv, UpdateInv, Accept PROVE UpdateInv'
<1>1. UNCHANGED <<flash, pgerr, mode, iapFlag, held, step, requests, replies, answer, clean>>
      /\ waiting /\ answer = phase /\ ~waiting' /\ phase' = NextPhase
  BY DEF Accept, board
<1>2. SUFFICES ASSUME Undisturbed' PROVE OneCommand' /\ Stages'
  BY DEF UpdateInv
<1>3. phase \in {"enter", "erase", "write", "reset"} /\ Undisturbed
  <2>1. phase # "done"
    BY <1>1 DEF IInv, Bounded, Codes, None
  <2>2. phase \in {"enter", "erase", "write", "reset"}
    BY <1>1, <1>2, <2>1 DEF Undisturbed, UpdatePhases, NextPhase
  <2>3. QED
    BY <1>1, <1>2, <2>2 DEF Undisturbed, UpdatePhases
<1>4. OneCommand /\ Stages
  BY <1>3 DEF UpdateInv
<1>5. Quiet /\ ~InHand /\ CarriedOut
  BY <1>1, <1>3, <1>4, PlaceFacts DEF IInv, Undisturbed, CarriedOut
<1>6. Quiet'
  BY <1>1, <1>5 DEF Quiet
<1>7. OneCommand'
  BY <1>1, <1>6 DEF OneCommand
<1>8. ~CarriedOut' /\ ~InHand' /\ Written' = 0
  <2>1. ~CarriedOut'
    BY <1>1, <1>6 DEF Quiet, CarriedOut, Answered
  <2>2. Current' # NoCommand
    <3>1. Current'.code = phase'
      BY <1>2 DEF Current, CommandOf, Command, Undisturbed, UpdatePhases
    <3>2. QED
      BY <1>2, <3>1 DEF NoCommand, Command, None, Undisturbed, UpdatePhases
  <2>3. QED
    BY <1>6, <2>1, <2>2 DEF Quiet, InHand, Written
<1>9. CASE phase = "enter"
  <2>1. phase' = "erase" /\ next' = next
    BY <1>1, <1>9 DEF Accept, NextPhase
  <2>2. QED
    BY <1>1, <1>4, <1>5, <1>7, <1>8, <1>9, <2>1 DEF Stages, EnterStage, EraseStage, WriteStage
<1>10. CASE phase = "erase"
  <2>1. phase' = "write" /\ next' = next
    BY <1>1, <1>10 DEF Accept, NextPhase
  <2>2. WriteStage'
    <3>1. SUFFICES ASSUME NEW a \in ImageArea
          PROVE  flash[a] = IF a < Start + 0 THEN New[a] ELSE Erased
      BY <1>1, <1>4, <1>8, <1>10, <2>1 DEF WriteStage, Stages, EnterStage
    <3>2. ~(a < Start + 0)
      BY Constants DEF ImageArea
    <3>3. QED
      BY <1>4, <1>5, <1>10, <3>2 DEF Stages, EraseStage
  <2>3. QED
    BY <1>1, <1>4, <1>7, <1>10, <2>1, <2>2 DEF Stages, EnterStage, EraseStage
<1>11. CASE phase = "write"
  <2>1. next' = next + ChunkLen(next) /\ Written = ChunkLen(next)
    BY <1>5, <1>11 DEF Accept, Written
  <2>2. next \in Nat /\ ChunkLen(next) \in Nat
    <3>1. next \in ImageArea
      BY <1>11 DEF IInv, Bounded
    <3>2. QED
      BY <3>1, Constants DEF ImageArea, ChunkLen, LesserOf
  <2>3. \A a \in ImageArea : flash[a] = IF a < next' THEN New[a] ELSE Erased
    BY <1>4, <1>11, <2>1 DEF Stages, WriteStage
  <2>4. CASE phase' = "write"
    <3>1. next' + 0 = next'
      BY <2>1, <2>2
    <3>2. WriteStage'
      BY <1>1, <1>8, <2>3, <3>1 DEF WriteStage
    <3>3. QED
      BY <1>1, <1>4, <1>7, <1>11, <2>4, <3>2 DEF Stages, EnterStage, EraseStage
  <2>5. CASE phase' # "write"
    <3>1. phase' = "reset" /\ next' = End
      BY <1>1, <1>11, <2>1, <2>5 DEF NextPhase
    <3>2. Installed'
      BY <1>1, <2>3, <3>1, Constants DEF Installed, ImageArea
    <3>3. QED
      BY <1>7, <3>1, <3>2 DEF Stages, EnterStage, EraseStage, WriteStage
  <2>6. QED
    BY <2>4, <2>5
<1>12. CASE phase = "reset"
  <2>1. phase' = "done"
    BY <1>1, <1>12 DEF NextPhase
  <2>2. QED
    BY <1>1, <1>4, <1>7, <1>12, <2>1 DEF Stages, EnterStage, EraseStage, WriteStage, Installed
<1>13. QED
  BY <1>3, <1>9, <1>10, <1>11, <1>12

\* A call that ends while nothing is on the way leaves nothing half done.
LEMMA FailUpdates == ASSUME IInv, UpdateInv, Refuse \/ TimeOut PROVE UpdateInv'
<1>1. CASE Refuse
  <2>1. ~Undisturbed \/ ~OneCommand
    BY <1>1 DEF Refuse, OneCommand
  <2>2. UNCHANGED <<phase, clean>>
    BY <1>1 DEF Refuse
  <2>3. QED
    BY <2>1, <2>2 DEF UpdateInv, Undisturbed
<1>2. CASE TimeOut
  <2>1. UNCHANGED <<flash, pgerr, mode, iapFlag, held, step, requests, replies, phase, next, answer>>
        /\ clean' = (clean /\ Quiet) /\ ~waiting' /\ answer = None
    BY <1>2 DEF TimeOut, board
  <2>2. SUFFICES ASSUME Undisturbed, OneCommand, Stages, Quiet PROVE OneCommand' /\ Stages'
    BY <2>1 DEF UpdateInv, Undisturbed
  <2>3. phase # None /\ Current # NoCommand
    BY <2>2, CurrentFacts DEF Undisturbed, UpdatePhases, None, IInv
  <2>4. OneCommand'
    BY <2>1, <2>2 DEF OneCommand, Quiet
  <2>5. ~CarriedOut /\ ~CarriedOut' /\ ~InHand /\ ~InHand'
    BY <2>1, <2>2, <2>3 DEF CarriedOut, Answered, InHand, Quiet, Current
  <2>6. Written' = Written
    BY <2>5 DEF Written
  <2>7. QED
    BY <2>1, <2>2, <2>4, <2>5, <2>6 DEF Stages, EnterStage, EraseStage, WriteStage, Installed
<1>3. QED
  BY <1>1, <1>2

-----------------------------------------------------------------------------
\* A frame that is lost ends what can be said of the update.
LEMMA LossUpdates == ASSUME IInv, UpdateInv, LoseRequest \/ LoseReply PROVE UpdateInv'
<1>1. UNCHANGED <<flash, pgerr, mode, iapFlag, held, step, phase, next, waiting, answer>>
      /\ (clean' => clean)
  BY DEF LoseRequest, LoseReply, board, host, IInv, Bounded
<1>2. SUFFICES ASSUME Undisturbed, OneCommand, Stages, clean' PROVE OneCommand' /\ Stages'
  BY <1>1 DEF UpdateInv, Undisturbed
<1>3. /\ OnItsWay \/ (Answered /\ phase # "write")
      /\ waiting /\ answer = None /\ requests' = <<>> /\ replies' = <<>>
  <2>1. CASE LoseRequest
    <3>1. OnItsWay /\ waiting /\ answer = None
      BY <1>2, <2>1, PlaceFacts DEF IInv, Undisturbed, LoseRequest
    <3>2. requests' = <<>> /\ replies' = <<>>
      BY <2>1, <3>1 DEF LoseRequest, OnItsWay
    <3>3. QED
      BY <3>1, <3>2
  <2>2. CASE LoseReply
    <3>1. Answered /\ waiting /\ answer = None
      BY <1>2, <2>2, PlaceFacts DEF IInv, Undisturbed, LoseReply
    <3>2. requests' = <<>> /\ replies' = <<>> /\ Head(replies) = phase
      BY <2>2, <3>1 DEF LoseReply, Answered
    <3>3. phase # "write"
      BY <1>2, <2>2, <3>2 DEF LoseReply
    <3>4. QED
      BY <3>1, <3>2, <3>3
  <2>3. QED
    BY <2>1, <2>2
<1>4. Quiet'
  BY <1>1, <1>3 DEF Quiet, OnItsWay, Answered
<1>5. phase # None /\ Current # NoCommand
  BY <1>2, CurrentFacts DEF Undisturbed, UpdatePhases, None, IInv
<1>6. OneCommand'
  BY <1>1, <1>2, <1>4 DEF OneCommand
<1>7. ~CarriedOut' /\ ~InHand' /\ (OnItsWay => ~CarriedOut /\ ~InHand)
  BY <1>1, <1>3, <1>4, <1>5 DEF CarriedOut, Answered, InHand, Quiet, Current, OnItsWay
<1>8. Written' = 0 /\ (OnItsWay => Written = 0)
  BY <1>7 DEF Written
<1>9. QED
  BY <1>1, <1>2, <1>3, <1>6, <1>7, <1>8 DEF Stages, EnterStage, EraseStage, WriteStage, Installed

\* So does the power when it fails.
LEMMA CutUpdates == ASSUME IInv, UpdateInv, PowerCut PROVE UpdateInv'
<1>1. /\ UNCHANGED <<flash, requests, replies, phase, next, waiting, answer>>
      /\ held' = NoCommand /\ pgerr' = FALSE
      /\ clean' = (clean /\ \/ phase \in {"reset", "done"}
                            \/ phase = "enter" /\ Quiet /\ answer = None)
  BY DEF PowerCut, Restart, host
<1>2. SUFFICES ASSUME Undisturbed, OneCommand, Stages, clean' PROVE OneCommand' /\ Stages'
  BY <1>1 DEF UpdateInv, Undisturbed
<1>3. OneCommand'
  <2>1. Quiet' \/ (OnItsWay' /\ OnItsWay) \/ (Answered' /\ Answered)
    BY <1>1, <1>2 DEF OneCommand, Quiet, OnItsWay, InHand, Answered, Current
  <2>2. waiting' = waiting /\ answer' = answer /\ phase' = phase
    BY <1>1
  <2>3. Current # NoCommand
    BY <1>2, CurrentFacts DEF IInv, Undisturbed
  <2>4. OnItsWay \/ Answered => ~Quiet
    BY DEF OnItsWay, Answered, Quiet
  <2>5. QED
    BY <1>2, <2>1, <2>2, <2>4 DEF OneCommand
<1>4. CASE phase \in {"reset", "done"}
  BY <1>1, <1>2, <1>3, <1>4 DEF Stages, EnterStage, EraseStage, WriteStage, Installed
<1>5. CASE phase = "enter" /\ Quiet /\ answer = None
  <2>1. ~CarriedOut'
    BY <1>1, <1>5 DEF CarriedOut, Answered, Quiet, None
  <2>2. QED
    BY <1>1, <1>2, <1>3, <1>5, <2>1 DEF Stages, EnterStage, EraseStage, WriteStage
<1>6. QED
  BY <1>1, <1>2, <1>4, <1>5

-----------------------------------------------------------------------------
\* Every step keeps what is known of an update.
LEMMA UpdateInductive == ASSUME IInv, UpdateInv, [Next]_vars PROVE UpdateInv'
<1>1. CASE Board
  BY <1>1, SealUpdates, DeliverUpdates, EraseUpdates, WriteUpdates, ReplyUpdates, ResetUpdates,
     LoadUpdates DEF Board
<1>2. CASE Query \/ Leave
  <2>1. phase' \notin UpdatePhases
    BY <1>2, IapAssumption DEF Query, Leave, UpdatePhases
  <2>2. QED
    BY <2>1 DEF UpdateInv, Undisturbed
<1>3. CASE Host
  BY <1>2, <1>3, BeginUpdates, CallUpdates, HearUpdates, AcceptUpdates, FailUpdates DEF Host
<1>4. CASE Fault
  BY <1>4, LossUpdates, CutUpdates DEF Fault
<1>5. CASE UNCHANGED vars
  <2>1. UNCHANGED <<flash, pgerr, mode, iapFlag, held, step, requests, replies, phase, next, waiting,
                    answer, clean>>
    BY <1>5 DEF vars, board, host
  <2>2. OneCommand' = OneCommand /\ Undisturbed' = Undisturbed
    BY <2>1 DEF OneCommand, Undisturbed, Quiet, OnItsWay, InHand, Answered, Current
  <2>3. Stages' = Stages
    BY <2>1 DEF Stages, EnterStage, EraseStage, WriteStage, Installed, CarriedOut, Written, InHand,
                Answered, Current
  <2>4. QED
    BY <2>2, <2>3 DEF UpdateInv
<1>6. QED
  BY <1>1, <1>3, <1>4, <1>5 DEF Next

\* Both invariants hold in every state.
LEMMA AlwaysUpdate == Spec => [](IInv /\ UpdateInv)
<1>1. Init => UpdateInv
  BY DEF Init, UpdateInv, Undisturbed
<1>2. IInv /\ UpdateInv /\ [Next]_vars => UpdateInv'
  BY UpdateInductive
<1>3. QED
  BY <1>1, <1>2, Always, PTL DEF Spec

\* Whatever was lost and sent again, and whatever earlier updates have left in
\* the flash: an update that no fault could spoil ends with every half-word of
\* the image in its place (iapUpRun against sky_runCmdPact).
THEOREM CleanUpdatesInstall == Spec => []CleanUpdateInstalls
<1>1. UpdateInv => CleanUpdateInstalls
  BY DEF UpdateInv, Undisturbed, UpdatePhases, Stages, CleanUpdateInstalls
<1>2. QED
  BY <1>1, AlwaysUpdate, PTL

-----------------------------------------------------------------------------
\* The host has, or is about to hear, the answer to its entry.
Acknowledged ==
  phase # "enter" \/ answer = "enter" \/ \E k \in DOMAIN replies : replies[k] = "enter"

\* An answer to the entry means that the board has stayed since.
EntryInv == unbroken /\ phase \in UpdatePhases /\ Acknowledged => iapFlag

\* The board gives that answer only when it stays.
LEMMA ReplyEnters == ASSUME IInv, EntryInv, Reply PROVE EntryInv'
<1>1. SUFFICES ASSUME unbroken, phase \in UpdatePhases, Acknowledged' PROVE iapFlag'
  BY DEF EntryInv, Reply, host
<1>2. CASE Acknowledged
  BY <1>1, <1>2 DEF EntryInv, Reply
<1>3. CASE ~Acknowledged
  <2>1. replies' = replies \o Answers(held) /\ UNCHANGED <<phase, answer>>
    BY DEF Reply, host
  <2>2. replies \in Seq(Codes \cup {"error"}) /\ Answers(held) \in Seq(Codes \cup {"error"})
    <3>1. held.code \in Codes
      BY HeldSendable DEF IInv, Reply
    <3>2. QED
      BY <3>1, AnswersSent DEF IInv, Bounded
  <2>3. PICK k \in DOMAIN (replies \o Answers(held)) : (replies \o Answers(held))[k] = "enter"
    BY <1>1, <1>3, <2>1 DEF Acknowledged
  <2>4. \E j \in DOMAIN Answers(held) : Answers(held)[j] = "enter"
    <3>1. k \notin DOMAIN replies
      <4>1. k \in DOMAIN replies => (replies \o Answers(held))[k] = replies[k]
        BY <2>2
      <4>2. QED
        BY <1>3, <2>3, <4>1 DEF Acknowledged
    <3>2. k - Len(replies) \in DOMAIN Answers(held)
      BY <2>2, <2>3, <3>1
    <3>3. (replies \o Answers(held))[k] = Answers(held)[k - Len(replies)]
      BY <2>2, <2>3, <3>1
    <3>4. QED
      BY <2>3, <3>2, <3>3
  <2>5. held.code = "enter"
    BY <2>4 DEF Answers
  <2>6. QED
    BY <2>5 DEF Reply
<1>4. QED
  BY <1>2, <1>3

\* Hearing it, going on and a loss make no new one.
LEMMA HostEnters ==
  ASSUME IInv, EntryInv, Host \/ LoseRequest \/ LoseReply
  PROVE  EntryInv'
<1>1. replies \in Seq(Codes \cup {"error"})
  BY DEF IInv, Bounded
<1>2. CASE Begin
  <2>1. SUFFICES ASSUME Quiet PROVE ~Acknowledged'
    BY <1>2 DEF Begin, EntryInv
  <2>2. phase' = "enter" /\ answer' = None /\ replies' = <<>>
    BY <1>2, <2>1 DEF Begin, Send, Quiet
  <2>3. QED
    BY <2>2 DEF Acknowledged, None
<1>3. CASE Query \/ Leave
  BY <1>3, IapAssumption DEF Query, Leave, EntryInv, UpdatePhases
<1>4. CASE Call \/ Refuse \/ TimeOut \/ LoseRequest
  <2>1. UNCHANGED <<replies, phase, unbroken, iapFlag>> /\ answer' \in {answer, None}
    BY <1>4 DEF Call, Send, Refuse, TimeOut, LoseRequest, board, host
  <2>2. QED
    BY <2>1 DEF EntryInv, Acknowledged, None
<1>5. CASE Hear \/ LoseReply
  <2>1. /\ UNCHANGED <<phase, unbroken, iapFlag>>
        /\ replies # <<>> /\ replies' = Tail(replies) /\ answer' \in {answer, Head(replies)}
    BY <1>5 DEF Hear, LoseReply, board, host
  <2>2. 1 \in DOMAIN replies /\ Head(replies) = replies[1]
    BY <1>1, <2>1
  <2>3. \A k \in DOMAIN Tail(replies) : k + 1 \in DOMAIN replies /\ Tail(replies)[k] = replies[k + 1]
    BY <1>1, <2>1
  <2>4. Acknowledged' => Acknowledged
    BY <2>1, <2>2, <2>3 DEF Acknowledged
  <2>5. QED
    BY <2>1, <2>4 DEF EntryInv
<1>6. CASE Accept
  <2>1. UNCHANGED <<unbroken, iapFlag>> /\ answer = phase /\ phase' = NextPhase
    BY <1>6 DEF Accept, board
  <2>2. phase' \in UpdatePhases => phase \in UpdatePhases
    BY <2>1 DEF NextPhase, UpdatePhases
  <2>3. Acknowledged
    BY <2>1 DEF Acknowledged
  <2>4. QED
    BY <2>1, <2>2, <2>3 DEF EntryInv
<1>7. QED
  BY <1>2, <1>3, <1>4, <1>5, <1>6 DEF Host

\* Every step keeps that.
LEMMA EntryInductive == ASSUME IInv, EntryInv, [Next]_vars PROVE EntryInv'
<1>1. CASE ResetCommand \/ PowerCut
  BY <1>1 DEF ResetCommand, PowerCut, EntryInv
<1>2. CASE SealLow \/ SealHigh \/ Deliver \/ EraseStep \/ WriteStep \/ LoadApp \/ UNCHANGED vars
  <2>1. UNCHANGED <<replies, phase, answer, unbroken>> /\ (iapFlag => iapFlag')
    BY <1>2 DEF SealLow, SealHigh, Deliver, EraseStep, WriteStep, LoadApp, vars, board, host
  <2>2. QED
    BY <2>1 DEF EntryInv, Acknowledged
<1>3. QED
  BY <1>1, <1>2, ReplyEnters, HostEnters DEF Next, Board, Fault

\* Once the host holds the answer to its entry the boot time-out starts nothing,
\* until the board is reset (iap_load_app behind iapFlag, main.c:25).
THEOREM EnteredStays == Spec => EnteredBoardStays
<1>1. Init => EntryInv
  BY DEF Init, EntryInv
<1>2. IInv /\ EntryInv /\ [Next]_vars => EntryInv'
  BY EntryInductive
<1>3. EntryInv /\ [Next]_vars =>
        [mode = "boot" /\ mode' = "app" =>
           ~(unbroken /\ phase \in {"erase", "write", "reset", "done"})]_vars
  <2>1. SUFFICES ASSUME EntryInv, Next, mode = "boot", mode' = "app", unbroken,
                        phase \in {"erase", "write", "reset", "done"}
        PROVE  FALSE
    OBVIOUS
  <2>2. LoadApp
    BY <2>1 DEF Next, Board, Host, Fault, SealLow, SealHigh, Deliver, EraseStep, WriteStep, Reply,
                ResetCommand, Restart, Begin, Query, Call, Hear, Accept, Refuse, TimeOut, Leave,
                LoseRequest, LoseReply, PowerCut, board
  <2>3. iapFlag
    BY <2>1 DEF EntryInv, Acknowledged, UpdatePhases
  <2>4. QED
    BY <2>2, <2>3 DEF LoadApp
<1>4. QED
  BY <1>1, <1>2, <1>3, Always, PTL DEF Spec, EnteredBoardStays
=============================================================================
