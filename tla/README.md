# TLA+ models of hthStm32SoftwareFrame

The repository is a firmware framework for STM32F103 boards: a portable layer
(`skySoftware/`) with a byte FIFO, a framed serial protocol, command parsers,
a CAN abstraction and chip drivers, and one directory per board under `bsp/`.
Nothing in it runs on a host, so what its interrupts, main loops, boot loader
and peers can do to each other has never been exercised by a test. This
directory models those parts, checks them with TLC and proves the main results
with TLAPS.

## 1. Inventory

| Part | State | Operations | Hard behaviour |
|---|---|---|---|
| `myFIFO.c` | buffer, `in`, `out` | `myFIFOInit/Read/Write` | an interrupt writes while the main loop reads, no lock; counters wrap |
| `commonIOInterface.c` | driver links | `devWrite`, `Write2dev` | fan-out of one received byte to a FIFO and to a frame receiver |
| `communication.c`, receiver | `saveFlag`, `saveNum`, `dataLen`, `oldTime`, buffer | `sky_receivePact` per byte | garbage, broken frames, silence time-out, main loop clearing the flag at any moment |
| `communication.c`, caller | as above, in the polling loop | `sky_runCmdPact`, `sky_waitData`, `sky_waitNData`, `sky_runNFun`, `sky_runOffsetCMD` | late, lost and doubled answers; retries |
| `bsp/f103VC_IAP`, `bsp/f103_IAP` | `iapFlag`, frame, flash, flash controller | `EncryRun`, `iapUpRun`, `iap_load_app` | retries of non-idempotent writes, power failures, boot time-out |
| `stmflash.c` | flash, `STMFLASH_BUF` | `STMFLASH_Write/ERASE/Write_NO_ERASE` | erase before write, sector boundaries, sticky error bit |
| `Public_SoftStringCmd.c`, `Public_SoftHexCmd.c` | FIFO, command buffer | `P_StringCmdReadCMD`, `P_HexCmdReadCMD` | commands longer than the buffer, commands split over reads |
| `Public_SoftCan.c`, `bsp_CAN.c` | node list, filters, mailboxes | `P_CAN_AddNode`, `P_CAN_SetNodeByBus`, `S_CAN_write`, `P_CAN_IRQHandler` | the interrupt walks the list while it is extended; pieces that find no mailbox |
| `bsp/f103_SD250/board/Bus.c` | `sg_bus_filter`, filter banks | `CANBus_AddRxMdl`, `USB_LP_CAN1_RX0_IRQHandler` | the bank passes frames before its entry is written |
| bus nodes (`bsp_BUSSD250*.c`) | frame, measured values | poll, answer | command handling against measurement |
| `commonCa310.c` | FIFO, reply buffer, mode, `PNumberFlag` | connect, choose probes, measure | late and partial replies, an instrument that is switched off and on |
| NFC bridge (`bsp/f103_C8t6RTThreadUSBNFCInitialise`) | two FIFOs per board, the NFC exchange | receive interrupt, NFC thread, main loop | bytes lost when an exchange fails; both sides must find each other again |
| its USB serial port (`usb_endp.c`, `usb_istr.c`, `hw_config.c`) | FIFO, endpoint | `USBComWrite`, `EP1_IN_Callback`, `SOF_Callback`, `CTR_LP` | frames and transfers load the same endpoint, while the host may be fetching from it |
| w25qxx, 24cxx, INA226, ADS1259, dac856x, SD250x, SPI/I2C, LCD | chip registers | register access | bit-banged buses, page boundaries |
| `SysTick.c` scheduler | tick counters, tasks | `SysTick_Handler`, `Sys_CreateTask` | a task that runs holds up the counters behind it; the tick interrupts a task's creation |
| rtthreadNano, stm32Lib, USB-FS driver, p2pnfclib, fonts | vendored | | not part of the project |

What makes each part correct:

- **FIFO**: it is a queue; bytes come out once, in order, and nothing unread is
  overwritten; the reader and the interrupt may interleave anywhere.
- **Frame receiver**: only well-formed frames are handed over; one that is being
  worked on does not change; after garbage the next good frame is not missed.
- **Senders**: what the receiver hands over is what the sender was called with,
  and a frame that was cut off is not taken for one.
- **Callers**: success means that the node carried this command out, and what is
  copied out is its answer; each call returns.
- **Boot loader**: an update that reports success has installed the image; no
  update damages the boot loader; no power failure bricks a working board; a board
  that has been entered stays in its boot loader until it is reset. (After a reset in
  mid-update it may start a partial image; nothing in the code prevents that.)
- **stmflash**: the half-words asked for are written, their neighbours kept.
- **Parsers**: a command that is handed over is one that was sent, and commands
  are not mixed with parts of others, whatever wraps the buffer.
- **CAN**: a node hears what its settings ask for; the interrupt finds whole lists
  and whole table entries at every moment; a frame's pieces arrive in order.
- **Bridge and USB port**: bytes arrive in order and once, only what was on the way
  in a failed exchange, or in a packet put over another, may be missing or torn, and
  nothing stays behind.
- **Flash chip**: as for stmflash, across resets and the chip's own busy time.
- **CA-310**: what a call returns is the instrument's answer to its commands.
- **Scheduler**: only functions are called, none too early, each in bounded time.

A received byte travels from an interrupt through `Write2dev` into a FIFO
(polled by a parser in the main loop) or into `sky_receivePact` (which leaves a
complete frame for the main loop to find). Boards answer frames; a caller on the
other side waits for the answer by polling the same structure.

## 2. Modules

| Module | Models | Correspondence |
|---|---|---|
| `BoundedQueue` | what a FIFO promises | abstract; a transfer is settled when it starts and takes effect when it ends |
| `LossyStream` | what a path that may lose bytes still promises | abstract; bytes go in, come out or are lost, and one that came out leaves none behind that is older |
| `MyFIFO` | `myFIFO.c` | one action per access to shared data: reading the counters, each byte copied, the counter's advance |
| `ReceivePact` | `sky_receivePact`, `sky_GetMeasureTime_ms`, and how main loops take and release frames | `Arrive` is one receive interrupt; `Take`, `Release`, `Discard` are the main loop's accesses to `saveFlag` |
| `FrameLink` | `sky_sendData`, `sky_send2Data`, `sky_sendNData`, `sky_sendStrNData`, `sky_recOffsetType` | one action per `devWrite`, which may fail; the line delivers byte by byte into the receiver of `ReceivePact`, which it extends |
| `CmdLink` | `sky_runCmdPact`, `sky_runCmdType`, `sky_recSetVirType`, `sky_recSetVirTypePN`, `sky_runNFun`, `sky_runOffsetCMD`, `sky_waitData`, `sky_waitNData` | one action per turn of a loop of the caller; `answer[n]` is receiver n with `saveFlag` 3, or `None`; nodes and lines are actions of their own |
| `Flash` | page erasure, half-word programming and the PGERR bit, as `stm32f10x_flash.c` drives them | used by the next two |
| `StmFlash` | `STMFLASH_Write` and `STMFLASH_Write_NoCheck` | one action per look at a sector, per half-word programmed and per end of the loop's body |
| `Iap` | the boot loader and the host that updates it | board actions are turns of the main loop cut at every flash operation; the host follows `sky_runCmdPact`; frames are lost, calls time out, power fails |
| `SysTick` | the tasks of `SysTick_Handler` and `Sys_CreateTask` | a tick is one action, the task it runs included; `Sys_CreateTask` is cut at each assignment. What runs counts as calm only while no creation interferes |
| `StringCmd` | `P_StringCmdReadCMD` over its FIFO | one action per byte received and per byte read; bytes carry the line they belong to as history |
| `HexCmd` | `P_HexCmdReadCMD`, rows of length, pattern and mask | a call reads what is unread byte by byte; a row is a sequence of sets of accepted bytes |
| `CanFilter` | `P_CAN_SetNodeByBus`, `BSP_CAN1AddFilter`, the comparison in `P_CAN_IRQHandler` | an identifier is the set of its bit groups that agree with the node's own |
| `CanLink` | `P_CAN_AddNode`, `S_CAN_write`, `CAN1SendMsg`, `P_CAN_IRQHandler` | `P_CAN_AddNode` is cut after the link, after the end and after the filter; mailboxes, bus and receive FIFO are external |
| `CanBus` | `Bus.c`: `CANBus_AddRxMdl` and its interrupt | cut at the filter's activation and at each assignment of the entry, in their order; a frame carries its filter match index while it waits |
| `NfcBridge` | both boards' `main.c` | thread, interrupt and main loop of each board are actions; the air between them may lose anything |
| `UsbCom` | `EP1_IN_Callback`, `SOF_Callback`, `CTR_LP`, `USBComWrite` | the callback is cut at each byte it copies into the packet memory, at `SetEPTxCount` and at `SetEPTxValid`; the host asks, gets each byte and acknowledges in steps of its own |
| `W25Qxx` | `skySoft_W25QXX_Write` and what it calls | one action per command to the chip, which goes on alone when the processor is reset |
| `Ca310` | `COMRunCommond` and the CA-310 functions as scripts of commands | send, wait, expire and read are actions; the instrument may be late, refuse, lose, be restarted |
| `Lemmas` | facts about remainders, powers of two, least elements and sequences put one after the other, for the proofs | no code |
| `MyFIFO_proofs`, `Iap_proofs`, `CmdLink_proofs` | proofs about the module they are named for | |
| `Frame_proofs` | proofs about `ReceivePact` and `FrameLink` | |
| `Serial_proofs` | proofs about `NfcBridge`, `UsbCom`, `HexCmd`, `StringCmd` and `Ca310` | |
| `Devices_proofs` | proofs about `SysTick`, `StmFlash`, `W25Qxx`, `CanBus`, `CanFilter` and `CanLink` | |
| `Board_proofs` | what holds of each part holds of the board of `MCBoard` | |
| `MCMyFIFO`, `MCReceivePact`, `MCFrameLink`, `MCIap` | constants for TLC | |
| `MCBoard` | the parts from `SysTick` on, and `StmFlash`, in one run | `part` says which of them runs; the others stay as they were set up |

The parts in `MCBoard` are on different boards, or share nothing but the
processor; a product of their states would say no more than their sum. The
variable `part` is chosen at the start and never changes, so that TLC explores
the sum. What they do share with each other, the FIFO and the frame receiver,
they take by what `MyFIFO` and `ReceivePact` are shown to promise.

`MyFIFO` is shown to implement `BoundedQueue` (the property `ImplementsQueue`):
the queue is the part of the buffer between the counters. `NfcBridge` implements
`LossyStream` once in each direction (`CarriesStreams`) and `UsbCom` towards the host
(`SendsStream`); the run `board` checks both (`PortsAreStreams`). What waits are the
bytes in the FIFOs, in the thread's buffer, on the air or in the endpoint.

The USB port promises less than the bridge. Nothing stops the frame's callback from
putting a packet over one the host has not fetched, and as the interrupt handles a
frame before a transfer, the transfer's callback may do so as well. While
the callback copies, the endpoint may still be valid, and the host then gets a packet torn
from two, with the length of either, or gets one that `SetEPTxValid` offers once more. The
bytes of both packets are `exposed` from the moment such a callback begins. What the host
gets without any of them is `fetched`, and is in order and complete; what holds any of
them is `mixed`, and may repeat a byte once (`HostGetsTheRest`). For the stream an exposed
byte is lost, whether the host gets to see it or not. An access to an endpoint register is
one step, though `SetEPTxValid` reads the register and writes it back. Frames load
nothing before the device is configured (`Configure` is
`Virtual_Com_Port_SetConfiguration`). A bus reset, suspend and a configuration taken
back are not modelled.

`HostGetsTheRest` and `InOrderOnce` compare the bytes of one state; the streams say in
addition that a byte that was lost does not come back. `InOrderOnce` is proved only. `FrameLink` composes
the senders with `ReceivePact`. `CmdLink` and `Iap` sit above them and take
frames as whole; of how the nodes of a group call are wired the code says nothing, so
the frame written to the first node's driver may be on its way to that node or, on a
shared line, to all. What `CmdLink` and `Iap` rely on (a frame arrives as it was sent or not at
all, a receiver that holds a frame drops the others) is what `FrameLink` and
`ReceivePact` show.

Operators whose comment begins with "Mutant of" are deliberate errors in the
code: substituted for the definition they name, each must make TLC report the
property it is paired with in `PROJECT.json`. No action uses them.

Variables marked *history* are read by properties and by no guard: what has been
heard since the last silence, whether an update has met a fault that can spoil
it, which calls a node has carried out.

The host of `Iap` sends what the library's caller would. The flash behind the application
holds arbitrary data (`Behind`): some share the image's last page and are erased with it,
and as the erase command is computed from the length plus four, it may take one page
more (`iapSoftware.c:40`, `stmflash.c:128`). In the instance it does, and
`OnlyTheImageArea` says that this is all: the boot loader and everything behind
`ErasedPages` stay as they were. `EnteredBoardStays` is about the race of the boot
time-out with the entry command: once the host holds the answer, no application is started
until the next reset. It has to end there. After a power failure in mid-update the board
boots anew, and if the stack pointer of the partial image is written, `LoadApp` starts it.

`iap_Init` calls `sky_ConmmunicationInit` with six arguments and sets `getTime`
itself: it was written for an older revision of the library. It is modelled
with the library as it stands in `skySoftware/`, which has seven.

## 3. Runs

Numbers are distinct states.

| Run | Instance | What it shows |
|---|---|---|
| `fifo` | 4 slots, counters modulo 8, two byte values, transfers of up to 3 (228 702) | all interleavings of one writer and one reader; the counters wrap every second time round, and the buffer is full and empty at each of their values. The code's sizes are powers of two that divide 2^32, as 4 divides 8 |
| `receive` | bytes of 2 bits, buffer of 11, time-out 1 ms, clock modulo 4 (1 055 668) | any bytes with any pauses. All bytes can be start, end, command, length or checksum; a frame with a payload of one byte fits and longer announced lengths are refused; the clock wraps at every fourth ms, so inside each pause sooner or later |
| `receive_wrap` | time-out 2, clock modulo 6 | finds the pause measured one short |
| `framelink` | 2-bit bytes, buffer of 16, payloads of 0, 2 or 4 bytes made of the start and end characters, two calls (3 136 188) | every sender, cut off at each byte, with any silences, and a second frame behind it |
| `framelink_type` | as above, type 3, one call | finds the frame whose length counts data that are not sent |
| `cmdlink` | two nodes, two codes, two calls of any of the five kinds, nodes on lines of their own or on one (2 031 512) | one earlier call is what it takes to leave late answers, foreign frames and unanswered nodes behind; two nodes make the group call's set, its order and its partial failures |
| `cmdlink_success` | one node, one code, two calls | finds the late answer taken for the second call's |
| `iap` | 5 pages of 2 half-words, a boot loader of one page, an image of 3 half-words (so it ends inside a page) sent in chunks of 2 and 1, data in the image's last page, in the page more that is erased and in one behind it, 7 commands, 1 power failure (3 859 459) | a full update takes 5 commands; 7 leave room for two that are sent again, or for an update that is given up and one that follows |
| `iap_success` | 6 commands, no power failure | finds the write that is answered as done and was not |
| `board` | one part at a time (986 224), see below | the parts of `MCBoard` |
| `can_filter` | all addresses and settings of one node, all frames (as the groups that agree) | finds the frame that matches a node and is kept out by the controller |
| `stmflash_span` | sectors of 2 | finds the wrong address in the second sector |

The instance of `board`, part by part:

- *tick* (198 221): 3 tasks with periods 0 (none) and 1, created in any order while the tick
  runs; the counts of the history are cut off at 8, the bound of 2^2 (1 + 1) ticks
  that the third task has to meet.
- *string* (42 476): 2 letters, a buffer of 3, a FIFO of 2, lines of up to 3 letters: one more
  than fits, so lines wrap, lose bytes in the FIFO and fill the buffer exactly.
- *hex* (8 219): 4 byte values, a buffer of 6 and three rows of which one begins again
  inside another and two can end at the same byte.
- *filter* (2 096): every combination of settings, all frames.
- *can* (152 105): 2 nodes, each added up to twice, 2 filters, 2 writes of 3 or 4 bytes in pieces
  of 2: pieces of full and of odd length, mailboxes and FIFO (3 each) at their limits.
- *bus* (126 945): 2 addresses for each side or none, 2 banks, 4 frames: requests that overlap,
  repeat and find no bank, and a FIFO of 3 that overflows. The proof covers the rest.
- *nfc* (79 652): FIFOs of 2, exchanges of 1 byte, 3 bytes each way, 2 failures.
- *usb* (180 646): a FIFO of 4, packets of 2, a load every third frame, 6 bytes: three packets,
  so that one is put over another that was itself put over the first, each torn at either byte,
  and an odd length cuts one short.
- *w25* (131 248): 2 sectors of 4 cells, pages of 2, writes of 3 cells at any place; each write
  crosses a page and some a sector; resets at any step.
- *ca310* (36 776): 2 probes, 2 tries, 2 calls of any function in any mode, 1 fault.
- *stm* (27 840): 2 sectors of 3 half-words, any contents, data and address, lengths 1 to 3.

Bounds are constants: `MaxCalls`, `MaxSends`, `MaxCuts`, `MaxLen`, `MaxNum`. The
clock, the counters and the bytes have their width as a constant (`ClockW`,
`Wrap`, `B`). `CHECK_DEADLOCK` is off where a bound lets the model stop (no
calls, commands or flash writes are left); the FIFO and the receiver are checked
for deadlock.

### Fairness

- `MyFIFO`: `WF_vars(Read)`. The reader is the main loop, which polls for ever;
  nothing is assumed of the writer, an interrupt that may never come again.
- `CmdLink`: `WF_vars(Caller)`, as the caller runs its loops without blocking, and
  `WF_vars(Tick)`, as the millisecond counter is driven by its own interrupt.
  Nothing is assumed of nodes or lines: `EveryCallReturns` holds with all of
  them dead.

- `MCBoard` (`BoardFairness`), for the part that runs. NFC: `Connect` (two chips in the
  field find each other; failures are bounded by `MaxFails`, and nothing can be
  promised to boards that are torn apart for ever), `Unheard` (the exchange's
  time-out), and each board's `Exchange` and `SerialOut`, a thread and a main loop
  that never end. USB: `Configure` and `SOF_Callback`, as the host configures the
  device and sends a frame each millisecond, and `Load`, as the interrupt goes on to its
  end; nothing is assumed of its reads. CA-310: `CaHost`, the program's own steps and its
  time-outs, and `Obeys` and `Answers310`, as what is on the line arrives at some
  time; the instrument may still refuse or lose each command.

### Findings

1. `communication.c:60` (`receive_wrap`): the time across a wrap of the clock is
   one short, so a pause of 51 ms there is no time-out. `SysTick.c:113` has the
   same expression.
2. `iapSoftware.c:115` (`iap_success`): a write that is sent twice sets PGERR;
   later writes change nothing and are answered with the success bit.
3. `stmflash.c:83` (`stmflash_span`): a byte address is advanced by a number of
   half-words, and the data of the next sector land half-way back.
4. `communication.c:181` (`cmdlink_success`): an answer that comes after its call
   has timed out makes the next call of the same code return success.
   `PatientCallsAreExact` says what a caller may rely on: success is exact as
   long as no call gave up on a frame that was still on its way.
5. `communication.c:447` (`framelink_type`): `type & 1` decides on the announced
   length and `type == 1` on the data; `sky_runCmdType` with type 3 sends a frame
   nobody can receive. `sky_runOffsetCMD` masks its type and is not affected.

6. `bsp_CAN.c:114` (`can_filter`): the mask is loaded shifted by three bits to the left
   of the identifier, so the controller keeps out frames that match; under
   `AlignedSettings` nodes hear what they should (`WantedIsHeard`).

## 4. Proofs

All are of the specification of the module they are about, for every value of the
constants its `ASSUME` admits, and are checked by TLAPS. Run them with
`tlapm <module>.tla`; `Serial_proofs`, `Devices_proofs` and
`Frame_proofs` take some minutes.

**`MyFIFO_proofs`** (`FifoAssumption`: the size is a power of two, as
`myFIFOInit` demands, and divides the counters' range, which is larger). `TypeCorrect`,
`SidesAgree` (`Inv`), `NothingOverwritten` (`UnreadKept`) and `FifoIsAQueue`
(`ImplementsQueue`). `Inv` is inductive with `TypeOK`: it says how
many slots are used, that a write in progress has copied a prefix of its bytes
into free slots and that a read in progress has copied a prefix of used ones.
The arithmetic, which slot a counter stands for before and after it wraps, is
in `Lemmas`: neighbours within the size have different remainders, and
the remainder modulo the size survives the reduction modulo the range.
`FifoIsAQueue` adds that the unread bytes are the queue: the end of a write puts its
bytes behind them, the end of a read takes the ones it returns from their front,
and every other step of `MyFIFO` leaves the queue alone.

**`Frame_proofs`**, in two parts.

*`ReceivePact`* (`ReceiveAssumption`: a buffer of at least 10 bytes, a
clock range beyond the time-out plus two, pauses shorter than that range).
`TypeCorrect`, `FramesAreFrames` (`AcceptedIsWellFormed`), `Resynchronizes`
(`GoodFrameAccepted`), `FrameIsStable` (`FrameStable`) and `SilencesRestart`
(`SilenceRestarts`), which the run `receive_wrap` refutes: the theorem says that the
finding is the only exception, as it assumes nothing but that no pause is
exactly one more than the time-out (`Timeout + 1 \notin Gaps`). The inductive invariant
is `IInv`: `TypeOK`, `Progress` (what the buffer holds in each state of the
reception), `AcceptedIsWellFormed`, `HeldIsComplete`, and `CleanInv`, which ties
the history to the buffer: while it is worth comparing, what was heard is what
the buffer holds, and the reception has not given it up unless it is complete
and no frame. `GoodFrameAccepted` alone is not inductive, as it says nothing of
frames that are half received. `ByteXor` is arbitrary: no property of it is used.

*`FrameLink`* (`FrameLinkAssumption`: `ByteXor` of two bytes is a byte, four bytes can
hold the length of the buffer, and the payloads fit in the buffer, as longer frames are
refused by its header check). `FramesArrive` (`SentIsReceived`) and
`CutOffsAreDropped` (`CutOffIsNotReceived`), both under `PlainTypes`: a type whose
lowest bit is set is 1. Without that they are false, which is what the run
`framelink_type` shows. The inductive invariant is `LinkInv`: the receiver's
`TypeOK`, `Progress` and `AcceptedIsWellFormed`; `LengthKept`, that `dataLen` is still
the length field of a finished frame; `SendInv`; and `HeardInv`. `SendInv` says that what
a call has written and what it has still to write are the frame of its command
and data, and that a call that failed has written the beginning of a frame
and lacks its end (`Lacks`). So what has been written always begins a frame, and
`HeardInv` can say that the receiver has not given up: what was heard is what the
buffer holds, begins a frame (`Begun`), and `saveFlag` is not 0. `IInv` would not do,
as its history also follows strings that turn out to be no frame.
That the receiver computes the sender's checksum from other bytes behind the frame
needs the recursion of `Checksum` unfolded: a table of all values up to a byte (`Sums`)
exists, as the least byte without one has one, and two tables over the same bytes
agree, as there is no least byte at which they do not. `FrameMade` puts the header,
the data, the checksum and the end together, and `Bytes4Hold` the four bytes of
the length.

**`Iap_proofs`** (`IapAssumption`: the application begins at a page boundary and
fits the flash). `TypeCorrect`, `BootLoaderSafe` (`OnlyTheImageArea`),
`LocksOnlyNewBoards` (`LocksOnlyWhenNew`), `CleanUpdatesInstall`
(`CleanUpdateInstalls`) and `EnteredStays` (`EnteredBoardStays`). `Bounded`
strengthens the types: each
command on the way or in hand lies inside the image, and a host that is not at
the end of an update has its next half-word inside it. `BootLoaderSafe` then
needs that a page from the image's first on holds no half-word below the image
(`PagesBelow`, where the page boundary is used), and that every erase command has the
image's length, so that its pages are `ErasedPages`. `Young` says that until the
cipher is whole a board has answered nothing and its flash is untouched.
For `CleanUpdatesInstall`, `UpdateInv` says where an undisturbed update stands: there is
exactly one command, on its way, in the board's hand, or answered (`OneCommand`),
and each phase has left the flash as the next one needs it (`Stages`): what is
erased of the image's area, and that the half-words before the host's next one
are the image's. It begins afresh with each update, whatever earlier ones left
behind, and is silent as soon as `clean` is lost. For
`EnteredStays`, `EntryInv`: in an update that began with quiet lines, an answer to the
entry, in the host's hand or on its way, is of this very entry, so that it implies
`iapFlag` until the next reset; and `LoadApp` needs `iapFlag` to be off.

**`CmdLink_proofs`** (`LinkAssumption`: some number of nodes and of calls).
`TypeCorrect`, `AnswersStay` (`CountedStays`), `CopiesAreExact` (`CopiesAreAnswers`)
and `PatientCallers` (`PatientCallsAreExact`). `DoneInv` says that each answer on
the way or held that claims success has been carried out; `StageInv` which stages
of a call have counted anything, `CopyInv` what has been copied so far. `OwnInv`
is the heart of the last: as long as no call gave up on a frame on its way, every
frame on any line belongs to the call in progress. It does not hold of the flags
the call has not cleared yet, hence `Cleared`, and is not inductive without
`StageInv`.

**`Devices_proofs`**, in six parts.

*`SysTick`* (`TickAssumption`): `TickTypeCorrect`, `CallsAreSafe`
(`OnlyCallsFunctions`), `NoTaskIsEarly` (`NeverTooSoon`) and `StretchIsBounded`
(`StretchBounded`). `CreateInv` says what
each assignment of `Sys_CreateTask` has established, `FunctionInv` that a period is
never there without a function, and `CounterInv` that what is left on a counter
and what has passed make up the period, except for the task being created.
`StretchInv` measures how a running task holds up those behind it. It gives
each task a count `w[t]` of the ticks since the loop last got to it. In each of
those some task before it ran, so `w[t]` stays below `Span(t)`, which doubles from one
task to the next, and each unit of the period is paid for with at most `Span(t)`
ticks (`Budget`).

*`StmFlash`* (`StmFlashAssumption`: the flash has whole pages):
`WritesAreExact` (`OneSectorExact`). `PlaceInv` ties the cursor to the call's
arguments, `DirectInv` and `PatchInv` say how far the flash has come on either
way, and `PageIs`, `PageFits` that a page is an interval inside the flash.

*`W25Qxx`* (`W25Assumption`): `ChipWritesAreExact` (`W25WritesExact`), over any number
of pages and sectors. `ChipInv`, `LoopInv` and `JobInv` keep the types and the
cursors inside the chip. The rest is about a call that found the chip idle and was
not cut off (`CalmInv`): `Target` is what a cell is to be when the call has written
what lies before a place, and `Soon` what it will be when the chip has finished what
it is busy with. `AskedInv` ties the cursor to the arguments, `RestInv` says that the
sectors behind are done and those ahead untouched, `MergeInv` that the buffer of an
erased sector holds its old cells with the new ones put in, and `ProgramInv` that
what a page program still has to write is erased.

*`CanBus`* (`CanBusAssumption`: any number of banks and any addresses):
`BusTypeCorrect`, `CallsAreWhole` (`HandlersAreWhole`) and `FramesFindTheirModule`
(`FirstAskerGetsIt`). `EntryInv` says which fields of each entry are written, so
that an entry with a flag has its handler; `UnusedInv` that entries are used in
order, which makes the first free entry the bank behind the last and the match
index the entry's; `FifoInv` that the index of a frame that waits is still the
first match, as banks are only added behind it.

*`CanFilter`*: `AlignedNodesHear` (`WantedIsHeard`), over every combination of
settings.

*`CanLink`* (`CanAssumption`: any number of nodes, filters and writes, pieces of any length):
`CanTypeCorrect`, `ListStaysWhole` (`ListIsWhole`) and `NodesGetTheWrites`
(`PiecesArrive`). The nodes that the interrupt meets are the least set that
holds the first node and what follows each (`ListedClosed`, `ListedLeast`). That
turns reachability, an induction along the list, into a choice of the right set,
so that the proof is not bounded by the list's length: `EndInv` says what the end
of the list is between the assignments of `P_CAN_AddNode`, and `OnceInv` what adding a
node once means. `TrafficInv` is about each node's stream: what it got, then what
waits in the receive FIFO, then what is in the mailboxes. It is sorted by write
and place and lies before what is still to be sent (`OrderInv`); if nothing was
lost, there is no gap in it either (`Chain`, `Reaches`).

**`Serial_proofs`**, in five parts.

*`NfcBridge`* (`NfcAssumption`: FIFOs and frames of any length): `NfcTypeCorrect`,
`BytesInOrderOnce` (`InOrderOnce`) and `FailuresCostOneFrame` (`LossIsBounded`).
`Turns` says that one board at most has something to send; `InOrder` that what left
one port, what waits in its board, what is in the air, and what waits in the other
board rise, in this order (`Pipe`). `Paid` weighs losses against failures. A
failed exchange that the other board has not noticed has not lost its frame yet,
which is what `Owed` adds; without it the bound is not inductive. `BridgeIsLossyStream`
(`CarriesStreams`) follows from the same invariant: for each board, every step brings a
byte (`StreamGives`), puts out what waits in the other board's FIFO (`StreamPutsOut`), or
adds nothing to what is on the way (`StreamLoses`); that the FIFO's bytes are older than
all others on the way is `InOrder`, by `RisesAcross`.

*`UsbCom`* (`UsbAssumption`): `UsbTypeCorrect` (`UsbTypeOK`), `HostMissesReplacedOnly`
(`HostGetsTheRest`) and `UsbIsLossyStream` (`SendsStream`). `UsbInv` follows a packet that
is on offer through the host's steps and the callback's. `Passed` counts the bytes that
have left the FIFO, and `InTurn` says which of them the FIFO, the callback and the packet
memory hold; `Legible` are those the host may read. A packet on offer is the last that
left the FIFO, whole and behind all the host has got (`AsRead`), or everything legible is
exposed (`Overwritten`). `Once` and `Twice` count what the host got of the exposed bytes:
one that is still legible came once at most, and so none comes a third time
(`NeverThrice`, with `Places`: no byte is at two places of packets). For the stream, a
write gives bytes, a callback exposes some or none, an acknowledgement delivers the packet
or nothing, and every other step is a stutter.

*`HexCmd`* (`HexAssumption`: any rows that fit in the buffer): `HexTypeCorrect` and
`CommandsAreFound` (`ReportsAreExact`). `BufferInv` says that the buffer is the end of
what has come since the last report or wrap, and that no row is found in it.

*`StringCmd`* (`StrAssumption`): `StrTypeCorrect` and `CommandsEndTheirLines`
(`CommandIsLinesEnd`). `StrInv` lays the FIFO and the command buffer beside the lines
they came from: `Follows` says that there is a place in its line for each byte
(`at`), that the places of a line rise, and that they are consecutive when nothing
of the line was dropped.

*`Ca310`* (`CaAssumption`: any set of probes): `CaTypeCorrect`, `FlagIsTrue`
(`FlagTellsTruth`) and `CallsAreExact` (`CallIsExact`). The types need that `Ordered`
lists the probes of a set (`ProbesInOrder`): the `k`th is the least one with `k` probes up
to it. `ScriptInv` says that what is left of a script is the
end of its function's, and `ReadingInv` how many readings that leaves. `OneInv` and
`ManyInv` are what may be on a line that was quiet when the call began: the command,
or nothing, or its one answer; and of a measurement the command, or all readings
in the probes' order, or too few of them, or refusals only. `TakenInv` and `SendInv`
carry this from one step of the script to the next, `EffectInv` says what the
commands answered so far have done to the instrument, `FlagInv` is `FlagTellsTruth`
with the moment between `OPR`'s answer and the flag's assignment, and `ExactInv`
what follows for a call that succeeds.

**`Board_proofs`**. `BoardIsItsParts`: each step of `MCBoard` is a step of one part and
leaves the others alone, so its behaviours are behaviours of every part.
`BoardTypeCorrect` (`BoardTypeOK`) and `BoardIsSafe` (all other safety properties of the
run `board`, `PortsAreStreams` among them) follow from the parts' theorems.

`Lemmas` holds what these share: remainders, powers of two, sequences put one after the
other, parts of sequences, least elements. Where a statement about
all numbers is needed, its counterexamples are a set of numbers, and that set has a
least element; where one about all finite sets is needed, it follows from the
number of their elements or subsets. So no induction over data is
used that the provers could not do.

Model-checked only:

- `ReaderProgress`, `EveryCallReturns`, `EverythingIsSent`, `FifoDrains` and
  `EveryCaCallReturns`: liveness under fairness is out of the prover's reach.

## 5. Not modelled, and why

By far the most lines of the repository (over 250 000 in 654 files) are vendored:
the vendor's peripheral libraries and register headers in a copy per board, the
NFC stack in three, the real-time kernel and the USB driver. They are other
projects' code and are modelled only as the modelled code uses them (`Flash`, the
CAN controller in `CanLink` and `CanBus`, the air in `NfcBridge`). What remains of
the framework's own code:

- `sky_extractData` copies out of a frame with an offset from that frame and trusts
  it. `P_StringCmdScan` splits a command with `vsscanf`: a matter of wording.
- `STMFLASH_Write_NO_ERASE` with an odd number of bytes (the last is dropped) and
  the controller's write protection; the address checks are guards that the
  modelled host always satisfies.
- Commands 0x44 to 0x46 and 0x61 of the boot loader, whose bodies are commented
  out: answered as done, like 0x01, and not sent by a host.
- `CANBus_SendMsg` waits for its one frame and has no caller with a source here;
  `EP3_OUT_Callback` passes one packet on to `Write2dev`, like any receive
  interrupt. Buses of both kinds at once on one `Bus.c`.
- The bus nodes' commands: plain branches on one measured value. Their loop's
  answer to a frame is `CmdLink`'s node.
- The CA-410, MSE and C32 functions: scripts without the state the CA-310's have.
  The numbers in the answers, and `sbuf`, which is one byte short for `OPR` with all
  five probes: what lies behind it is the compiler's choice.
- `skySoft_W25QXX_Erase_Chip`, power-down, addresses of four bytes, and the 24Cxx
  (page writes with a fixed wait).
- SD250x, whose locks are the chip's own and are documented nowhere in the
  repository; the other measuring chips: register access without state.
- Pin-level buses, the display, the motor board and `Public_SoftFunpack.c`: timing,
  register setup, or the calling convention of the compiler.

`PROJECT.json` lists the hazards that matter most. Some the code does not prevent, so that no
property can hold of them: a partial image that is started after a power failure or reset in
mid-update; sector buffers lost with the processor in both flash drivers, and a chip still
busy with the erasure then; a CAN piece that finds no mailbox; a task that runs at once when the tick
comes between its period and its counter; `PNumberFlag` after the instrument restarts or
`COMCA310_QueryPNumber` has chosen other probes. All but the internal flash's power failure
happen in the models, and the properties there say what is left: their premises (`unbroken`, `lossy`,
`calm25`, `making`, `unsure`) end where such a step is taken. Real ones that are left out
because no property here could tell them apart from what is listed: a driver bound
to both a parser and the frame receiver, answers of nodes that were replaced
between two calls, and addresses beyond 16 MB on a W25Q256.

## 6. Plan

Every safety property the runs check is proved. What could follow: the frames of
`CanLink` as input of `ReceivePact`, that is a frame of several pieces of which one is
lost, and the silence after it.
