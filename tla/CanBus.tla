------------------------------- MODULE CanBus -------------------------------
(***************************************************************************)
(* bsp/f103_SD250/board/Bus.c: the older CAN layer, which has one filter   *)
(* bank per receiving module and lets the controller's filter match index  *)
(* find the module's handler.                                              *)
(*                                                                         *)
(* CANBus_AddRxMdl loads the bank first and writes sg_bus_filter after it, *)
(* in the order of its lines, while the receive interrupt may already look *)
(* there.  Destination and source stand for the type and the id the masks  *)
(* cover together, on a bus of one kind: the two kinds differ only in how  *)
(* wide these are.                                                         *)
(***************************************************************************)
EXTENDS Integers, Sequences

CONSTANTS
  BusAddr,      \* the types and ids of nodes
  AnyAddr,      \* in a request: not filtered
  MaxBanks,     \* BUS_MAX_FILTER
  MaxFrames     \* bound: the frames on the bus

ASSUME CanBusAssumption ==
  AnyAddr \notin BusAddr /\ MaxBanks \in Nat /\ MaxFrames \in Nat

BusRequest == [dst : BusAddr \cup {AnyAddr}, src : BusAddr \cup {AnyAddr}]

BusEntry ==
  [handler : 0..MaxBanks, userData : 0..MaxBanks, dstOn : BOOLEAN, srcOn : BOOLEAN,
   asks : BusRequest]

BusMessage == [frame : BusAddr \X BusAddr, fmi : 1..MaxBanks, ready : SUBSET (1..MaxBanks)]

VARIABLES
  banks,        \* the controller's active banks, in their order: what each passes
  entries,      \* sg_bus_filter: handler and userData (the module's bank, or 0),
                \* the flags filt_dst and filt_src, and the addresses
  addStep,      \* where CANBus_AddRxMdl is, 0 when it is not running
  request,      \* what it was called with
  irqOn,        \* CAN_IT_FMP0 is enabled
  fifo0,        \* the frames in the controller's FIFO, each with its match index
                \* and, as history, the modules that were ready for it
  called,       \* history: what the last interrupt did
  framesSeen    \* history: the frames so far

busVars == <<banks, entries, addStep, request, irqOn, fifo0, called, framesSeen>>

Unused == [handler |-> 0, userData |-> 0, dstOn |-> FALSE, srcOn |-> FALSE,
           asks |-> [dst |-> AnyAddr, src |-> AnyAddr]]

NoCall == [frame |-> <<>>, calls |-> FALSE, handler |-> 0, userData |-> 0, ready |-> {}]

BusInit ==
  /\ banks = <<>> /\ entries = [k \in 1..MaxBanks |-> Unused]
  /\ addStep = 0 /\ request = Unused.asks /\ irqOn = FALSE
  /\ fifo0 = <<>> /\ called = NoCall /\ framesSeen = 0

\* Mutant of Passes: the source's part of the mask replaces the destination's.
PassesSource(r, d, s) == IF r.src = AnyAddr THEN r.dst \in {AnyAddr, d} ELSE r.src = s

\* The mask of a bank leaves out what is not filtered.
Passes(r, d, s) == r.dst \in {AnyAddr, d} /\ r.src \in {AnyAddr, s}

-----------------------------------------------------------------------------

\* An entry with these addresses in the way they are asked for is there already.
Repeated(r) ==
  \E k \in 1..MaxBanks :
    /\ entries[k].dstOn = (r.dst # AnyAddr) /\ entries[k].srcOn = (r.src # AnyAddr)
    /\ entries[k].asks = r

Free == {k \in 1..MaxBanks : ~entries[k].dstOn /\ ~entries[k].srcOn}

\* The call, up to CAN_FilterInit; it fails when nothing is filtered, when the
\* same was asked for before and when no bank is free.
CANBus_AddRxMdl(r) ==
  /\ addStep = 0 /\ r # Unused.asks /\ ~Repeated(r) /\ Free # {}
  /\ addStep' = 1 /\ request' = r
  /\ banks' = Append(banks, r)
  /\ called' = NoCall
  /\ UNCHANGED <<entries, irqOn, fifo0, framesSeen>>

\* The bank it works on.
Fmi == Len(banks)

\* Mutant of Written: the flags are written before the handler.
WrittenFlagsFirst(e) ==
  CASE addStep = 1 -> [e EXCEPT !.dstOn = (request.dst # AnyAddr)]
    [] addStep = 2 -> [e EXCEPT !.srcOn = (request.src # AnyAddr)]
    [] addStep = 3 -> [e EXCEPT !.handler = Fmi]
    [] addStep = 4 -> [e EXCEPT !.userData = Fmi]
    [] addStep = 5 -> [e EXCEPT !.asks = request]

Written(e) ==
  CASE addStep = 1 -> [e EXCEPT !.handler = Fmi]
    [] addStep = 2 -> [e EXCEPT !.userData = Fmi]
    [] addStep = 3 -> [e EXCEPT !.dstOn = (request.dst # AnyAddr)]
    [] addStep = 4 -> [e EXCEPT !.srcOn = (request.src # AnyAddr)]
    [] addStep = 5 -> [e EXCEPT !.asks = request]

\* The assignments after it, and the interrupt's enabling at the end.
AddRecord ==
  /\ addStep \in 1..5
  /\ entries' = [entries EXCEPT ![Fmi] = Written(@)]
  /\ addStep' = IF addStep = 5 THEN 0 ELSE addStep + 1
  /\ irqOn' = (irqOn \/ addStep = 5)
  /\ called' = NoCall
  /\ UNCHANGED <<banks, request, fifo0, framesSeen>>

-----------------------------------------------------------------------------

Matching(d, s) == {k \in DOMAIN banks : Passes(banks[k], d, s)}

\* With the controller's FIFO full, a frame replaces the last one there.
TakenIn(m) == IF Len(fifo0) < 3 THEN Append(fifo0, m) ELSE [fifo0 EXCEPT ![3] = m]

\* A frame passes the controller's filters, which give it the number of the
\* first bank that matches.
BusFrame(d, s) ==
  /\ framesSeen < MaxFrames /\ framesSeen' = framesSeen + 1
  /\ \/ Matching(d, s) = {} /\ fifo0' = fifo0
     \/ \E k \in Matching(d, s) :
          /\ \A j \in Matching(d, s) : k <= j
          /\ fifo0' = TakenIn([frame |-> <<d, s>>, fmi |-> k,
                              ready |-> {j \in DOMAIN banks : addStep = 0 \/ j < Fmi}])
  /\ called' = NoCall
  /\ UNCHANGED <<banks, entries, addStep, request, irqOn>>

\* USB_LP_CAN1_RX0_IRQHandler.
BusIRQHandler ==
  /\ irqOn /\ fifo0 # <<>>
  /\ LET m == Head(fifo0)
         e == entries[m.fmi]
     IN  called' = [frame |-> m.frame, calls |-> e.dstOn \/ e.srcOn, handler |-> e.handler,
                    userData |-> e.userData, ready |-> m.ready]
  /\ fifo0' = Tail(fifo0)
  /\ UNCHANGED <<banks, entries, addStep, request, irqOn, framesSeen>>

BusNext ==
  \/ \E r \in BusRequest : CANBus_AddRxMdl(r)
  \/ AddRecord
  \/ \E d, s \in BusAddr : BusFrame(d, s)
  \/ BusIRQHandler

BusSpec == BusInit /\ [][BusNext]_busVars

-----------------------------------------------------------------------------

\* No bank, entry or match index lies beyond the filters there are, and the
\* controller's FIFO holds no more than its three frames.
BusTypeOK ==
  /\ banks \in Seq(BusRequest) /\ Len(banks) <= MaxBanks
  /\ entries \in [1..MaxBanks -> BusEntry]
  /\ addStep \in 0..5 /\ request \in BusRequest /\ irqOn \in BOOLEAN
  /\ fifo0 \in Seq(BusMessage) /\ Len(fifo0) <= 3
  /\ framesSeen \in 0..MaxFrames

\* The modules whose request a frame meets, by what they asked for.
Askers(f) ==
  {k \in DOMAIN banks : LET r == IF k = Fmi /\ addStep # 0 THEN request ELSE entries[k].asks
                        IN  r.dst \in {AnyAddr, f[1]} /\ r.src \in {AnyAddr, f[2]}}

\* Bus.c:239-249, 318-326: wherever the interrupt comes in CANBus_AddRxMdl, the
\* handler it calls has been stored and gets the data of its own module.
HandlersAreWhole ==
  called.calls => called.handler \in DOMAIN banks /\ called.handler = called.userData

\* Bus.c:177-233, 320-324: a frame goes to the first of the modules that asked for
\* it and to no other, also when it waited in the FIFO while others were added;
\* it is ignored only when none of them was ready.
FirstAskerGetsIt ==
  called.frame # <<>> =>
    /\ called.calls => /\ called.handler \in Askers(called.frame)
                       /\ \A k \in Askers(called.frame) : called.handler <= k
    /\ ~called.calls => Askers(called.frame) \cap called.ready = {}
=============================================================================
