---------------------------- MODULE Board_proofs ----------------------------
(***************************************************************************)
(* The board as a whole (MCBoard): it does nothing but what its parts do,  *)
(* so that whatever holds of each of them holds of it.                     *)
(***************************************************************************)
EXTENDS MCBoard, Devices_proofs, Serial_proofs

\* Every part of the board behaves as it does alone, or not at all.
THEOREM BoardIsItsParts ==
  BoardSpec =>
    /\ TickSpec /\ StrSpec /\ HexSpec /\ FilterSpec /\ CanSpec /\ BusSpec
    /\ NfcSpec /\ UsbSpec /\ W25Spec /\ CaSpec /\ Spec
<1>1. BoardInit =>
        /\ TickInit /\ StrInit /\ HexInit /\ FilterInit /\ CanInit /\ BusInit
        /\ NfcInit /\ UsbInit /\ W25Init /\ CaInit /\ Init
  BY DEF BoardInit
<1>2. [BoardNext]_boardVars =>
        /\ [TickNext]_tickVars /\ [StrNext]_strVars /\ [HexNext]_hexVars
        /\ [FilterNext]_filterVars /\ [CanNext]_canVars /\ [BusNext]_busVars
        /\ [NfcNext]_nfcVars /\ [UsbNext]_usbVars /\ [W25Next]_w25Vars
        /\ [CaNext]_caVars /\ [Next]_vars
  BY DEF BoardNext, boardVars
<1> QED
  BY <1>1, <1>2, PTL
     DEF BoardSpec, TickSpec, StrSpec, HexSpec, FilterSpec, CanSpec, BusSpec, NfcSpec, UsbSpec,
         W25Spec, CaSpec, Spec

\* The buffers, FIFOs and counters of all parts stay within their sizes.
THEOREM BoardTypeCorrect == BoardSpec => []BoardTypeOK
<1>1. TickTypeOK /\ StrTypeOK /\ HexTypeOK /\ CanTypeOK /\ BusTypeOK /\ NfcTypeOK /\ UsbTypeOK
        /\ CaTypeOK => BoardTypeOK
  BY DEF BoardTypeOK
<1> QED
  BY <1>1, BoardIsItsParts, TickTypeCorrect, StrTypeCorrect, HexTypeCorrect, CanTypeCorrect,
     BusTypeCorrect, NfcTypeCorrect, UsbTypeCorrect, CaTypeCorrect, PTL

\* Every other property of the board's run but the liveness ones holds for all values of
\* the constants, and the bridge's pipes are in order (InOrderOnce).
THEOREM BoardIsSafe ==
  BoardSpec =>
    /\ [](OnlyCallsFunctions /\ StretchBounded /\ CommandIsLinesEnd /\ ReportsAreExact)
    /\ [](WantedIsHeard /\ ListIsWhole /\ PiecesArrive /\ HandlersAreWhole /\ FirstAskerGetsIt)
    /\ [](InOrderOnce /\ LossIsBounded /\ HostGetsTheRest)
    /\ [](W25WritesExact /\ OneSectorExact /\ FlagTellsTruth /\ CallIsExact)
    /\ NeverTooSoon /\ PortsAreStreams
BY BoardIsItsParts, CallsAreSafe, StretchIsBounded, CommandsEndTheirLines, CommandsAreFound,
   AlignedNodesHear, ListStaysWhole, NodesGetTheWrites, CallsAreWhole, FramesFindTheirModule,
   BytesInOrderOnce, FailuresCostOneFrame, HostMissesReplacedOnly, ChipWritesAreExact,
   WritesAreExact, FlagIsTrue, CallsAreExact, NoTaskIsEarly, BridgeIsLossyStream,
   UsbIsLossyStream, PTL DEF PortsAreStreams
=============================================================================
