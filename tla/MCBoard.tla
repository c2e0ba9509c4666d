------------------------------ MODULE MCBoard ------------------------------
(***************************************************************************)
(* The parts of the boards that share no state, one at a time: part says   *)
(* which of them runs, and the others stay as they were set up.  What TLC  *)
(* explores is the sum of their behaviours, not the product.               *)
(***************************************************************************)
EXTENDS SysTick, StringCmd, HexCmd, CanFilter, CanLink, CanBus, NfcBridge, UsbCom,
        W25Qxx, Ca310, StmFlash

\* Rows of which one begins again inside another and two can be found at once.
MCRows == << <<{1}, {2, 3}, {1}>>, <<{3}, {0, 1, 2}>>, <<{2}, {2}>> >>

MCPatterns == {[b \in 1..ChipSize |-> b % 2]}

VARIABLE part

Parts == {"tick", "string", "hex", "filter", "can", "bus", "nfc", "usb", "w25", "ca310", "stm"}

boardVars ==
  <<part, tickVars, strVars, hexVars, filterVars, canVars, busVars, nfcVars, usbVars,
    w25Vars, caVars, vars>>

BoardInit ==
  /\ part \in Parts
  /\ TickInit /\ StrInit /\ HexInit /\ FilterInit /\ CanInit /\ BusInit /\ NfcInit
  /\ UsbInit /\ W25Init /\ CaInit /\ Init
  /\ part # "filter" => filt = [dst |-> 0, src |-> 0]
  /\ part # "stm" => flash = [a \in Addresses |-> Erased]

BoardNext ==
  /\ IF part = "tick"   THEN TickNext   ELSE UNCHANGED tickVars
  /\ IF part = "string" THEN StrNext    ELSE UNCHANGED strVars
  /\ IF part = "hex"    THEN HexNext    ELSE UNCHANGED hexVars
  /\ IF part = "filter" THEN FilterNext ELSE UNCHANGED filterVars
  /\ IF part = "can"    THEN CanNext    ELSE UNCHANGED canVars
  /\ IF part = "bus"    THEN BusNext    ELSE UNCHANGED busVars
  /\ IF part = "nfc"    THEN NfcNext    ELSE UNCHANGED nfcVars
  /\ IF part = "usb"    THEN UsbNext    ELSE UNCHANGED usbVars
  /\ IF part = "w25"    THEN W25Next    ELSE UNCHANGED w25Vars
  /\ IF part = "ca310"  THEN CaNext     ELSE UNCHANGED caVars
  /\ IF part = "stm"    THEN Next       ELSE UNCHANGED vars
  /\ UNCHANGED part

\* The fairness of NfcFairSpec, UsbFairSpec and CaFairSpec, for the part that runs.
BoardFairness ==
  /\ WF_nfcVars(part = "nfc" /\ Connect)
  /\ WF_nfcVars(part = "nfc" /\ Unheard)
  /\ \A b \in Boards :
       /\ WF_nfcVars(part = "nfc" /\ Exchange(b))
       /\ WF_nfcVars(part = "nfc" /\ SerialOut(b))
  /\ WF_usbVars(part = "usb" /\ Configure)
  /\ WF_usbVars(part = "usb" /\ SOF_Callback)
  /\ WF_usbVars(part = "usb" /\ Load)
  /\ WF_caVars(part = "ca310" /\ CaHost)
  /\ WF_caVars(part = "ca310" /\ Obeys)
  /\ WF_caVars(part = "ca310" /\ Answers310)

BoardSpec == BoardInit /\ [][BoardNext]_boardVars /\ BoardFairness

-----------------------------------------------------------------------------

\* The buffers, FIFOs and counters of the parts that have any stay within their
\* sizes: the command buffers leave room for a terminator, no FIFO and no packet
\* holds more than its length, and the tries and tasks stay in range.  (The filters'
\* settings are a finite set, and what the two flash chips hold is exact by
\* W25WritesExact and OneSectorExact.)
BoardTypeOK ==
  /\ TickTypeOK /\ StrTypeOK /\ HexTypeOK /\ CanTypeOK /\ BusTypeOK /\ NfcTypeOK
  /\ UsbTypeOK /\ CaTypeOK

\* main.c:60-85, 122-143 of the bridge and usb_endp.c:58-92: the bridge, in each
\* direction, and the USB serial port but for packets put over unfetched ones, are
\* lossy streams: bytes come out in order and none twice, and whatever fails,
\* however often the boards connect anew and wherever the host's fetch falls, a byte
\* that was lost does not come out later.
PortsAreStreams == CarriesStreams /\ SendsStream
=============================================================================
