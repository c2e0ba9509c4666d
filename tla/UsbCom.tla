------------------------------- MODULE UsbCom -------------------------------
(***************************************************************************)
(* board/USB/CONFIG/usb_endp.c, usb_istr.c and hw_config.c of the USB      *)
(* boards: the serial port they offer to a host.  USBComWrite only fills a *)
(* FIFO; the packets are made in the USB interrupt, by EP1_IN_Callback,    *)
(* when the host has fetched one (CTR_LP) and every sixth frame            *)
(* (SOF_Callback).  The callback copies the packet into the packet memory, *)
(* sets its length and makes the endpoint valid, one after the other, and  *)
(* the USB hardware serves the host between any two of these accesses: it  *)
(* notes the length when the host asks, reads the packet memory byte by    *)
(* byte, and takes the validity away when the host has acknowledged.       *)
(* A byte is its number.                                                   *)
(***************************************************************************)
EXTENDS Integers, Sequences

CONSTANTS
  UsbFifoLen,   \* what sendFIFO holds
  PacketLen,    \* 64
  FrameInterval,    \* VCOMPORT_IN_FRAME_INTERVAL
  UsbMaxBytes   \* bound: the bytes written

ASSUME UsbAssumption ==
  /\ UsbFifoLen \in Nat \ {0} /\ PacketLen \in Nat \ {0}
  /\ FrameInterval \in Nat /\ UsbMaxBytes \in Nat

VARIABLES
  sendFIFO,
  usbRx,        \* USB_Rx_Buffer: what EP1_IN_Callback has read, <<>> outside of it
  loaded,       \* its accesses to the endpoint so far
  configured,   \* bDeviceState is CONFIGURED
  frameCount,
  \* the endpoint
  pma,          \* its packet memory
  txCount,
  valid,        \* the host may fetch the packet
  pending,      \* CTR: a packet was fetched, and the interrupt has not seen it yet
  sending,      \* the length of the packet the host is fetching, 0 if none
  sent,         \* its bytes so far
  \* history
  accepted,     \* the bytes USBComWrite stored
  exposed,      \* the bytes of two packets of which one was put over the other
                \* before the host had fetched it
  fetched,      \* the other bytes the host has got
  mixed         \* what it has got of the exposed ones

callbackVars == <<sendFIFO, usbRx, exposed>>
hostVars == <<sending, sent, fetched, mixed>>

usbVars == <<callbackVars, loaded, configured, frameCount, pma, txCount, valid, pending,
             hostVars, accepted>>

UsbInit ==
  /\ sendFIFO = <<>> /\ usbRx = <<>> /\ loaded = 0 /\ configured = FALSE /\ frameCount = 0
  /\ pma = [i \in 1..PacketLen |-> 0] /\ txCount = 0 /\ valid = FALSE /\ pending = FALSE
  /\ sending = 0 /\ sent = <<>>
  /\ accepted = 0 /\ exposed = {} /\ fetched = <<>> /\ mixed = <<>>

-----------------------------------------------------------------------------

CallbackDone == usbRx = <<>>

\* myFIFOWrite keeps the first bytes of what does not fit.  The program does
\* not run while the interrupt does.
USBComWrite(len) ==
  LET room == UsbFifoLen - Len(sendFIFO)
      n == IF len < room THEN len ELSE room
  IN  /\ CallbackDone /\ accepted + n <= UsbMaxBytes
      /\ sendFIFO' = sendFIFO \o [i \in 1..n |-> accepted + i]
      /\ accepted' = accepted + n
      /\ UNCHANGED <<usbRx, exposed, loaded, configured, frameCount, pma, txCount, valid,
                     pending, hostVars>>

\* The bytes of the next packet.
PacketSize == IF PacketLen < Len(sendFIFO) THEN PacketLen ELSE Len(sendFIFO)

BytesOf(seq) == {seq[i] : i \in DOMAIN seq}

\* The packet in the endpoint, as long as it is the host's to fetch.
OnOffer == IF valid THEN {pma[i] : i \in 1..txCount} ELSE {}

\* Its call of myFIFORead; it does nothing more when there was nothing to read,
\* and goes on whether the packet in the endpoint is fetched or not.
EP1_IN_Callback ==
  /\ usbRx' = SubSeq(sendFIFO, 1, PacketSize)
  /\ sendFIFO' = SubSeq(sendFIFO, PacketSize + 1, Len(sendFIFO))
  /\ exposed' = IF valid /\ sendFIFO # <<>>
                THEN exposed \cup OnOffer \cup BytesOf(usbRx') ELSE exposed

UserToPMABufferCopy ==
  /\ loaded < Len(usbRx)
  /\ loaded' = loaded + 1
  /\ pma' = [pma EXCEPT ![loaded + 1] = usbRx[loaded + 1]]
  /\ UNCHANGED <<callbackVars, configured, frameCount, txCount, valid, pending, hostVars, accepted>>

\* Mutant of SetEPTxCount: the length of the last packet stays.
SetEPTxCountForgotten ==
  /\ ~CallbackDone /\ loaded = Len(usbRx)
  /\ loaded' = loaded + 1
  /\ UNCHANGED <<callbackVars, configured, frameCount, pma, txCount, valid, pending, hostVars,
                 accepted>>

SetEPTxCount ==
  /\ ~CallbackDone /\ loaded = Len(usbRx)
  /\ loaded' = loaded + 1
  /\ txCount' = Len(usbRx)
  /\ UNCHANGED <<callbackVars, configured, frameCount, pma, valid, pending, hostVars, accepted>>

SetEPTxValid ==
  /\ loaded > Len(usbRx)
  /\ loaded' = 0 /\ usbRx' = <<>>
  /\ valid' = TRUE
  /\ UNCHANGED <<sendFIFO, exposed, configured, frameCount, pma, txCount, pending, hostVars,
                 accepted>>

\* The rest of EP1_IN_Callback.
Load == UserToPMABufferCopy \/ SetEPTxCount \/ SetEPTxValid

\* Mutant of SOF_Callback: frames only count, a packet follows a fetched one.
SOF_CallbackIdle ==
  /\ CallbackDone /\ configured
  /\ frameCount' = IF frameCount = FrameInterval THEN 0 ELSE frameCount + 1
  /\ UNCHANGED <<callbackVars, loaded, configured, pma, txCount, valid, pending, hostVars, accepted>>

\* The interrupt, which handles a frame before a transfer that is complete, and
\* the two one after the other.
SOF_Callback ==
  /\ CallbackDone /\ configured
  /\ IF frameCount = FrameInterval
     THEN frameCount' = 0 /\ EP1_IN_Callback
     ELSE frameCount' = frameCount + 1 /\ UNCHANGED callbackVars
  /\ UNCHANGED <<loaded, configured, pma, txCount, valid, pending, hostVars, accepted>>

CTR_LP ==
  /\ CallbackDone /\ pending
  /\ pending' = FALSE
  /\ EP1_IN_Callback
  /\ UNCHANGED <<loaded, configured, frameCount, pma, txCount, valid, hostVars, accepted>>

\* The host has found its driver: Virtual_Com_Port_SetConfiguration.
Configure ==
  /\ ~configured /\ configured' = TRUE
  /\ UNCHANGED <<callbackVars, loaded, frameCount, pma, txCount, valid, pending, hostVars, accepted>>

-----------------------------------------------------------------------------

\* The host asks for the packet, ...
InToken ==
  /\ valid /\ sending = 0
  /\ sending' = txCount
  /\ UNCHANGED <<callbackVars, loaded, configured, frameCount, pma, txCount, valid, pending, sent,
                 fetched, mixed, accepted>>

\* ... gets a byte, ...
Transmit ==
  /\ Len(sent) < sending
  /\ sent' = Append(sent, pma[Len(sent) + 1])
  /\ UNCHANGED <<callbackVars, loaded, configured, frameCount, pma, txCount, valid, pending, sending,
                 fetched, mixed, accepted>>

\* ... and acknowledges the last.
HostAck ==
  /\ sending > 0 /\ Len(sent) = sending
  /\ sending' = 0 /\ sent' = <<>>
  /\ valid' = FALSE /\ pending' = TRUE
  /\ IF BytesOf(sent) \cap exposed = {}
     THEN fetched' = fetched \o sent /\ UNCHANGED mixed
     ELSE mixed' = mixed \o sent /\ UNCHANGED fetched
  /\ UNCHANGED <<callbackVars, loaded, configured, frameCount, pma, txCount, accepted>>

UsbNext ==
  \/ \E len \in 1..UsbFifoLen : USBComWrite(len)
  \/ SOF_Callback \/ CTR_LP \/ Load \/ Configure
  \/ InToken \/ Transmit \/ HostAck

UsbSpec == UsbInit /\ [][UsbNext]_usbVars

\* The host configures the device and keeps sending frames, and the interrupt
\* runs to its end.
UsbFairSpec ==
  UsbSpec /\ WF_usbVars(Configure) /\ WF_usbVars(SOF_Callback) /\ WF_usbVars(Load)

-----------------------------------------------------------------------------

\* The bytes the host will still get but for a callback that comes too soon.
Waiting == (BytesOf(sendFIFO) \cup BytesOf(usbRx) \cup OnOffer) \ exposed

UsbTypeOK ==
  /\ Len(sendFIFO) <= UsbFifoLen /\ Len(usbRx) <= PacketLen
  /\ loaded \in 0 .. Len(usbRx) + 1 /\ frameCount \in 0..FrameInterval
  /\ txCount \in 0..PacketLen /\ sending \in 0..PacketLen /\ Len(sent) <= sending
  /\ accepted \in 0..UsbMaxBytes

\* usb_endp.c:58-92, 120-133, usb_istr.c:84-106: as long as no callback begins
\* while a packet is on offer, the host gets every byte, in order and once; the
\* only bytes it may miss, or get torn from their packets, are those of the packet on
\* offer and the one put over it, and even of them none comes more than twice.
HostGetsTheRest ==
  /\ \A i, j \in DOMAIN fetched : i < j => fetched[i] < fetched[j]
  /\ BytesOf(fetched) \cup Waiting = 1..accepted \ exposed
  /\ BytesOf(mixed) \subseteq exposed
  /\ \A i, j, k \in DOMAIN mixed :
       i < j /\ j < k => ~(mixed[i] = mixed[j] /\ mixed[j] = mixed[k])

\* usb_endp.c:124: USBComWrite starts nothing, and yet whatever it stores leaves
\* the FIFO, also when no packet was on its way.
FifoDrains == sendFIFO # <<>> ~> sendFIFO = <<>>

ToHost == INSTANCE LossyStream
  WITH given <- accepted, out <- fetched, waiting <- Waiting

\* usb_endp.c:58-92: but for the bytes of packets put over unfetched ones, the
\* serial port is a lossy stream to the host: a byte that was exposed to such
\* a callback counts as lost, and no other comes out late, twice or out of turn.
SendsStream == ToHost!Spec
=============================================================================
