------------------------------ MODULE CanLink ------------------------------
(***************************************************************************)
(* skySoftware/src/Public_SoftCan.c over bsp_CAN.c: a node elsewhere on    *)
(* the bus sends frames with S_CAN_write, in pieces of eight bytes; on the *)
(* board here, P_CAN_IRQHandler hands each piece to the nodes of the       *)
(* adapter's list, to which the main loop may just be adding another.      *)
(*                                                                         *)
(* An interrupt takes one message off the controller and runs to its end;  *)
(* if it meets a list that goes round in a circle it never ends.  Every    *)
(* node of the list is one the sender's identifier matches (CanFilter is   *)
(* about which those are).                                                 *)
(***************************************************************************)
EXTENDS Integers, Sequences

CONSTANTS
  CanNodes,     \* the nodes of the board
  PieceLen,     \* 8
  WriteLens,    \* the lengths S_CAN_write is called with
  MaxWrites,    \* bound: its calls
  MaxFilters,   \* how many filters the controller has (28)
  MaxAdds       \* bound: the calls of P_CAN_AddNode

ASSUME CanAssumption ==
  /\ 0 \notin CanNodes
  /\ PieceLen \in Nat \ {0} /\ WriteLens \subseteq Nat \ {0}
  /\ MaxWrites \in Nat /\ MaxFilters \in Nat /\ MaxAdds \in Nat

VARIABLES
  \* the board's adapter and nodes
  srcNode, nextNode,    \* the list; 0 ends it
  filtered,     \* the nodes whose filter was loaded
  filterN,
  adding, addPc,        \* the node P_CAN_AddNode works on, and where it is
  adds,         \* how often it has been called for each node
  stuck,        \* an interrupt goes round a list without an end
  \* the sender and the two controllers
  write, from, left,    \* the number of the call of S_CAN_write, and what is left of it
  mailboxes,    \* the pieces that wait to be sent, in the order of their requests
  rxFifo,       \* the pieces the board's controller holds
  \* history
  got,          \* per node, the pieces its driver was given
  sizes,        \* the lengths S_CAN_write was called with
  lossy,        \* a piece was lost
  early         \* the nodes that were ready for the first piece

listVars == <<srcNode, nextNode, filtered, filterN, adding, addPc, adds>>
sendVars == <<write, from, left>>
trafficVars == <<sendVars, mailboxes, rxFifo, got, sizes, lossy, early>>
canVars == <<listVars, stuck, trafficVars>>

Piece == [write : 1..MaxWrites, from : Nat, len : 1..PieceLen]

Mailboxes == 3      \* of a controller
RxDepth == 3        \* messages its receive FIFO holds

CanInit ==
  /\ srcNode = 0 /\ nextNode = [n \in CanNodes |-> 0]
  /\ filtered = {} /\ filterN = 0
  /\ adding = 0 /\ addPc = "idle" /\ adds = [n \in CanNodes |-> 0]
  /\ stuck = FALSE
  /\ write = 0 /\ from = 0 /\ left = 0
  /\ mailboxes = <<>> /\ rxFifo = <<>>
  /\ got = [n \in CanNodes |-> <<>>] /\ sizes = <<>> /\ lossy = FALSE /\ early = {}

-----------------------------------------------------------------------------
(***************************************************************************)
(* P_CAN_AddNode.                                                          *)
(***************************************************************************)

\* The nodes a walk along the list meets.
Listed ==
  {n \in CanNodes : \A S \in SUBSET CanNodes :
     srcNode \in S \cup {0} /\ (\A m \in S : nextNode[m] \in S \cup {0}) => n \in S}

\* The list has an end: one of its nodes is the last.
Ends == srcNode = 0 \/ \E n \in Listed : nextNode[n] = 0

Append2List(n) ==
  /\ IF srcNode = 0 THEN srcNode' = n /\ UNCHANGED nextNode
     ELSE \E p \in Listed : /\ nextNode[p] = 0
                            /\ nextNode' = [nextNode EXCEPT ![p] = n]
                            /\ UNCHANGED srcNode

\* Mutant of AddLink: the node is put in front of the list it does not continue.
AddLinkFront(n) ==
  /\ addPc = "idle" /\ ~stuck /\ adds[n] < MaxAdds
  /\ srcNode' = n
  /\ adding' = n /\ addPc' = "end" /\ adds' = [adds EXCEPT ![n] = @ + 1]
  /\ UNCHANGED <<nextNode, filtered, filterN, stuck, trafficVars>>

\* The walk to the last node, and p->nextNode = node.
AddLink(n) ==
  /\ addPc = "idle" /\ ~stuck /\ adds[n] < MaxAdds
  /\ Append2List(n)
  /\ adding' = n /\ addPc' = "end" /\ adds' = [adds EXCEPT ![n] = @ + 1]
  /\ UNCHANGED <<filtered, filterN, stuck, trafficVars>>

\* node->nextNode = 0.
AddEnd ==
  /\ addPc = "end" /\ ~stuck
  /\ nextNode' = [nextNode EXCEPT ![adding] = 0]
  /\ addPc' = "filter"
  /\ UNCHANGED <<srcNode, filtered, filterN, adding, adds, stuck, trafficVars>>

\* P_CAN_AddFilter, whose failure P_CAN_AddNode does not look at.
AddFilter ==
  /\ addPc = "filter" /\ ~stuck
  /\ IF filterN < MaxFilters
     THEN filtered' = filtered \cup {adding} /\ filterN' = filterN + 1
     ELSE UNCHANGED <<filtered, filterN>>
  /\ adding' = 0 /\ addPc' = "idle"
  /\ UNCHANGED <<srcNode, nextNode, adds, stuck, trafficVars>>

-----------------------------------------------------------------------------
(***************************************************************************)
(* S_CAN_write and CAN1SendMsg on the other board, the bus, and the        *)
(* interrupt here.                                                         *)
(***************************************************************************)

CanWrite(len) ==
  /\ left = 0 /\ write < MaxWrites
  /\ write' = write + 1 /\ from' = 0 /\ left' = len
  /\ sizes' = Append(sizes, len)
  /\ early' = IF write = 0 THEN filtered ELSE early
  /\ UNCHANGED <<listVars, stuck, mailboxes, rxFifo, got, lossy>>

PieceSize == IF left >= PieceLen THEN PieceLen ELSE left

\* CAN1SendMsg: a piece that finds no mailbox is dropped; one that does is waited
\* for, but not for long: the next may be handed over while it is still there.
SendPiece ==
  /\ left > 0
  /\ IF Len(mailboxes) < Mailboxes
     THEN /\ mailboxes' = Append(mailboxes, [write |-> write, from |-> from, len |-> PieceSize])
          /\ UNCHANGED lossy
     ELSE UNCHANGED mailboxes /\ lossy' = TRUE
  /\ from' = from + PieceLen
  /\ left' = IF left >= PieceLen THEN left - PieceLen ELSE 0
  /\ UNCHANGED <<listVars, stuck, write, rxFifo, got, sizes, early>>

\* The receive FIFO is not locked: a message that finds it full replaces the last.
Received(m) ==
  IF Len(rxFifo) < RxDepth THEN Append(rxFifo, m)
  ELSE [rxFifo EXCEPT ![RxDepth] = m]

\* The first request (CAN_TXFP) goes out; the board's controller takes it when
\* one of its filters passes it.
OnTheBus ==
  /\ mailboxes # <<>>
  /\ mailboxes' = Tail(mailboxes)
  /\ rxFifo' = IF filtered = {} THEN rxFifo ELSE Received(Head(mailboxes))
  /\ lossy' = (lossy \/ (filtered # {} /\ Len(rxFifo) = RxDepth))
  /\ UNCHANGED <<listVars, stuck, sendVars, got, sizes, early>>

\* CAN_NART: what loses the arbitration or meets an error is not sent again.
LostOnTheBus ==
  /\ mailboxes # <<>>
  /\ mailboxes' = Tail(mailboxes)
  /\ lossy' = TRUE
  /\ UNCHANGED <<listVars, stuck, sendVars, rxFifo, got, sizes, early>>

\* Mutant of P_CAN_IRQHandler: the walk ends at the first node that matches.
IRQHandlerFirst ==
  /\ rxFifo # <<>> /\ ~stuck
  /\ IF Ends
     THEN /\ got' = [n \in CanNodes |->
               IF n = srcNode THEN Append(got[n], Head(rxFifo)) ELSE got[n]]
          /\ rxFifo' = Tail(rxFifo) /\ UNCHANGED stuck
     ELSE stuck' = TRUE /\ UNCHANGED <<got, rxFifo>>
  /\ UNCHANGED <<listVars, sendVars, mailboxes, sizes, lossy, early>>

\* Write2dev for every node of the list, or round and round.
P_CAN_IRQHandler ==
  /\ rxFifo # <<>> /\ ~stuck
  /\ IF Ends
     THEN /\ got' = [n \in CanNodes |->
               IF n \in Listed THEN Append(got[n], Head(rxFifo)) ELSE got[n]]
          /\ rxFifo' = Tail(rxFifo) /\ UNCHANGED stuck
     ELSE stuck' = TRUE /\ UNCHANGED <<got, rxFifo>>
  /\ UNCHANGED <<listVars, sendVars, mailboxes, sizes, lossy, early>>

AddNode == (\E n \in CanNodes : AddLink(n)) \/ AddEnd \/ AddFilter

CanNext ==
  \/ AddNode
  \/ \E len \in WriteLens : CanWrite(len)
  \/ SendPiece \/ OnTheBus \/ LostOnTheBus
  \/ P_CAN_IRQHandler

CanSpec == CanInit /\ [][CanNext]_canVars

-----------------------------------------------------------------------------

CanTypeOK ==
  /\ srcNode \in {0} \cup CanNodes /\ nextNode \in [CanNodes -> {0} \cup CanNodes]
  /\ filtered \subseteq CanNodes /\ filterN \in 0..MaxFilters
  /\ adding \in {0} \cup CanNodes /\ addPc \in {"idle", "end", "filter"}
  /\ adds \in [CanNodes -> 0..MaxAdds] /\ stuck \in BOOLEAN
  /\ write \in 0..MaxWrites /\ from \in Nat /\ left \in Nat
  /\ mailboxes \in Seq(Piece) /\ Len(mailboxes) <= Mailboxes
  /\ rxFifo \in Seq(Piece) /\ Len(rxFifo) <= RxDepth
  /\ got \in [CanNodes -> Seq(Piece)] /\ sizes \in Seq(WriteLens) /\ lossy \in BOOLEAN /\ early \subseteq CanNodes

AddedTwice == {n \in CanNodes : adds[n] > 1}

\* Public_SoftCan.c:58-82: as long as no node is added twice, the interrupt may
\* come between any two steps of P_CAN_AddNode: the list has an end at every
\* moment and holds every node that was added, and no interrupt is stuck.  A node
\* that is added twice can cut the list behind it and make the interrupt that
\* comes at the wrong moment go round for ever, but once P_CAN_AddNode is over
\* the list has an end again.
ListIsWhole ==
  /\ AddedTwice = {} => ~stuck /\ Ends /\ Listed = {n \in CanNodes : adds[n] > 0}
  /\ addPc # "end" /\ ~stuck => Ends

After(a, b) == a.write > b.write \/ (a.write = b.write /\ a.from > b.from)

\* The byte after the last one node n has got, of the last write it has got any of.
UpTo(n) ==
  IF got[n] = <<>> THEN [write |-> 0, next |-> 0]
  ELSE LET p == got[n][Len(got[n])] IN [write |-> p.write, next |-> p.from + p.len]

\* Public_SoftCan.c:41-53, 161-169: a node gets the pieces of all the writes in
\* their order and none of them twice, whichever of them are lost on the way; and
\* when no piece was lost and none is on its way, every node that was ready for
\* the first one has got all of every write, the last piece with its own length,
\* also when other nodes were added meanwhile.
PiecesArrive ==
  /\ \A n \in CanNodes : \A i \in 2..Len(got[n]) : After(got[n][i], got[n][i - 1])
  /\ ~lossy /\ AddedTwice = {} /\ left = 0 /\ mailboxes = <<>> /\ rxFifo = <<>> /\ write > 0 =>
       \A n \in early :
         /\ UpTo(n) = [write |-> write, next |-> sizes[write]]
         /\ \A i \in 2..Len(got[n]) :
              LET p == got[n][i]
                  q == got[n][i - 1]
              IN  \/ p.write = q.write /\ p.from = q.from + q.len
                  \/ p.write = q.write + 1 /\ p.from = 0 /\ q.from + q.len = sizes[q.write]
=============================================================================
