----------------------------- MODULE CanFilter -----------------------------
(***************************************************************************)
(* Which CAN frames a node hears: P_CAN_SetNodeByBus turns the addresses   *)
(* and the filter settings of a bus_config into an identifier and a mask,  *)
(* BSP_CAN1AddFilter (bsp_CAN.c) puts them into the CAN controller's       *)
(* filter, and P_CAN_IRQHandler compares once more what got through.       *)
(*                                                                         *)
(* An identifier is told from the node's own by the groups of bits in      *)
(* which they agree.  The groups are three bits wide, because the code     *)
(* that loads the filter shifts the mask three bits to the left and leaves *)
(* the identifier where it is: each group is compared by the controller    *)
(* when the group below it is in the mask.  Only bits 1 and 2 of the index *)
(* matter, the ones resev ends up in.  Types are below 32, as all that     *)
(* Public_SoftCan.h defines are: their highest bit, which no comparison    *)
(* looks at, is 0.                                                         *)
(***************************************************************************)
EXTENDS Naturals

DstType == {"dstTypeHi", "dstTypeLo"}
SrcType == {"srcTypeHi", "srcTypeLo"}

Groups == {"resev2", "dstId", "srcId", "index"} \cup DstType \cup SrcType

VARIABLES
  filt,     \* filt_dst and filt_src of the bus_config
  mask,     \* node->mask: the groups it covers, and "resev"
  filter,   \* the controller's filter: the groups it compares, or no filter yet
  agrees,   \* of the last frame on the bus: the groups equal to the node's
  heard     \* whether Write2dev got it

filterVars == <<filt, mask, filter, agrees, heard>>

NoFilter == {"none"}

FilterInit ==
  /\ filt \in [dst : 0..3, src : 0..3]
  /\ mask = {} /\ filter = NoFilter
  /\ agrees = {} /\ heard = FALSE

\* Mutant of Covered: setting 2 covers the id, not the type.
CoveredSwapped(f, type, id) ==
  CASE f = 0 -> {} [] f = 1 -> type \cup {id} [] f = 2 -> {id} [] f = 3 -> type

\* What the settings leave of an address in the mask.
Covered(f, type, id) ==
  CASE f = 0 -> {} [] f = 1 -> type \cup {id} [] f = 2 -> type [] f = 3 -> {id}

\* The mask of P_CAN_SetNodeByBus: resev is 6, of resev2 only the lowest bit.
P_CAN_SetNodeByBus ==
  /\ mask = {}
  /\ mask' = {"resev", "resev2"} \cup Covered(filt.dst, DstType, "dstId")
               \cup Covered(filt.src, SrcType, "srcId")
  /\ UNCHANGED <<filt, filter, agrees, heard>>

\* The group whose place in the filter's mask a group of the node's mask takes.
Above(g) ==
  CASE g = "resev" -> "index"
    [] g = "srcId" -> "srcTypeLo"
    [] g = "srcTypeLo" -> "srcTypeHi"
    [] g = "srcTypeHi" -> "dstId"
    [] g = "dstId" -> "dstTypeLo"
    [] g = "dstTypeLo" -> "dstTypeHi"
    [] g = "dstTypeHi" -> "resev2"
    [] OTHER -> "lost"

\* FilterMaskId = mask << 3, FilterId = maskId.
BSP_CAN1AddFilter ==
  /\ mask # {} /\ filter = NoFilter
  /\ filter' = {Above(g) : g \in mask} \cap Groups
  /\ UNCHANGED <<filt, mask, agrees, heard>>

\* P_CAN_IRQHandler: (maskId ^ id << 3) & mask & 0xffffff8, whose constant leaves
\* resev and resev2 out.
Matches3(eq) == mask \ {"resev", "resev2"} \subseteq eq

\* A frame of a node of this bus: resev2 is the same for all of them, and index
\* whatever was on the sender's stack when it filled its bus_config, as here.
Frame(eq) ==
  /\ filter # NoFilter
  /\ agrees' = eq
  /\ heard' = (filter \subseteq eq /\ Matches3(eq))
  /\ UNCHANGED <<filt, mask, filter>>

FilterNext ==
  \/ P_CAN_SetNodeByBus
  \/ BSP_CAN1AddFilter
  \/ \E eq \in SUBSET (Groups \ {"resev2"}) : Frame(eq \cup {"resev2"})

FilterSpec == FilterInit /\ [][FilterNext]_filterVars

-----------------------------------------------------------------------------

\* Public_SoftCan.h:108: what the settings ask for.
Wanted ==
  /\ filt.dst \in {1, 2} => DstType \subseteq agrees
  /\ filt.dst \in {1, 3} => "dstId" \in agrees
  /\ filt.src \in {1, 2} => SrcType \subseteq agrees
  /\ filt.src \in {1, 3} => "srcId" \in agrees

\* bsp_CAN.c:114-115: with the mask in the wrong place, these are the settings
\* under which the node still hears all that is meant for it, and it does so only
\* from senders whose index has the same bits 1 and 2.
AlignedSettings ==
  {[dst |-> 0, src |-> 0], [dst |-> 1, src |-> 0], [dst |-> 1, src |-> 1], [dst |-> 1, src |-> 2],
   [dst |-> 2, src |-> 0]}

WantedIsHeard ==
  agrees # {} /\ filt \in AlignedSettings /\ "index" \in agrees => (Wanted => heard)

\* Public_SoftCan.h:62: what matches the node's identifier and mask is put into
\* dev.
MatchingIsHeard == agrees # {} /\ Matches3(agrees) => heard
=============================================================================
