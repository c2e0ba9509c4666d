------------------------------ MODULE CmdLink ------------------------------
(***************************************************************************)
(* The calling side of skySoftware/src/communication.c: a program that     *)
(* runs commands on nodes, each behind a line and a receiver of its own,   *)
(* and waits for their answers by polling the receivers' flags.            *)
(*                                                                         *)
(*   "one"     sky_runCmdPact on one node                                  *)
(*   "group"   sky_runNFun on several: send to each, sky_waitNData, check  *)
(*             the lengths and copy the answers out                        *)
(*   "offset"  sky_runOffsetCMD on several: the same loops, but the copies *)
(*             are made whoever has answered (its type argument has bit 1  *)
(*             set; otherwise it copies nothing)                           *)
(*   "type"    sky_runCmdType on one node, its answer copied out (its type *)
(*             has bit 1 set; otherwise it is like "one", as is            *)
(*             sky_recSetVirType, which only sends other bytes)            *)
(*   "all"     sky_recSetVirTypePN: one frame, through the first node's    *)
(*             driver, and a wait for the answers of several               *)
(*                                                                         *)
(* Frames are whole here (ReceivePact models their bytes) and may be lost. *)
(* A node handles one frame at a time and drops what arrives meanwhile; so *)
(* does each receiver of the caller.  An answer carries the code of the    *)
(* command, whether it was carried out, and a length; nothing tells which  *)
(* of several commands of the same code it answers.  id, the number of the *)
(* call, is a history variable that no guard reads.                        *)
(***************************************************************************)
EXTENDS Integers, Sequences

CONSTANTS
  N,            \* nodes are 1..N
  Codes,        \* command codes
  MaxCalls      \* bound: the calls made

ASSUME LinkAssumption == N \in Nat \ {0} /\ MaxCalls \in Nat

Nodes == 1..N

Kinds == {"one", "group", "offset", "type", "all"}

Single == {"one", "type"}

Request == [code : Codes, id : 1..MaxCalls]

\* ok is the bit 4 of the command byte; fits, that the length is the expected.
Reply == [code : Codes, ok : BOOLEAN, fits : BOOLEAN, id : 1..MaxCalls]

None == [none |-> TRUE]

VARIABLES
  \* the caller
  pc,           \* "idle", "send", "announce", "look", "clock" or "copy"
  kind, code, group,    \* of the call
  i,            \* the index of its loops
  got,          \* tem: the nodes counted as answered
  late,         \* the time allowed has passed
  result,       \* of the last call: "ok", "late", "refused", "length", "unsent"
  calls,        \* calls so far; the number of the one in progress
  answer,       \* per node the frame its receiver holds, or None
  out,          \* what the last call copied out, per node
  \* lines and nodes
  requests, replies,    \* per node, frames on the way
  held,         \* per node, the frame it works on, or None
  \* history
  executed,     \* per node, the calls it has carried out
  patient       \* no call so far ended before its frames were lost or used

call == <<kind, code, group, calls>>
wires == <<requests, replies>>
vars == <<pc, call, i, got, late, result, answer, out, wires, held, executed, patient>>

Init ==
  /\ pc = "idle" /\ kind = "one" /\ code \in Codes /\ group = {}
  /\ i = 1 /\ got = {} /\ late = FALSE /\ result = "ok" /\ calls = 0
  /\ answer = [n \in Nodes |-> None] /\ out = [n \in Nodes |-> None]
  /\ requests = [n \in Nodes |-> <<>>] /\ replies = [n \in Nodes |-> <<>>]
  /\ held = [n \in Nodes |-> None]
  /\ executed = [n \in Nodes |-> {}] /\ patient = TRUE

-----------------------------------------------------------------------------
(***************************************************************************)
(* The caller.                                                             *)
(***************************************************************************)

Call(k, g, c) ==
  /\ pc = "idle" /\ calls < MaxCalls
  /\ pc' = IF k = "all" THEN "announce" ELSE "send"
  /\ kind' = k /\ group' = g /\ code' = c /\ calls' = calls + 1
  /\ i' = 1 /\ got' = {} /\ late' = FALSE
  /\ out' = [n \in Nodes |-> None]
  /\ UNCHANGED <<result, answer, wires, held, executed, patient>>

Member == i <= N /\ i \in group

\* Nothing of a call is left on the lines.
Quiet == \A n \in Nodes : requests[n] = <<>> /\ replies[n] = <<>> /\ held[n] = None

Matches(a) == a # None /\ a.code = code /\ a.ok

Return(r) ==
  /\ pc' = "idle" /\ result' = r /\ i' = 1
  /\ patient' = (patient /\ Quiet)

\* Mutant of SendOne: the flag is not cleared before the command is sent.
SendOneKeeping ==
  /\ pc = "send" /\ Member
  /\ requests' = [requests EXCEPT ![i] = Append(@, [code |-> code, id |-> calls])]
  /\ i' = i + 1
  /\ UNCHANGED <<pc, call, got, late, result, answer, out, replies, held, executed, patient>>

\* saveFlag = 0 and the frame; a pause before the next node's.
SendOne ==
  /\ pc = "send" /\ Member
  /\ answer' = [answer EXCEPT ![i] = None]
  /\ requests' = [requests EXCEPT ![i] = Append(@, [code |-> code, id |-> calls])]
  /\ i' = i + 1
  /\ UNCHANGED <<pc, call, got, late, result, out, replies, held, executed, patient>>

\* devWrite fails: sky_runNFun gives up, with the nodes before this one already
\* told; the others wait for an answer all the same.
SendFails ==
  /\ pc = "send" /\ Member
  /\ answer' = [answer EXCEPT ![i] = None]
  /\ \/ kind = "group" /\ Return("unsent")
     \/ kind # "group" /\ i' = i + 1 /\ UNCHANGED <<pc, result, patient>>
  /\ UNCHANGED <<call, got, late, out, wires, held, executed>>

\* sky_recSetVirTypePN clears the flags of all and writes one frame to the first
\* node's driver, which may fail.  How the nodes are wired decides whom it is on its
\* way to then: that node alone or, on a shared line, all of them.
Announce ==
  /\ pc = "announce" /\ pc' = "look"
  /\ answer' = [n \in Nodes |-> IF n \in group THEN None ELSE answer[n]]
  /\ \E hearers \in {{}, {1}, Nodes} :
       requests' = [n \in Nodes |-> IF n \in hearers
                                    THEN Append(requests[n], [code |-> code, id |-> calls])
                                    ELSE requests[n]]
  /\ UNCHANGED <<call, i, got, late, result, out, replies, held, executed, patient>>

\* The loops pass over the nodes outside the group.
Skip ==
  /\ pc \in {"send", "look", "copy"} /\ i <= N /\ i \notin group
  /\ i' = i + 1
  /\ UNCHANGED <<pc, call, got, late, result, answer, out, wires, held, executed, patient>>

Sent ==
  /\ pc = "send" /\ i > N
  /\ pc' = "look" /\ i' = 1
  /\ UNCHANGED <<call, got, late, result, answer, out, wires, held, executed, patient>>

\* sky_waitData: the answer it waits for, which sky_runCmdType goes on to copy,
\* or another frame.
LookOne ==
  /\ pc = "look" /\ kind \in Single /\ Member
  /\ \/ /\ Matches(answer[i])
        /\ got' = {i} /\ UNCHANGED answer
        /\ \/ kind = "one" /\ Return("ok")
           \/ kind = "type" /\ pc' = "copy" /\ UNCHANGED <<i, result, patient>>
     \/ /\ answer[i] # None /\ ~Matches(answer[i])
        /\ Return("refused") /\ answer' = [answer EXCEPT ![i] = None] /\ UNCHANGED got
     \/ /\ answer[i] = None
        /\ pc' = "clock" /\ i' = 1 /\ UNCHANGED <<got, result, answer, patient>>
  /\ UNCHANGED <<call, late, out, wires, held, executed>>

\* One turn of the for loop of sky_waitNData and sky_runOffsetCMD.
LookGroup ==
  /\ pc = "look" /\ kind \notin Single /\ Member
  /\ got' = IF Matches(answer[i]) THEN got \cup {i} ELSE got
  /\ i' = i + 1
  /\ UNCHANGED <<pc, call, late, result, answer, out, wires, held, executed, patient>>

Looked ==
  /\ pc = "look" /\ i > N
  /\ pc' = "clock" /\ i' = 1
  /\ UNCHANGED <<call, got, late, result, answer, out, wires, held, executed, patient>>

\* Mutant of Clock: a frame that has come, even a wrong one, stops the clock.
ClockWhenSilent ==
  /\ pc = "clock"
  /\ \/ /\ got = group
        /\ pc' = "copy" /\ UNCHANGED <<result, patient, i>>
     \/ /\ got # group /\ late /\ \A n \in group : answer[n] = None
        /\ Return("late")
     \/ /\ got # group /\ (~late \/ \E n \in group : answer[n] # None)
        /\ pc' = "look" /\ UNCHANGED <<result, patient, i>>
  /\ UNCHANGED <<call, got, late, answer, out, wires, held, executed>>

\* The end of the loop's body.  A group that is complete when the time is up
\* counts as complete: what is returned is the set of nodes that are missing.
Clock ==
  /\ pc = "clock"
  /\ \/ /\ got = group /\ kind = "all"
        /\ Return("ok")
     \/ /\ got = group /\ kind # "all"
        /\ pc' = "copy" /\ UNCHANGED <<result, patient, i>>
     \/ /\ got # group /\ late /\ kind # "offset"
        /\ Return("late")
     \/ /\ got # group /\ late /\ kind = "offset"
        /\ pc' = "copy" /\ UNCHANGED <<result, patient, i>>
     \/ /\ got # group /\ ~late
        /\ pc' = "look" /\ UNCHANGED <<result, patient, i>>
  /\ UNCHANGED <<call, got, late, answer, out, wires, held, executed>>

\* Mutant of CopyChecked: the length is not looked at.
CopyUnchecked ==
  /\ pc = "copy" /\ kind = "group" /\ Member
  /\ out' = [out EXCEPT ![i] = answer[i]]
  /\ i' = i + 1
  /\ UNCHANGED <<pc, call, got, late, result, answer, wires, held, executed, patient>>

\* sky_runNFun checks the length of each answer and copies it; one that does
\* not fit ends the call, with the answers before it copied.
CopyChecked ==
  /\ pc = "copy" /\ kind = "group" /\ Member
  /\ IF answer[i].fits
     THEN /\ out' = [out EXCEPT ![i] = answer[i]]
          /\ i' = i + 1 /\ UNCHANGED <<pc, result, patient>>
     ELSE Return("length") /\ UNCHANGED out
  /\ UNCHANGED <<call, got, late, answer, wires, held, executed>>

\* sky_runOffsetCMD copies what is in each buffer, whether the node has
\* answered or not (None stands for what is left there from before);
\* sky_runCmdType copies its node's.
CopyAll ==
  /\ pc = "copy" /\ kind \in {"offset", "type"} /\ Member
  /\ out' = [out EXCEPT ![i] = answer[i]]
  /\ i' = i + 1
  /\ UNCHANGED <<pc, call, got, late, result, answer, wires, held, executed, patient>>

Copied ==
  /\ pc = "copy" /\ i > N
  /\ Return(IF got = group THEN "ok" ELSE "late")
  /\ UNCHANGED <<call, got, late, answer, out, wires, held, executed>>

\* Milliseconds pass while it polls.
Tick ==
  /\ pc \in {"look", "clock"} /\ ~late /\ late' = TRUE
  /\ UNCHANGED <<pc, call, i, got, result, answer, out, wires, held, executed, patient>>

-----------------------------------------------------------------------------
(***************************************************************************)
(* The lines and the nodes.                                                *)
(***************************************************************************)

\* A frame reaches node n, which drops it while it works on another.
Deliver(n) ==
  /\ requests[n] # <<>>
  /\ requests' = [requests EXCEPT ![n] = Tail(@)]
  /\ held' = [held EXCEPT ![n] = IF @ = None THEN Head(requests[n]) ELSE @]
  /\ UNCHANGED <<pc, call, i, got, late, result, answer, out, replies, executed, patient>>

\* Node n carries out the command it holds and answers, with as many bytes as
\* the caller expects or not, or refuses it with an empty answer.
Answer(n, ok, fits) ==
  /\ held[n] # None /\ (fits => ok)
  /\ executed' = [executed EXCEPT ![n] = IF ok THEN @ \cup {held[n].id} ELSE @]
  /\ replies' = [replies EXCEPT ![n] =
       Append(@, [code |-> held[n].code, ok |-> ok, fits |-> fits, id |-> held[n].id])]
  /\ held' = [held EXCEPT ![n] = None]
  /\ UNCHANGED <<pc, call, i, got, late, result, answer, out, requests, patient>>

\* Mutant of Hear: a new frame takes the place of the one that is held.
HearOver(n) ==
  /\ replies[n] # <<>>
  /\ replies' = [replies EXCEPT ![n] = Tail(@)]
  /\ answer' = [answer EXCEPT ![n] = Head(replies[n])]
  /\ UNCHANGED <<pc, call, i, got, late, result, out, requests, held, executed, patient>>

\* A frame reaches the receiver for node n, which drops it while it holds one.
Hear(n) ==
  /\ replies[n] # <<>>
  /\ replies' = [replies EXCEPT ![n] = Tail(@)]
  /\ answer' = [answer EXCEPT ![n] = IF @ = None THEN Head(replies[n]) ELSE @]
  /\ UNCHANGED <<pc, call, i, got, late, result, out, requests, held, executed, patient>>

Lose(n) ==
  /\ \/ /\ requests[n] # <<>> /\ UNCHANGED replies
        /\ requests' = [requests EXCEPT ![n] = Tail(@)]
     \/ /\ replies[n] # <<>> /\ UNCHANGED requests
        /\ replies' = [replies EXCEPT ![n] = Tail(@)]
  /\ UNCHANGED <<pc, call, i, got, late, result, answer, out, held, executed, patient>>

-----------------------------------------------------------------------------

Start ==
  \E k \in Kinds, g \in SUBSET Nodes, c \in Codes :
    /\ g # {} /\ (k \in Single => \E n \in Nodes : g = {n})
    /\ Call(k, g, c)

Caller ==
  SendOne \/ SendFails \/ Announce \/ Skip \/ Sent \/ LookOne \/ LookGroup \/ Looked \/ Clock
    \/ CopyChecked \/ CopyAll \/ Copied

Node(n) == Deliver(n) \/ (\E ok, fits \in BOOLEAN : Answer(n, ok, fits)) \/ Hear(n) \/ Lose(n)

Next == Start \/ Caller \/ Tick \/ \E n \in Nodes : Node(n)

Spec == Init /\ [][Next]_vars

\* The calling program runs, and its clock does.
FairSpec == Spec /\ WF_vars(Caller) /\ WF_vars(Tick)

-----------------------------------------------------------------------------

TypeOK ==
  /\ pc \in {"idle", "send", "announce", "look", "clock", "copy"}
  /\ kind \in Kinds /\ code \in Codes /\ group \subseteq Nodes
  /\ i \in 1 .. N + 1 /\ got \subseteq group /\ late \in BOOLEAN
  /\ result \in {"ok", "late", "refused", "length", "unsent"} /\ calls \in 0..MaxCalls
  /\ answer \in [Nodes -> Reply \cup {None}] /\ out \in [Nodes -> Reply \cup {None}]
  /\ requests \in [Nodes -> Seq(Request)] /\ replies \in [Nodes -> Seq(Reply)]
  /\ held \in [Nodes -> Request \cup {None}]
  /\ executed \in [Nodes -> SUBSET (1..MaxCalls)] /\ patient \in BOOLEAN

\* communication.c:225, 580: once a node is counted as answered its answer
\* stays in its receiver, whatever arrives late, until the call has copied it.
CountedStays ==
  pc \in {"look", "clock", "copy"} => \A n \in got : Matches(answer[n])

\* communication.c:489, 594-604, 639-651: whatever was lost, late or refused
\* before, what is copied out for a node that is reported to have answered is an
\* answer of the right code to a command it did carry out, and for sky_runNFun of
\* the right length: never what was left in the receiver's buffer from before.
CopiesAreAnswers ==
  pc = "idle" /\ kind \in {"group", "offset", "type"}
      /\ (result = "ok" \/ (result = "late" /\ kind = "offset")) =>
    /\ result = "ok" => got = group
    /\ \A n \in got : Matches(out[n]) /\ out[n].id \in executed[n]
                      /\ (kind = "group" => out[n].fits)

\* A caller whose earlier calls did not give up on a frame that was still on its
\* way may believe what it is told: success means this very command was carried
\* out by every node, and what was copied answers it.
PatientCallsAreExact ==
  pc = "idle" /\ calls > 0 /\ patient /\ result = "ok" =>
    \A n \in group :
      calls \in executed[n] /\ (kind \notin {"one", "all"} => out[n].id = calls)

\* Every call returns: no line, node or stray frame can hold the caller.
EveryCallReturns == pc # "idle" ~> pc = "idle"

\* communication.h:121, communication.c:469: 1 means the command was carried
\* out ("1 执行成功").
SuccessMeansExecuted ==
  pc = "idle" /\ calls > 0 /\ kind = "one" /\ result = "ok" =>
    \A n \in group : calls \in executed[n]
=============================================================================
