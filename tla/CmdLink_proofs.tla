--------------------------- MODULE CmdLink_proofs ---------------------------
(***************************************************************************)
(* Proofs about CmdLink, for any number of nodes, codes and calls: what a  *)
(* call counts as answered stays, what it copies are answers, and a caller *)
(* that is patient may believe what it is told.                            *)
(***************************************************************************)
EXTENDS CmdLink, SequenceTheorems, TLAPS

Copying == {"group", "offset", "type"}

\* An answer that says so was given by a node that had carried the command out.
DoneInv ==
  \A n \in Nodes :
    /\ \A k \in 1 .. Len(replies[n]) : replies[n][k].ok => replies[n][k].id \in executed[n]
    /\ answer[n] # None /\ answer[n].ok => answer[n].id \in executed[n]

\* Nothing is counted before the loops that count, sky_runCmdPact and
\* sky_runCmdType are called for one node, and the clock is looked at between
\* two turns.
StageInv ==
  /\ pc \in {"send", "announce"} => got = {}
  /\ pc \in {"look", "clock"} /\ kind \in Single => got = {}
  /\ pc # "idle" /\ kind \in Single => \E n \in Nodes : group = {n}
  /\ pc = "clock" => i = 1

\* What has been copied so far.
CopyInv ==
  pc = "copy" =>
    /\ kind \in Copying /\ (kind # "offset" => got = group)
    /\ \A n \in got : n < i => out[n] = answer[n] /\ (kind = "group" => out[n].fits)

\* The nodes whose flag has been cleared by this call.
Cleared == {n \in group : pc # "announce" /\ (pc = "send" => n < i)}

\* What is on the way for node n, or has been heard of it, is of this call.
OwnAt(n) ==
  /\ pc = "idle" => requests[n] = <<>> /\ replies[n] = <<>> /\ held[n] = None
  /\ \A k \in 1 .. Len(requests[n]) : requests[n][k].id = calls
  /\ \A k \in 1 .. Len(replies[n]) : replies[n][k].id = calls
  /\ held[n] # None => held[n].id = calls
  /\ pc # "idle" /\ n \in Cleared /\ answer[n] # None => answer[n].id = calls

\* As long as the caller is patient, all frames are of the call in progress.
OwnInv == patient => \A n \in Nodes : OwnAt(n)

SafeInv == DoneInv /\ StageInv /\ CountedStays /\ CopyInv /\ CopiesAreAnswers

ExactInv == OwnInv /\ PatientCallsAreExact

-----------------------------------------------------------------------------

\* Nodes are numbered from 1 to N.
LEMMA NodesAreNumbers == \A n \in Nodes : n \in Nat /\ n >= 1 /\ n <= N
BY LinkAssumption DEF Nodes

\* The invariant holds before any call.
LEMMA InitHolds == Init => TypeOK /\ SafeInv /\ ExactInv
<1> SUFFICES ASSUME Init PROVE TypeOK /\ SafeInv /\ ExactInv
  OBVIOUS
<1>1. TypeOK
  <2>1. <<>> \in Seq(Request) /\ <<>> \in Seq(Reply)
    OBVIOUS
  <2>2. {} \in SUBSET (1..MaxCalls)
    OBVIOUS
  <2>3. i \in 1 .. N + 1 /\ calls \in 0..MaxCalls
    BY LinkAssumption DEF Init
  <2> QED
    BY <2>1, <2>2, <2>3 DEF Init, TypeOK, Kinds
<1>2. SafeInv
  BY DEF Init, SafeInv, DoneInv, CountedStays, CopyInv, StageInv, CopiesAreAnswers, Copying
<1>3. ExactInv
  BY DEF Init, ExactInv, OwnInv, OwnAt, PatientCallsAreExact, Cleared
<1> QED
  BY <1>1, <1>2, <1>3

-----------------------------------------------------------------------------
(***************************************************************************)
(* Types.                                                                  *)
(***************************************************************************)

\* A call is in progress only when one has been made.
CalledInv == pc # "idle" => calls > 0

\* A call that is under way is one of those counted.
LEMMA CalledKeeps == TypeOK /\ CalledInv /\ [Next]_vars => CalledInv'
<1> SUFFICES ASSUME TypeOK, CalledInv, [Next]_vars PROVE CalledInv'
  OBVIOUS
<1>1. CASE Start
  BY <1>1, LinkAssumption DEF TypeOK, CalledInv, Start, Call
<1>2. ASSUME Caller \/ Tick \/ (\E n \in Nodes : Node(n)) \/ UNCHANGED vars
      PROVE  UNCHANGED calls /\ (pc = "idle" => pc' = "idle")
  <2>1. CASE Caller
    BY <2>1 DEF Caller, SendOne, SendFails, Announce, Skip, Sent, LookOne, LookGroup,
         Looked, Clock, CopyChecked, CopyAll, Copied, call
  <2>2. CASE Tick \/ (\E n \in Nodes : Node(n)) \/ UNCHANGED vars
    BY <2>2 DEF Tick, Node, Deliver, Answer, Hear, Lose, vars, call
  <2> QED
    BY <1>2, <2>1, <2>2
<1> QED
  BY <1>1, <1>2 DEF CalledInv, Next

\* The index of the caller's loops counts the nodes and one more.
LEMMA IndexType ==
  ASSUME TypeOK
  PROVE  /\ 1 \in 1 .. N + 1
         /\ i <= N => i + 1 \in 1 .. N + 1 /\ i \in Nodes
         /\ N + 1 \in Nat
BY LinkAssumption DEF TypeOK, Nodes

\* What a caller sends is a request.
LEMMA RequestType ==
  ASSUME TypeOK, CalledInv, pc # "idle"
  PROVE  [code |-> code, id |-> calls] \in Request
BY LinkAssumption DEF TypeOK, CalledInv, Request

\* A request more on one node's line.
LEMMA RequestIsAdded ==
  ASSUME NEW q \in [Nodes -> Seq(Request)], NEW n \in Nodes, NEW r \in Request
  PROVE  [q EXCEPT ![n] = Append(@, r)] \in [Nodes -> Seq(Request)]
OBVIOUS

\* Sending and waiting.
LEMMA SendingKeepsTypes ==
  ASSUME TypeOK, CalledInv, SendOne \/ SendFails \/ Announce
  PROVE  TypeOK'
<1>1. CASE SendOne
  <2>1. requests' \in [Nodes -> Seq(Request)]
    <3>1. i \in Nodes /\ [code |-> code, id |-> calls] \in Request
      BY <1>1, RequestType, IndexType DEF SendOne, Member
    <3>2. requests' = [requests EXCEPT ![i] = Append(@, [code |-> code, id |-> calls])]
      BY <1>1 DEF SendOne
    <3>3. requests \in [Nodes -> Seq(Request)]
      BY DEF TypeOK
    <3> QED
      BY <3>1, <3>2, <3>3, RequestIsAdded
  <2>2. answer' \in [Nodes -> Reply \cup {None}]
    BY <1>1 DEF SendOne, TypeOK
  <2>3. i' \in 1 .. N + 1
    BY <1>1, IndexType DEF SendOne, Member
  <2> QED
    BY <1>1, <2>1, <2>2, <2>3 DEF SendOne, TypeOK, call
<1>2. CASE SendFails
  <2>1. answer' \in [Nodes -> Reply \cup {None}]
    BY <1>2 DEF SendFails, TypeOK
  <2>2. i' \in 1 .. N + 1 /\ result' \in {"ok", "late", "refused", "length", "unsent"}
          /\ pc' \in {"send", "idle"}
    BY <1>2, IndexType DEF SendFails, Member, Return, TypeOK
  <2>3. patient' \in BOOLEAN
    BY <1>2 DEF SendFails, Return, TypeOK
  <2> QED
    BY <1>2, <2>1, <2>2, <2>3 DEF SendFails, TypeOK, call, wires
<1>3. CASE Announce
  <2>1. requests' \in [Nodes -> Seq(Request)]
    <3>1. PICK hearers \in {{}, {1}, Nodes} :
            requests' = [n \in Nodes |-> IF n \in hearers
                                         THEN Append(requests[n], [code |-> code, id |-> calls])
                                         ELSE requests[n]]
      BY <1>3 DEF Announce
    <3>2. [code |-> code, id |-> calls] \in Request
      <4>1. pc # "idle"
        BY <1>3 DEF Announce
      <4> QED
        BY <4>1, RequestType
    <3>3. requests \in [Nodes -> Seq(Request)]
      BY DEF TypeOK
    <3>4. ASSUME NEW n \in Nodes
          PROVE  Append(requests[n], [code |-> code, id |-> calls]) \in Seq(Request)
      BY <3>2, <3>3
    <3> QED
      BY <3>1, <3>3, <3>4
  <2>2. answer' \in [Nodes -> Reply \cup {None}]
    BY <1>3 DEF Announce, TypeOK
  <2> QED
    BY <1>3, <2>1, <2>2 DEF Announce, TypeOK, call
<1> QED
  BY <1>1, <1>2, <1>3

\* The types while the caller sends and waits, ...
LEMMA WaitingKeepsTypes ==
  ASSUME TypeOK, Skip \/ Sent \/ LookOne \/ LookGroup \/ Looked \/ Clock \/ Tick
  PROVE  TypeOK'
<1>1. CASE Skip
  BY <1>1, IndexType DEF Skip, TypeOK, call, wires
<1>2. CASE Sent
  BY <1>2, IndexType DEF Sent, TypeOK, call, wires
<1>3. CASE LookOne
  <2>1. answer' \in [Nodes -> Reply \cup {None}]
    BY <1>3 DEF LookOne, TypeOK
  <2>2. i' \in 1 .. N + 1 /\ result' \in {"ok", "late", "refused", "length", "unsent"}
          /\ pc' \in {"clock", "copy", "idle"}
    BY <1>3, IndexType DEF LookOne, Return, TypeOK
  <2>3. patient' \in BOOLEAN
    BY <1>3 DEF LookOne, Return, TypeOK
  <2>4. got' \subseteq group
    BY <1>3 DEF LookOne, Member, TypeOK
  <2> QED
    BY <1>3, <2>1, <2>2, <2>3, <2>4 DEF LookOne, TypeOK, call, wires
<1>4. CASE LookGroup
  BY <1>4, IndexType DEF LookGroup, Member, TypeOK, call, wires
<1>5. CASE Looked
  BY <1>5, IndexType DEF Looked, TypeOK, call, wires
<1>6. CASE Clock
  <2>1. i' \in 1 .. N + 1 /\ result' \in {"ok", "late", "refused", "length", "unsent"}
          /\ pc' \in {"look", "copy", "idle"}
    BY <1>6, IndexType DEF Clock, Return, TypeOK
  <2>2. patient' \in BOOLEAN
    BY <1>6 DEF Clock, Return, TypeOK
  <2> QED
    BY <1>6, <2>1, <2>2 DEF Clock, TypeOK, call, wires
<1>7. CASE Tick
  BY <1>7 DEF Tick, TypeOK, call, wires
<1> QED
  BY <1>1, <1>2, <1>3, <1>4, <1>5, <1>6, <1>7

\* ... while it copies the answers out, ...
LEMMA CopyingKeepsTypes ==
  ASSUME TypeOK, CopyChecked \/ CopyAll \/ Copied
  PROVE  TypeOK'
<1>1. CASE CopyChecked
  <2>1. out' \in [Nodes -> Reply \cup {None}]
    BY <1>1, IndexType DEF CopyChecked, Member, TypeOK
  <2>2. i' \in 1 .. N + 1 /\ result' \in {"ok", "late", "refused", "length", "unsent"}
          /\ pc' \in {"copy", "idle"}
    BY <1>1, IndexType DEF CopyChecked, Member, Return, TypeOK
  <2>3. patient' \in BOOLEAN
    BY <1>1 DEF CopyChecked, Return, TypeOK
  <2> QED
    BY <1>1, <2>1, <2>2, <2>3 DEF CopyChecked, TypeOK, call, wires
<1>2. CASE CopyAll
  BY <1>2, IndexType DEF CopyAll, Member, TypeOK, call, wires
<1>3. CASE Copied
  <2>1. i' \in 1 .. N + 1 /\ result' \in {"ok", "late"} /\ pc' = "idle"
    BY <1>3, IndexType DEF Copied, Return
  <2>2. patient' \in BOOLEAN
    BY <1>3 DEF Copied, Return, TypeOK
  <2> QED
    BY <1>3, <2>1, <2>2 DEF Copied, TypeOK, call, wires
<1> QED
  BY <1>1, <1>2, <1>3

\* ... and so for each step of the caller.
LEMMA CallerKeepsTypes ==
  ASSUME TypeOK, CalledInv, Caller \/ Tick
  PROVE  TypeOK'
BY SendingKeepsTypes, WaitingKeepsTypes, CopyingKeepsTypes DEF Caller

\* The types when a call starts.
LEMMA StartKeepsTypes ==
  ASSUME TypeOK, Start
  PROVE  TypeOK'
<1>1. calls' \in 0..MaxCalls /\ i' \in 1 .. N + 1 /\ got' \subseteq group'
  BY LinkAssumption DEF TypeOK, Start, Call
<1>2. out' \in [Nodes -> Reply \cup {None}]
  BY DEF Start, Call
<1>3. pc' \in {"send", "announce"} /\ kind' \in Kinds /\ code' \in Codes /\ group' \subseteq Nodes
        /\ late' = FALSE /\ UNCHANGED <<result, answer, wires, held, executed, patient>>
  BY DEF Start, Call
<1> QED
  BY <1>1, <1>2, <1>3 DEF TypeOK, wires

\* The types when a node, its line or its receiver takes a step.
LEMMA NodeKeepsTypes ==
  ASSUME TypeOK, NEW n \in Nodes, Node(n)
  PROVE  TypeOK'
<1>1. CASE Deliver(n)
  <2>1. Head(requests[n]) \in Request /\ Tail(requests[n]) \in Seq(Request)
    BY <1>1 DEF Deliver, TypeOK
  <2> QED
    BY <1>1, <2>1 DEF Deliver, TypeOK, call
<1>2. ASSUME NEW ok \in BOOLEAN, NEW fits \in BOOLEAN, Answer(n, ok, fits)
      PROVE  TypeOK'
  <2>1. held[n] \in Request
    BY <1>2 DEF Answer, TypeOK
  <2>2. [code |-> held[n].code, ok |-> ok, fits |-> fits, id |-> held[n].id] \in Reply
    BY <2>1 DEF Request, Reply
  <2>3. replies' \in [Nodes -> Seq(Reply)]
    BY <1>2, <2>2 DEF Answer, TypeOK
  <2>4. executed' \in [Nodes -> SUBSET (1..MaxCalls)]
    BY <1>2, <2>1 DEF Answer, TypeOK, Request
  <2> QED
    BY <1>2, <2>3, <2>4 DEF Answer, TypeOK, call
<1>3. CASE Hear(n)
  <2>1. Head(replies[n]) \in Reply /\ Tail(replies[n]) \in Seq(Reply)
    BY <1>3 DEF Hear, TypeOK
  <2> QED
    BY <1>3, <2>1 DEF Hear, TypeOK, call
<1>4. CASE Lose(n)
  <2>1. requests[n] # <<>> => Tail(requests[n]) \in Seq(Request)
    BY DEF TypeOK
  <2>2. replies[n] # <<>> => Tail(replies[n]) \in Seq(Reply)
    BY DEF TypeOK
  <2>3. requests' \in [Nodes -> Seq(Request)] /\ replies' \in [Nodes -> Seq(Reply)]
    BY <1>4, <2>1, <2>2 DEF Lose, TypeOK
  <2> QED
    BY <1>4, <2>3 DEF Lose, TypeOK, call
<1> QED
  BY <1>1, <1>2, <1>3, <1>4 DEF Node

\* Every step keeps the types.
LEMMA TypeStep == TypeOK /\ CalledInv /\ [Next]_vars => TypeOK'
<1> SUFFICES ASSUME TypeOK, CalledInv, [Next]_vars PROVE TypeOK'
  OBVIOUS
<1>1. CASE Next
  BY <1>1, CallerKeepsTypes, StartKeepsTypes, NodeKeepsTypes DEF Next
<1>2. CASE UNCHANGED vars
  BY <1>2 DEF TypeOK, vars, call, wires
<1> QED
  BY <1>1, <1>2

-----------------------------------------------------------------------------
(***************************************************************************)
(* Answers.                                                                *)
(***************************************************************************)

\* The caller clears flags, and nothing else of what the nodes and lines do.
LEMMA CallerLeavesNodes ==
  ASSUME TypeOK, Start \/ Caller \/ Tick
  PROVE  /\ UNCHANGED <<replies, held, executed>>
         /\ \A n \in Nodes : answer'[n] = answer[n] \/ answer'[n] = None
<1>1. CASE Start
  BY <1>1 DEF Start, Call, wires
<1>2. CASE SendOne \/ SendFails \/ Announce
  BY <1>2 DEF SendOne, SendFails, Announce, wires, TypeOK
<1>3. CASE Skip \/ Sent \/ LookGroup \/ Looked \/ Clock \/ Tick
  BY <1>3 DEF Skip, Sent, LookGroup, Looked, Clock, Tick, wires
<1>4. CASE LookOne
  BY <1>4 DEF LookOne, wires, TypeOK
<1>5. CASE CopyChecked \/ CopyAll \/ Copied
  BY <1>5 DEF CopyChecked, CopyAll, Copied, wires
<1> QED
  BY <1>1, <1>2, <1>3, <1>4, <1>5 DEF Caller

\* The nodes and lines leave the caller alone, but for a receiver that is free.
LEMMA NodeLeavesCaller ==
  ASSUME TypeOK, NEW m \in Nodes, Node(m)
  PROVE  /\ UNCHANGED <<pc, kind, code, group, calls, i, got, late, result, out, patient>>
         /\ \A n \in Nodes : answer[n] # None => answer'[n] = answer[n]
         /\ \A n \in Nodes : executed[n] \subseteq executed'[n]
<1>1. CASE Deliver(m)
  BY <1>1 DEF Deliver, call
<1>2. ASSUME NEW ok \in BOOLEAN, NEW fits \in BOOLEAN, Answer(m, ok, fits)
      PROVE  \A n \in Nodes : executed[n] \subseteq executed'[n]
  BY <1>2 DEF Answer, TypeOK
<1>3. ASSUME NEW ok \in BOOLEAN, NEW fits \in BOOLEAN, Answer(m, ok, fits)
      PROVE  UNCHANGED <<pc, kind, code, group, calls, i, got, late, result, out, patient, answer>>
  BY <1>3 DEF Answer, call
<1>4. CASE Hear(m)
  BY <1>4 DEF Hear, call, TypeOK
<1>5. CASE Lose(m)
  BY <1>5 DEF Lose, call
<1> QED
  BY <1>1, <1>2, <1>3, <1>4, <1>5 DEF Node

\* Every step keeps that an answer tells the truth.
LEMMA DoneStep ==
  ASSUME TypeOK, DoneInv, Next
  PROVE  DoneInv'
<1>1. CASE Start \/ Caller \/ Tick
  BY <1>1, CallerLeavesNodes DEF DoneInv
<1>2. ASSUME NEW m \in Nodes, Deliver(m)
      PROVE  DoneInv'
  BY <1>2 DEF DoneInv, Deliver
<1>3. ASSUME NEW m \in Nodes, NEW ok \in BOOLEAN, NEW fits \in BOOLEAN, Answer(m, ok, fits)
      PROVE  DoneInv'
  <2> SUFFICES ASSUME NEW n \in Nodes
               PROVE  /\ \A k \in 1 .. Len(replies'[n]) :
                           replies'[n][k].ok => replies'[n][k].id \in executed'[n]
                      /\ answer'[n] # None /\ answer'[n].ok => answer'[n].id \in executed'[n]
    BY DEF DoneInv
  <2>1. answer'[n] # None /\ answer'[n].ok => answer'[n].id \in executed'[n]
    <3>1. executed[n] \subseteq executed'[n] /\ answer' = answer
      BY <1>3, NodeLeavesCaller DEF Node, Answer
    <3> QED
      BY <3>1 DEF DoneInv
  <2>2. CASE n # m
    BY <1>3, <2>1, <2>2 DEF DoneInv, Answer, TypeOK
  <2>3. CASE n = m
    <3> DEFINE r == [code |-> held[n].code, ok |-> ok, fits |-> fits, id |-> held[n].id]
    <3>1. replies'[n] = Append(replies[n], r) /\ replies[n] \in Seq(Reply)
      BY <1>3, <2>3 DEF Answer, TypeOK
    <3>2. executed[n] \subseteq executed'[n] /\ (ok => held[n].id \in executed'[n])
      BY <1>3, <2>3 DEF Answer, TypeOK
    <3>3. r.ok = ok /\ r.id = held[n].id
      OBVIOUS
    <3> HIDE DEF r
    <3>4. ASSUME NEW k \in 1 .. Len(replies'[n]), replies'[n][k].ok
          PROVE  replies'[n][k].id \in executed'[n]
      <4>1. CASE k \in 1 .. Len(replies[n])
        <5>1. replies'[n][k] = replies[n][k]
          BY <3>1, <4>1
        <5> QED
          BY <3>2, <3>4, <4>1, <5>1 DEF DoneInv
      <4>2. CASE k \notin 1 .. Len(replies[n])
        <5>1. replies'[n][k] = r
          BY <3>1, <4>2
        <5> QED
          BY <3>2, <3>3, <3>4, <5>1
      <4> QED
        BY <4>1, <4>2
    <3> QED
      BY <2>1, <3>4
  <2> QED
    BY <2>2, <2>3
<1>4. ASSUME NEW m \in Nodes, Hear(m)
      PROVE  DoneInv'
  <2>1. /\ replies[m] \in Seq(Reply) /\ replies[m] # <<>> /\ executed' = executed
        /\ replies'= [replies EXCEPT ![m] = Tail(@)]
        /\ answer' = [answer EXCEPT ![m] = IF @ = None THEN Head(replies[m]) ELSE @]
    BY <1>4 DEF Hear, TypeOK
  <2>2. Head(replies[m]).ok => Head(replies[m]).id \in executed[m]
    BY <2>1 DEF DoneInv
  <2>3. \A k \in 1 .. Len(Tail(replies[m])) :
          Tail(replies[m])[k].ok => Tail(replies[m])[k].id \in executed[m]
    BY <2>1 DEF DoneInv
  <2> QED
    BY <2>1, <2>2, <2>3 DEF DoneInv, TypeOK
<1>5. ASSUME NEW m \in Nodes, Lose(m)
      PROVE  DoneInv'
  <2>1. executed' = executed /\ answer' = answer
          /\ (replies' = replies \/ (replies[m] # <<>> /\ replies' = [replies EXCEPT ![m] = Tail(@)]))
    BY <1>5 DEF Lose
  <2>2. replies[m] \in Seq(Reply)
    BY DEF TypeOK
  <2>3. replies[m] # <<>> => \A k \in 1 .. Len(Tail(replies[m])) :
          Tail(replies[m])[k].ok => Tail(replies[m])[k].id \in executed[m]
    BY <2>2 DEF DoneInv
  <2> QED
    BY <2>1, <2>3 DEF DoneInv, TypeOK
<1> QED
  BY <1>1, <1>2, <1>3, <1>4, <1>5 DEF Next, Node

\* Every step keeps what is known of each stage of a call.
LEMMA StageStep ==
  ASSUME TypeOK, StageInv, Next
  PROVE  StageInv'
<1>1. CASE Start
  BY <1>1 DEF StageInv, Start, Call
<1>2. CASE SendOne \/ SendFails
  BY <1>2 DEF StageInv, SendOne, SendFails, Return, call
<1>3. CASE Announce \/ Skip
  BY <1>3 DEF StageInv, Announce, Skip, call
<1>4. CASE Sent \/ Looked
  BY <1>4 DEF StageInv, Sent, Looked, call
<1>5. CASE LookOne
  BY <1>5 DEF StageInv, LookOne, Return, call
<1>6. CASE LookGroup \/ Tick
  BY <1>6 DEF StageInv, LookGroup, Tick, call
<1>7. CASE Clock
  BY <1>7 DEF StageInv, Clock, Return, call
<1>8. CASE CopyChecked \/ CopyAll \/ Copied
  BY <1>8 DEF StageInv, CopyChecked, CopyAll, Copied, Return, call
<1>9. ASSUME NEW m \in Nodes, Node(m)
      PROVE  StageInv'
  BY <1>9, NodeLeavesCaller DEF StageInv
<1> QED
  BY <1>1, <1>2, <1>3, <1>4, <1>5, <1>6, <1>7, <1>8, <1>9 DEF Next, Caller

\* A node that was counted stays answered.
LEMMA CountedStep ==
  ASSUME TypeOK, StageInv, CountedStays, Next
  PROVE  CountedStays'
<1>1. CASE Start \/ SendOne \/ SendFails
  BY <1>1 DEF CountedStays, Start, Call, SendOne, SendFails, Return
<1>2. CASE Announce \/ Sent
  BY <1>2 DEF CountedStays, StageInv, Announce, Sent, call
<1>3. CASE Skip \/ Looked \/ Tick
  BY <1>3 DEF CountedStays, StageInv, Skip, Looked, Tick, Matches, call
<1>4. CASE LookOne
  BY <1>4 DEF CountedStays, StageInv, LookOne, Return, Matches, call
<1>5. CASE LookGroup
  BY <1>5 DEF CountedStays, LookGroup, Matches, call
<1>6. CASE Clock
  BY <1>6 DEF CountedStays, Clock, Return, Matches, call
<1>7. CASE CopyChecked \/ CopyAll \/ Copied
  BY <1>7 DEF CountedStays, CopyChecked, CopyAll, Copied, Return, Matches, call
<1>8. ASSUME NEW m \in Nodes, Node(m)
      PROVE  CountedStays'
  BY <1>8, NodeLeavesCaller DEF CountedStays, Matches, TypeOK
<1> QED
  BY <1>1, <1>2, <1>3, <1>4, <1>5, <1>6, <1>7, <1>8 DEF Next, Caller

\* Every step keeps what has been copied so far.
LEMMA CopyStep ==
  ASSUME TypeOK, StageInv, CountedStays, CopyInv, Next
  PROVE  CopyInv'
<1> USE NodesAreNumbers
<1>1. CASE Start \/ SendOne \/ SendFails \/ Announce \/ Sent \/ Looked \/ LookGroup \/ Tick
  BY <1>1 DEF CopyInv, Start, Call, SendOne, SendFails, Announce, Sent, Looked, LookGroup, Tick,
       Return
<1>2. CASE Skip
  <2>1. \A n \in got : n # i
    BY <1>2 DEF Skip, TypeOK
  <2>2. i \in Nat /\ i' = i + 1
    BY <1>2, LinkAssumption DEF Skip, TypeOK
  <2>3. \A n \in got : n \in Nat
    BY DEF TypeOK
  <2> QED
    BY <1>2, <2>1, <2>2, <2>3 DEF CopyInv, Skip, call
<1>3. CASE LookOne
  <2> SUFFICES ASSUME pc' = "copy" PROVE CopyInv'
    BY DEF CopyInv
  <2>1. kind = "type" /\ got' = {i} /\ i' = i /\ i \in group /\ UNCHANGED <<kind, group>>
    BY <1>3 DEF LookOne, Return, Member, call
  <2>2. group = {i}
    BY <1>3, <2>1 DEF StageInv, LookOne, Single
  <2>3. ~(i < i)
    BY LinkAssumption DEF TypeOK
  <2> QED
    BY <2>1, <2>2, <2>3 DEF CopyInv, Copying
<1>4. CASE Clock
  <2> SUFFICES ASSUME pc' = "copy" PROVE CopyInv'
    BY DEF CopyInv
  <2>1. UNCHANGED <<i, got, out, kind, group>> /\ (kind # "offset" => got = group /\ kind # "all")
    BY <1>4 DEF Clock, Return, call
  <2>2. kind \in Copying
    BY <1>4, <2>1 DEF StageInv, Clock, TypeOK, Kinds, Single, Copying
  <2>3. \A n \in got : ~(n < i)
    BY <1>4 DEF StageInv, Clock, TypeOK
  <2> QED
    BY <2>1, <2>2, <2>3 DEF CopyInv
<1>5. CASE CopyChecked \/ CopyAll
  <2> SUFFICES ASSUME pc' = "copy" PROVE CopyInv'
    BY DEF CopyInv
  <2>1. /\ pc = "copy" /\ i \in Nodes /\ i' = i + 1 /\ UNCHANGED <<got, answer, kind, group>>
        /\ out' = [out EXCEPT ![i] = answer[i]]
        /\ kind = "group" => answer[i].fits
    BY <1>5, IndexType DEF CopyChecked, CopyAll, Member, Return, call
  <2>2. kind \in Copying /\ (kind # "offset" => got = group)
    BY <2>1 DEF CopyInv
  <2>3. ASSUME NEW n \in got, n < i'
        PROVE  out'[n] = answer[n] /\ (kind = "group" => out'[n].fits)
    <3>1. n \in Nodes /\ (n = i \/ n < i)
      BY <2>1, <2>3 DEF TypeOK
    <3>2. CASE n = i
      BY <2>1, <3>1, <3>2 DEF TypeOK
    <3>3. CASE n < i
      <4>1. n # i
        BY <2>1, <3>1, <3>3
      <4>2. out'[n] = out[n]
        BY <2>1, <3>1, <4>1 DEF TypeOK
      <4> QED
        BY <2>1, <3>3, <4>2 DEF CopyInv
    <3> QED
      BY <3>1, <3>2, <3>3
  <2> QED
    BY <2>1, <2>2, <2>3 DEF CopyInv
<1>6. CASE Copied
  BY <1>6 DEF CopyInv, Copied, Return
<1>7. ASSUME NEW m \in Nodes, Node(m)
      PROVE  CopyInv'
  BY <1>7, NodeLeavesCaller DEF CopyInv, CountedStays, Matches, TypeOK
<1> QED
  BY <1>1, <1>2, <1>3, <1>4, <1>5, <1>6, <1>7 DEF Next, Caller

\* At the end of a loop that copies, all answers counted are copied.
LEMMA AllCopied ==
  ASSUME TypeOK, SafeInv, Copied, NEW n \in got
  PROVE  /\ out[n] = answer[n] /\ (kind = "group" => out[n].fits)
         /\ Matches(answer[n]) /\ answer[n].id \in executed[n]
<1>1. n \in Nodes /\ pc = "copy"
  BY DEF TypeOK, Copied
<1>2. n < i
  BY <1>1, NodesAreNumbers, LinkAssumption DEF Copied, TypeOK
<1> QED
  BY <1>1, <1>2 DEF SafeInv, CopyInv, CountedStays, DoneInv, Matches

\* What is copied out is an answer to the command.
LEMMA CopiesStep ==
  ASSUME TypeOK, SafeInv, Next
  PROVE  CopiesAreAnswers'
<1>1. CASE Start \/ SendOne \/ SendFails \/ Announce \/ Skip \/ Sent
  BY <1>1 DEF CopiesAreAnswers, Start, Call, SendOne, SendFails, Announce, Skip, Sent, Return
<1>2. CASE LookOne \/ LookGroup \/ Looked \/ Tick
  BY <1>2 DEF CopiesAreAnswers, LookOne, LookGroup, Looked, Tick, Return, call
<1>3. CASE Clock
  BY <1>3 DEF CopiesAreAnswers, Clock, Return, call
<1>4. CASE CopyChecked \/ CopyAll
  BY <1>4 DEF CopiesAreAnswers, CopyChecked, CopyAll, Return, call
<1>5. CASE Copied
  <2>1. /\ UNCHANGED <<kind, code, group, got, out, executed>>
        /\ result' = "ok" => got = group
    BY <1>5 DEF Copied, Return, call, wires
  <2> QED
    BY <1>5, <2>1, AllCopied DEF CopiesAreAnswers, Matches
<1>6. ASSUME NEW m \in Nodes, Node(m)
      PROVE  CopiesAreAnswers'
  <2>1. CopiesAreAnswers
    BY DEF SafeInv
  <2> QED
    BY <1>6, <2>1, NodeLeavesCaller DEF CopiesAreAnswers, Matches, TypeOK
<1> QED
  BY <1>1, <1>2, <1>3, <1>4, <1>5, <1>6 DEF Next, Caller

\* Every step keeps the part of the invariant that needs no patience.
LEMMA SafeStep == TypeOK /\ SafeInv /\ [Next]_vars => SafeInv'
<1> SUFFICES ASSUME TypeOK, SafeInv, [Next]_vars PROVE SafeInv'
  OBVIOUS
<1>1. CASE Next
  BY <1>1, DoneStep, StageStep, CountedStep, CopyStep, CopiesStep DEF SafeInv
<1>2. CASE UNCHANGED vars
  BY <1>2 DEF SafeInv, DoneInv, StageInv, CountedStays, CopyInv, CopiesAreAnswers, Matches,
       vars, call, wires
<1> QED
  BY <1>1, <1>2

-----------------------------------------------------------------------------
(***************************************************************************)
(* Patience.                                                               *)
(***************************************************************************)

\* A call that returns leaves nothing behind, or the caller was not patient.
LEMMA ReturnIsOwn ==
  ASSUME OwnInv, NEW r, Return(r),
         UNCHANGED <<requests, replies, held, calls>>
  PROVE  OwnInv'
BY DEF OwnInv, OwnAt, Return, Quiet

\* A step that only moves the caller on, over nodes whose flag is cleared.
LEMMA MovingIsOwn ==
  ASSUME TypeOK, OwnInv, pc # "idle", pc' # "idle",
         UNCHANGED <<requests, replies, held, calls, patient>>,
         \A n \in Nodes : /\ answer'[n] = answer[n] \/ answer'[n] = None
                          /\ answer'[n] # None => (n \in Cleared' => n \in Cleared)
  PROVE  OwnInv'
<1> SUFFICES ASSUME patient, NEW n \in Nodes PROVE OwnAt(n)'
  BY DEF OwnInv
<1>1. OwnAt(n)
  BY DEF OwnInv
<1>2. n \in Cleared' /\ answer'[n] # None => answer'[n].id = calls
  <2>1. answer'[n] # None => answer'[n] = answer[n] /\ (n \in Cleared' => n \in Cleared)
    OBVIOUS
  <2> QED
    BY <1>1, <2>1 DEF OwnAt
<1> QED
  BY <1>1, <1>2 DEF OwnAt

\* A request of the call in progress joins those of the same call.
LEMMA RequestsAreOwn ==
  ASSUME TypeOK, CalledInv, pc # "idle", NEW n \in Nodes,
         \A k \in 1 .. Len(requests[n]) : requests[n][k].id = calls,
         \/ requests'[n] = requests[n]
         \/ requests'[n] = Append(requests[n], [code |-> code, id |-> calls])
  PROVE  \A k \in 1 .. Len(requests'[n]) : requests'[n][k].id = calls
<1> DEFINE r == [code |-> code, id |-> calls]
<1>1. r \in Request /\ r.id = calls
  BY RequestType
<1> HIDE DEF r
<1>2. requests[n] \in Seq(Request) /\ requests \in [Nodes -> Seq(Request)]
  BY DEF TypeOK
<1>3. requests'[n] = requests[n] \/ requests'[n] = Append(requests[n], r)
  BY DEF r
<1>4. CASE requests'[n] = Append(requests[n], r)
  <2>1. requests'[n] = Append(requests[n], r)
    BY <1>4
  <2>2. ASSUME NEW k \in 1 .. Len(requests'[n])
        PROVE  requests'[n][k].id = calls
    <3>1. CASE k \in 1 .. Len(requests[n])
      <4>1. requests'[n][k] = requests[n][k]
        BY <1>2, <2>1, <3>1
      <4> QED
        BY <3>1, <4>1
    <3>2. CASE k \notin 1 .. Len(requests[n])
      <4>1. requests'[n][k] = r
        BY <1>2, <2>1, <2>2, <3>2
      <4> QED
        BY <1>1, <4>1
    <3> QED
      BY <3>1, <3>2
  <2> QED
    BY <2>2
<1>5. CASE requests'[n] = requests[n]
  BY <1>5
<1> QED
  BY <1>3, <1>4, <1>5

\* While callers are patient, all that is under way belongs to the call in progress:
\* the caller's steps keep that, ...
LEMMA CallerIsOwn ==
  ASSUME TypeOK, CalledInv, OwnInv, Start \/ Caller \/ Tick
  PROVE  OwnInv'
<1> USE NodesAreNumbers
<1>1. CASE Start
  <2>1. /\ pc = "idle" /\ pc' \in {"send", "announce"} /\ i' = 1
        /\ UNCHANGED <<requests, replies, held, answer, patient>>
    BY <1>1 DEF Start, Call, wires
  <2>2. \A n \in Nodes : n \notin Cleared'
    BY <2>1 DEF Cleared
  <2> QED
    BY <2>1, <2>2 DEF OwnInv, OwnAt
<1>2. CASE SendOne
  <2> SUFFICES ASSUME patient, NEW n \in Nodes PROVE OwnAt(n)'
    BY <1>2 DEF OwnInv, OwnAt, SendOne
  <2>1. /\ pc = "send" /\ pc' = "send" /\ i \in Nodes /\ i' = i + 1
        /\ UNCHANGED <<replies, held, calls, group>>
        /\ answer' = [answer EXCEPT ![i] = None]
        /\ requests' = [requests EXCEPT ![i] = Append(@, [code |-> code, id |-> calls])]
    BY <1>2, IndexType DEF SendOne, Member, call
  <2>2. \A k \in 1 .. Len(requests'[n]) : requests'[n][k].id = calls
    <3>1. \A k \in 1 .. Len(requests[n]) : requests[n][k].id = calls
      BY DEF OwnInv, OwnAt
    <3> QED
      BY <2>1, <3>1, RequestsAreOwn
  <2>3. n \in Cleared' /\ answer'[n] # None => answer'[n].id = calls
    <3> SUFFICES ASSUME n \in Cleared', answer'[n] # None PROVE answer'[n].id = calls
      OBVIOUS
    <3>1. n # i /\ answer'[n] = answer[n]
      BY <2>1 DEF TypeOK
    <3>2. n < i /\ n \in group
      BY <2>1, <3>1 DEF Cleared
    <3> QED
      BY <2>1, <3>1, <3>2 DEF OwnInv, OwnAt, Cleared
  <2> QED
    BY <2>1, <2>2, <2>3 DEF OwnInv, OwnAt
<1>3. CASE SendFails
  <2>1. CASE \E r \in {"unsent"} : Return(r)
    BY <1>3, <2>1, ReturnIsOwn DEF SendFails, call, wires
  <2>2. CASE ~\E r \in {"unsent"} : Return(r)
    <3>1. /\ pc = "send" /\ pc' = "send" /\ i \in Nodes /\ i' = i + 1
          /\ UNCHANGED <<requests, replies, held, calls, group, patient>>
          /\ answer' = [answer EXCEPT ![i] = None]
      BY <1>3, <2>2, IndexType DEF SendFails, Member, call, wires
    <3>2. ASSUME NEW n \in Nodes
          PROVE  /\ answer'[n] = answer[n] \/ answer'[n] = None
                 /\ answer'[n] # None => (n \in Cleared' => n \in Cleared)
      <4>1. CASE n = i
        BY <3>1, <4>1 DEF TypeOK
      <4>2. CASE n # i
        BY <3>1, <4>2 DEF Cleared, TypeOK
      <4> QED
        BY <4>1, <4>2
    <3> QED
      BY <3>1, <3>2, MovingIsOwn
  <2> QED
    BY <2>1, <2>2
<1>4. CASE Announce
  <2> SUFFICES ASSUME patient, NEW n \in Nodes PROVE OwnAt(n)'
    BY <1>4 DEF OwnInv, OwnAt, Announce
  <2>1. /\ pc = "announce" /\ pc' = "look" /\ UNCHANGED <<replies, held, calls, group>>
        /\ answer' = [m \in Nodes |-> IF m \in group THEN None ELSE answer[m]]
        /\ \/ requests'[n] = requests[n]
           \/ requests'[n] = Append(requests[n], [code |-> code, id |-> calls])
    BY <1>4 DEF Announce, call
  <2>2. \A k \in 1 .. Len(requests'[n]) : requests'[n][k].id = calls
    <3>1. \A k \in 1 .. Len(requests[n]) : requests[n][k].id = calls
      BY DEF OwnInv, OwnAt
    <3> QED
      BY <2>1, <3>1, RequestsAreOwn
  <2>3. n \in Cleared' => answer'[n] = None
    BY <2>1 DEF Cleared
  <2> QED
    BY <2>1, <2>2, <2>3 DEF OwnInv, OwnAt
<1>5. CASE Skip
  <2>1. \A n \in Nodes : n \in Cleared' => n \in Cleared
    BY <1>5 DEF Skip, Cleared, TypeOK, call
  <2> QED
    BY <1>5, <2>1, MovingIsOwn DEF Skip, call, wires
<1>6. CASE Sent
  <2>1. \A n \in Nodes : n \in Cleared' => n \in Cleared
    BY <1>6, LinkAssumption DEF Sent, Cleared, TypeOK, call
  <2> QED
    BY <1>6, <2>1, MovingIsOwn DEF Sent, call, wires
<1>7. CASE LookOne
  <2>1. CASE \E r \in {"ok", "refused"} : Return(r)
    BY <1>7, <2>1, ReturnIsOwn DEF LookOne, call, wires
  <2>2. CASE ~\E r \in {"ok", "refused"} : Return(r)
    <3>1. /\ pc = "look" /\ pc' \in {"copy", "clock"}
          /\ UNCHANGED <<requests, replies, held, calls, group, patient, answer>>
      BY <1>7, <2>2 DEF LookOne, call, wires
    <3>2. \A n \in Nodes : n \in Cleared' => n \in Cleared
      BY <3>1 DEF Cleared
    <3> QED
      BY <3>1, <3>2, MovingIsOwn
  <2> QED
    BY <2>1, <2>2
<1>8. CASE LookGroup \/ Looked \/ Tick
  <2>1. \A n \in Nodes : n \in Cleared' => n \in Cleared
    BY <1>8 DEF LookGroup, Looked, Tick, Cleared, call
  <2> QED
    BY <1>8, <2>1, MovingIsOwn DEF LookGroup, Looked, Tick, call, wires
<1>9. CASE Clock
  <2>1. CASE \E r \in {"ok", "late"} : Return(r)
    BY <1>9, <2>1, ReturnIsOwn DEF Clock, call, wires
  <2>2. CASE ~\E r \in {"ok", "late"} : Return(r)
    <3>1. /\ pc = "clock" /\ pc' \in {"copy", "look"}
          /\ UNCHANGED <<requests, replies, held, calls, group, patient, answer>>
      BY <1>9, <2>2 DEF Clock, call, wires
    <3>2. \A n \in Nodes : n \in Cleared' => n \in Cleared
      BY <3>1 DEF Cleared
    <3> QED
      BY <3>1, <3>2, MovingIsOwn
  <2> QED
    BY <2>1, <2>2
<1>10. CASE CopyChecked \/ CopyAll \/ Copied
  <2>1. CASE \E r \in {"ok", "late", "length"} : Return(r)
    BY <1>10, <2>1, ReturnIsOwn DEF CopyChecked, CopyAll, Copied, call, wires
  <2>2. CASE ~\E r \in {"ok", "late", "length"} : Return(r)
    <3>1. /\ pc = "copy" /\ pc' = "copy"
          /\ UNCHANGED <<requests, replies, held, calls, group, patient, answer>>
      BY <1>10, <2>2 DEF CopyChecked, CopyAll, Copied, call, wires
    <3>2. \A n \in Nodes : n \in Cleared' => n \in Cleared
      BY <3>1 DEF Cleared
    <3> QED
      BY <3>1, <3>2, MovingIsOwn
  <2> QED
    BY <2>1, <2>2
<1> QED
  BY <1>1, <1>2, <1>3, <1>4, <1>5, <1>6, <1>7, <1>8, <1>9, <1>10 DEF Caller

\* ... and so do the nodes'.
LEMMA NodeIsOwn ==
  ASSUME TypeOK, OwnInv, NEW m \in Nodes, Node(m)
  PROVE  OwnInv'
<1> SUFFICES ASSUME patient, NEW n \in Nodes PROVE OwnAt(n)'
  BY NodeLeavesCaller DEF OwnInv
<1>1. UNCHANGED <<pc, calls, Cleared>>
  BY NodeLeavesCaller DEF Cleared
<1>2. OwnAt(n) /\ OwnAt(m)
  BY DEF OwnInv
<1>3. /\ requests[m] \in Seq(Request) /\ replies[m] \in Seq(Reply)
      /\ requests \in [Nodes -> Seq(Request)] /\ replies \in [Nodes -> Seq(Reply)]
      /\ held \in [Nodes -> Request \cup {None}] /\ answer \in [Nodes -> Reply \cup {None}]
  BY DEF TypeOK
<1>4. requests[m] # <<>> =>
        /\ Head(requests[m]).id = calls
        /\ \A k \in 1 .. Len(Tail(requests[m])) : Tail(requests[m])[k].id = calls
  BY <1>2, <1>3 DEF OwnAt
<1>5. replies[m] # <<>> =>
        /\ Head(replies[m]).id = calls
        /\ \A k \in 1 .. Len(Tail(replies[m])) : Tail(replies[m])[k].id = calls
  BY <1>2, <1>3 DEF OwnAt
<1>6. CASE Deliver(m)
  <2>1. pc # "idle"
    BY <1>2, <1>6 DEF Deliver, OwnAt
  <2> QED
    BY <1>1, <1>2, <1>3, <1>4, <1>6, <2>1 DEF Deliver, OwnAt
<1>7. ASSUME NEW ok \in BOOLEAN, NEW fits \in BOOLEAN, Answer(m, ok, fits)
      PROVE  OwnAt(n)'
  <2> DEFINE r == [code |-> held[m].code, ok |-> ok, fits |-> fits, id |-> held[m].id]
  <2>1. pc # "idle" /\ r.id = calls
    BY <1>2, <1>7 DEF Answer, OwnAt
  <2>2. /\ UNCHANGED <<requests, answer>> /\ replies' = [replies EXCEPT ![m] = Append(@, r)]
        /\ held' = [held EXCEPT ![m] = None]
    BY <1>7 DEF Answer
  <2>3. held[m] \in Request
    BY <1>3, <1>7 DEF Answer
  <2>4. r \in Reply
    BY <2>3 DEF Request, Reply
  <2> HIDE DEF r
  <2>5. CASE n = m
    <3>1. replies'[n] = Append(replies[n], r) /\ replies[n] \in Seq(Reply)
      BY <1>3, <2>2, <2>5
    <3>2. ASSUME NEW k \in 1 .. Len(replies'[n])
          PROVE  replies'[n][k].id = calls
      <4>1. CASE k \in 1 .. Len(replies[n])
        <5>1. replies'[n][k] = replies[n][k]
          BY <3>1, <4>1
        <5> QED
          BY <1>2, <4>1, <5>1 DEF OwnAt
      <4>2. CASE k \notin 1 .. Len(replies[n])
        <5>1. replies'[n][k] = r
          BY <3>1, <3>2, <4>2
        <5> QED
          BY <2>1, <5>1
      <4> QED
        BY <4>1, <4>2
    <3> QED
      BY <1>1, <1>2, <1>3, <2>1, <2>2, <2>5, <3>2 DEF OwnAt
  <2>6. CASE n # m
    BY <1>1, <1>2, <1>3, <2>1, <2>2, <2>6 DEF OwnAt
  <2> QED
    BY <2>5, <2>6
<1>8. CASE Hear(m)
  <2>1. pc # "idle"
    BY <1>2, <1>8 DEF Hear, OwnAt
  <2> QED
    BY <1>1, <1>2, <1>3, <1>5, <1>8, <2>1 DEF Hear, OwnAt
<1>9. CASE Lose(m)
  <2>1. pc # "idle"
    BY <1>2, <1>9 DEF Lose, OwnAt
  <2> QED
    BY <1>1, <1>2, <1>3, <1>4, <1>5, <1>9, <2>1 DEF Lose, OwnAt
<1> QED
  BY <1>6, <1>7, <1>8, <1>9 DEF Node

\* A call that returns "ok" has its answers from nodes that carried it out.
LEMMA PatientStep ==
  ASSUME TypeOK, SafeInv, OwnInv, PatientCallsAreExact, Next
  PROVE  PatientCallsAreExact'
<1> USE NodesAreNumbers
<1>1. CASE Start \/ SendOne \/ SendFails \/ Announce \/ Skip \/ Sent
  BY <1>1 DEF PatientCallsAreExact, Start, Call, SendOne, SendFails, Announce, Skip, Sent, Return
<1>2. CASE LookGroup \/ Looked \/ Tick
  BY <1>2 DEF PatientCallsAreExact, LookGroup, Looked, Tick
<1>3. CASE LookOne
  <2> SUFFICES ASSUME pc' = "idle", patient', result' = "ok" PROVE PatientCallsAreExact'
    BY DEF PatientCallsAreExact
  <2>1. /\ pc = "look" /\ kind = "one" /\ i \in group /\ Matches(answer[i]) /\ patient
        /\ UNCHANGED <<kind, group, calls, executed>>
    BY <1>3 DEF LookOne, Return, Member, call
  <2>2. group = {i} /\ i \in Nodes
    BY <2>1 DEF SafeInv, StageInv, Single
  <2>3. answer[i].id \in executed[i]
    BY <2>1, <2>2 DEF SafeInv, DoneInv, Matches
  <2>4. answer[i].id = calls
    BY <2>1, <2>2 DEF OwnInv, OwnAt, Cleared, Matches
  <2> QED
    BY <2>1, <2>2, <2>3, <2>4 DEF PatientCallsAreExact
<1>4. CASE Clock
  <2> SUFFICES ASSUME pc' = "idle", patient', result' = "ok" PROVE PatientCallsAreExact'
    BY DEF PatientCallsAreExact
  <2>1. /\ pc = "clock" /\ kind = "all" /\ got = group /\ patient
        /\ UNCHANGED <<kind, group, calls, executed>>
    BY <1>4 DEF Clock, Return, call
  <2>2. ASSUME NEW n \in group
        PROVE  calls \in executed[n]
    <3>1. n \in Nodes /\ Matches(answer[n])
      BY <2>1 DEF TypeOK, SafeInv, CountedStays
    <3>2. answer[n].id \in executed[n]
      BY <3>1 DEF SafeInv, DoneInv, Matches
    <3>3. answer[n].id = calls
      BY <2>1, <3>1 DEF OwnInv, OwnAt, Cleared, Matches
    <3> QED
      BY <3>2, <3>3
  <2> QED
    BY <2>1, <2>2 DEF PatientCallsAreExact
<1>5. CASE CopyChecked \/ CopyAll
  BY <1>5 DEF PatientCallsAreExact, CopyChecked, CopyAll, Return
<1>6. CASE Copied
  <2> SUFFICES ASSUME patient', result' = "ok" PROVE PatientCallsAreExact'
    BY DEF PatientCallsAreExact
  <2>1. /\ pc = "copy" /\ got = group /\ patient
        /\ UNCHANGED <<kind, group, calls, executed, out>>
    BY <1>6 DEF Copied, Return, call, wires
  <2>2. ASSUME NEW n \in group
        PROVE  calls \in executed[n] /\ out[n].id = calls
    <3>1. n \in Nodes /\ out[n] = answer[n] /\ Matches(answer[n]) /\ answer[n].id \in executed[n]
      BY <1>6, <2>1, AllCopied DEF TypeOK
    <3>2. answer[n].id = calls
      BY <2>1, <3>1 DEF OwnInv, OwnAt, Cleared, Matches
    <3> QED
      BY <3>1, <3>2
  <2> QED
    BY <2>1, <2>2 DEF PatientCallsAreExact
<1>7. ASSUME NEW m \in Nodes, Node(m)
      PROVE  PatientCallsAreExact'
  BY <1>7, NodeLeavesCaller DEF PatientCallsAreExact, TypeOK
<1> QED
  BY <1>1, <1>2, <1>3, <1>4, <1>5, <1>6, <1>7 DEF Next, Caller

\* Every step keeps what is known of patient callers.
LEMMA ExactStep == TypeOK /\ CalledInv /\ SafeInv /\ ExactInv /\ [Next]_vars => ExactInv'
<1> SUFFICES ASSUME TypeOK, CalledInv, SafeInv, ExactInv, [Next]_vars PROVE ExactInv'
  OBVIOUS
<1>1. CASE Next
  BY <1>1, CallerIsOwn, NodeIsOwn, PatientStep DEF ExactInv, Next
<1>2. CASE UNCHANGED vars
  BY <1>2 DEF ExactInv, OwnInv, OwnAt, Cleared, PatientCallsAreExact, vars, call, wires
<1> QED
  BY <1>1, <1>2

-----------------------------------------------------------------------------

LinkInv == TypeOK /\ CalledInv /\ SafeInv /\ ExactInv

\* The whole of it holds in every state.
LEMMA Invariance == Spec => []LinkInv
<1>1. Init => LinkInv
  BY InitHolds DEF LinkInv, CalledInv, Init
<1>2. LinkInv /\ [Next]_vars => LinkInv'
  BY CalledKeeps, TypeStep, SafeStep, ExactStep DEF LinkInv
<1> QED
  BY <1>1, <1>2, PTL DEF Spec

\* communication.c:172-658: the loops over the nodes stay within the group and
\* the receivers hold nothing but answers, for any number of nodes and calls.
THEOREM TypeCorrect == Spec => []TypeOK
<1>1. LinkInv => TypeOK
  BY DEF LinkInv
<1> QED
  BY <1>1, Invariance, PTL

\* communication.c:225, 580: a node that is counted as answered keeps its answer
\* in its receiver until the call has copied it.
THEOREM AnswersStay == Spec => []CountedStays
<1>1. LinkInv => CountedStays
  BY DEF LinkInv, SafeInv
<1> QED
  BY <1>1, Invariance, PTL

\* communication.c:489, 594-604, 639-651: what is copied for a node reported as
\* answered is its answer to a command of this code that it carried out.
THEOREM CopiesAreExact == Spec => []CopiesAreAnswers
<1>1. LinkInv => CopiesAreAnswers
  BY DEF LinkInv, SafeInv
<1> QED
  BY <1>1, Invariance, PTL

\* communication.c:471-658: a caller that never gives up on a frame that is still
\* on its way may take a success for its own.
THEOREM PatientCallers == Spec => []PatientCallsAreExact
<1>1. LinkInv => PatientCallsAreExact
  BY DEF LinkInv, ExactInv
<1> QED
  BY <1>1, Invariance, PTL
=============================================================================
