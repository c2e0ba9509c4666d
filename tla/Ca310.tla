------------------------------- MODULE Ca310 -------------------------------
(***************************************************************************)
(* skySoftware/src/commonCa310.c: the host of a CA-310 colour analyser     *)
(* with several probes.  Every function is a script of commands, each sent *)
(* after a flush of the FIFO and answered by a line that must begin with   *)
(* OK; a measurement is answered by one line per probe that is switched    *)
(* on, and PNumberFlag remembers which these are, so that the command that *)
(* chooses them is sent only when they change.  The functions for the      *)
(* CA-410 and the MSE are plain scripts.                                   *)
(*                                                                         *)
(* Nothing tells which command an answer belongs to.  Lines are whole here *)
(* but for one that the time-out cuts in two.  The instrument and the line *)
(* are external: commands and answers may be lost, refused or late, and    *)
(* the instrument may be switched off and on.                              *)
(***************************************************************************)
EXTENDS Integers, Sequences, FiniteSets

CONSTANTS
  Probes,       \* the probes that are plugged in
  MaxTries,     \* how often COM,1 is tried (4)
  MaxCaCalls,   \* bound: the calls made
  MaxFaults     \* bound: the faults of the instrument, the line and the clock

ASSUME CaAssumption ==
  /\ Probes \subseteq 1..5 /\ 1 \in Probes /\ MaxTries \in Nat \ {0}
  /\ MaxCaCalls \in Nat /\ MaxFaults \in Nat

Modes == {0, 1}     \* of MDS: x, y, Lv and the others

VARIABLES
  \* the host
  caPc,         \* "idle", "send" or "await"
  fn, PN, mode, \* the function called and its arguments
  script,       \* the steps that are left; the first is the one in progress
  tries,        \* of that step
  PNumberFlag,  \* the probes chosen last, {} for none
  caFifo,       \* the answers in ca310FIFO
  readings,     \* the answers taken for measurements
  returned,     \* of the last call: "ok" or "failed"
  caCalls,      \* the calls so far
  \* the line and the instrument
  asked, due,   \* commands and answers on the way
  opr, mds,     \* the probes that answer, and in which mode
  \* history
  done,         \* the commands of this call that were carried out
  quiet,        \* every flush of this call left nothing on the way, and the
                \* instrument was not switched off
  unsure,       \* whether PNumberFlag was obeyed cannot be known
  faults

host == <<caPc, fn, PN, mode, script, tries, PNumberFlag, caFifo, readings, returned, caCalls>>
instrument == <<asked, due, opr, mds>>
caVars == <<host, instrument, done, quiet, unsure, faults>>

CaInit ==
  /\ caPc = "idle" /\ fn = "plain" /\ PN = {1} /\ mode = 0
  /\ script = <<>> /\ tries = 1 /\ PNumberFlag = {} /\ caFifo = <<>>
  /\ readings = <<>> /\ returned = "ok" /\ caCalls = 0
  /\ asked = <<>> /\ due = <<>> /\ opr = {1} /\ mds = 0
  /\ done = {} /\ quiet = TRUE /\ unsure = FALSE /\ faults = 0

-----------------------------------------------------------------------------

\* What the functions do.  READ is COMRunCommond_getData, READS the loop of it
\* in COMCA310_QueryPNumber, COM the COM,1 that is tried again and SET stands
\* for every command that only needs an OK: COM,1 itself, FSC, MCH, SCS, ZRC...
Measure == <<"MDS", "MES">>

Script(f, ps) ==
  CASE f = "init"  -> <<"COM", "SET", "SET">>
    [] f = "query" -> <<"OPR", "MDS", "MES", "READS">>
    [] f = "get"   -> (IF ps = PNumberFlag THEN <<>> ELSE <<"SET", "OPR">>)
                        \o Measure \o [k \in 1 .. Cardinality(ps) - 1 |-> "READ"]
    [] f = "plain" -> <<"SET">>

Functions == {"init", "query", "get", "plain"}

Step == Head(script)

Reads == Step \in {"READ", "READS"}

CaCall(f, ps, m) ==
  /\ caPc = "idle" /\ caCalls < MaxCaCalls
  /\ caPc' = "send" /\ fn' = f /\ PN' = ps /\ mode' = m /\ caCalls' = caCalls + 1
  /\ script' = Script(f, ps) /\ tries' = 1 /\ readings' = <<>>
  /\ done' = {} /\ quiet' = TRUE
  /\ UNCHANGED <<PNumberFlag, caFifo, returned, instrument, unsure, faults>>

\* Mutant of Flushed: what came since the last answer stays in the FIFO.
FlushedNot == caFifo

\* myFIFORead into recive, which is as large as the FIFO.
Flushed == <<>>

\* COMRunCommond up to its loop; COMRunCommond_getData only has the loop.
Run ==
  /\ caPc = "send" /\ caPc' = "await"
  /\ IF Reads
     THEN UNCHANGED <<caFifo, asked, quiet, unsure>>
     ELSE /\ caFifo' = Flushed
          /\ asked' = Append(asked, [op |-> Step, tag |-> caCalls,
                                     probes |-> IF fn = "query" THEN Probes ELSE PN,
                                     mode |-> IF fn = "query" THEN 0 ELSE mode])
          /\ quiet' = (quiet /\ asked = <<>> /\ due = <<>>)
          /\ unsure' = (unsure \/ (Step = "OPR" /\ fn = "query"))
  /\ UNCHANGED <<fn, PN, mode, script, tries, PNumberFlag, readings, returned, caCalls,
                 due, opr, mds, done, faults>>

Return310(r) == caPc' = "idle" /\ returned' = r /\ UNCHANGED <<script, tries>>

Again == Step = "COM" /\ tries < MaxTries

\* The step has failed: COM,1 is tried again, the loop over the probes ends,
\* and everything else gives up.
Fails ==
  IF Again THEN caPc' = "send" /\ tries' = tries + 1 /\ UNCHANGED <<script, returned>>
  ELSE Return310(IF Step = "READS" THEN "ok" ELSE "failed")

Succeeds ==
  IF Step = "READS" THEN UNCHANGED <<caPc, script, tries, returned>>
  ELSE IF Len(script) = 1 THEN Return310("ok")
  ELSE /\ script' = Tail(script) /\ tries' = 1
       /\ caPc' = "send" /\ UNCHANGED returned

\* Mutant of Chosen: the flag is set when OPR was sent, refused or not.
ChosenAnyway(a) == IF Step = "OPR" /\ fn = "get" THEN PN ELSE PNumberFlag

\* COMCA310_QueryPNumber also sends OPR, and leaves the flag alone.
Chosen(a) == IF Step = "OPR" /\ fn = "get" /\ a.ok THEN PN ELSE PNumberFlag

\* A line is complete.  COMCA310_QueryPNumber gives up on one that has no probe's
\* number where it looks; the others read any OK as a measurement.
Hears ==
  LET a == Head(caFifo) IN
  /\ caPc = "await" /\ caFifo # <<>>
  /\ caFifo' = Tail(caFifo)
  /\ PNumberFlag' = Chosen(a)
  /\ unsure' = IF Step = "OPR" /\ fn = "get"
               THEN ~quiet \/ a.op # "OPR" \/ (~a.ok /\ unsure)
               ELSE unsure
  /\ IF a.ok
     THEN \/ Succeeds
          \/ fn = "query" /\ Step \in {"MES", "READS"} /\ a.op # "MES" /\ Return310("failed")
     ELSE Fails
  /\ readings' = IF a.ok /\ Step \in {"MES", "READ", "READS"}
                 THEN Append(readings, a) ELSE readings
  /\ UNCHANGED <<fn, PN, mode, caCalls, instrument, done, quiet, faults>>

Cut == [op |-> "cut", ok |-> FALSE, tag |-> 0, probe |-> 0, mode |-> 0]

\* Mutant of Expires: COMRunCommond_getData waits as long as it takes.
ExpiresForCommands == caPc = "await" /\ caFifo = <<>> /\ ~Reads

Expires == caPc = "await" /\ caFifo = <<>>

\* The time is up: in silence, or before an answer that is late; if it has begun
\* to come, its end will be a line of its own.
TimesOut ==
  /\ Expires
  /\ \/ asked = <<>> /\ due = <<>> /\ UNCHANGED <<due, faults>>
     \/ /\ asked # <<>> \/ due # <<>>
        /\ faults < MaxFaults /\ faults' = faults + 1
        /\ due' \in {due} \cup (IF due = <<>> THEN {} ELSE {<<Cut>> \o Tail(due)})
  /\ unsure' = (unsure \/ Step = "OPR")
  /\ Fails
  /\ UNCHANGED <<fn, PN, mode, PNumberFlag, caFifo, readings, caCalls,
                 asked, opr, mds, done, quiet>>

-----------------------------------------------------------------------------

Reply310(c, ok, p) == [op |-> c.op, ok |-> ok, tag |-> c.tag, probe |-> p, mode |-> mds]

\* Probes in the order of their numbers.
Ordered(ps) ==
  CHOOSE s \in [1..Cardinality(ps) -> ps] : \A k, l \in DOMAIN s : k < l => s[k] < s[l]

\* The instrument carries out a command, MES with each probe that is on.
Obeys ==
  /\ asked # <<>> /\ due = <<>>
  /\ LET c == Head(asked) IN
     /\ asked' = Tail(asked)
     /\ opr' = IF c.op = "OPR" THEN c.probes ELSE opr
     /\ mds' = IF c.op = "MDS" THEN c.mode ELSE mds
     /\ due' = IF c.op = "MES"
               THEN [k \in 1 .. Cardinality(opr) |-> Reply310(c, TRUE, Ordered(opr)[k])]
               ELSE <<Reply310(c, TRUE, 0)>>
     /\ done' = IF c.tag = caCalls THEN done \cup {c.op} ELSE done
  /\ UNCHANGED <<host, quiet, unsure, faults>>

Answers310 ==
  /\ due # <<>>
  /\ caFifo' = Append(caFifo, Head(due)) /\ due' = Tail(due)
  /\ UNCHANGED <<caPc, fn, PN, mode, script, tries, PNumberFlag, readings, returned, caCalls,
                 asked, opr, mds, done, quiet, unsure, faults>>

\* It refuses a command; a command or an answer is lost; it is switched off and on.
Refuses ==
  /\ asked # <<>> /\ due = <<>>
  /\ asked' = Tail(asked) /\ due' = <<Reply310(Head(asked), FALSE, 0)>>
  /\ UNCHANGED <<opr, mds, quiet, unsure>>

Loses ==
  /\ \/ asked # <<>> /\ asked' = Tail(asked) /\ UNCHANGED due
     \/ due # <<>> /\ due' = Tail(due) /\ UNCHANGED asked
  /\ UNCHANGED <<opr, mds, quiet, unsure>>

Restarts ==
  /\ asked' = <<>> /\ due' = <<>> /\ opr' = {1} /\ mds' = 0
  /\ unsure' = TRUE /\ quiet' = FALSE

Fault ==
  /\ faults < MaxFaults /\ faults' = faults + 1
  /\ Refuses \/ Loses \/ Restarts
  /\ UNCHANGED <<host, done>>

-----------------------------------------------------------------------------

CaHost == Run \/ Hears \/ TimesOut

CaNext ==
  \/ \E f \in Functions, ps \in (SUBSET Probes) \ {{}}, m \in Modes : CaCall(f, ps, m)
  \/ CaHost \/ Obeys \/ Answers310 \/ Fault

CaSpec == CaInit /\ [][CaNext]_caVars

\* The program runs, its clock does, and what is on the line arrives.
CaFairSpec == CaSpec /\ WF_caVars(CaHost) /\ WF_caVars(Obeys) /\ WF_caVars(Answers310)

-----------------------------------------------------------------------------

Answer310 ==
  [op : {"COM", "SET", "OPR", "MDS", "MES", "cut"}, ok : BOOLEAN, tag : 0..MaxCaCalls,
   probe : {0} \cup Probes, mode : Modes]

CaTypeOK ==
  /\ caPc \in {"idle", "send", "await"} /\ fn \in Functions
  /\ PN \in (SUBSET Probes) \ {{}} /\ mode \in Modes
  /\ caPc # "idle" => script # <<>>
  /\ tries \in 1..MaxTries /\ PNumberFlag \subseteq Probes
  /\ caFifo \in Seq(Answer310) /\ due \in Seq(Answer310) /\ readings \in Seq(Answer310)
  /\ returned \in {"ok", "failed"} /\ caCalls \in 0..MaxCaCalls
  /\ opr \in (SUBSET Probes) \ {{}} /\ mds \in Modes
  /\ done \subseteq {"COM", "SET", "OPR", "MDS", "MES"}
  /\ quiet \in BOOLEAN /\ unsure \in BOOLEAN /\ faults \in 0..MaxFaults

\* commonCa310.c:327-342: when the next measurement leaves OPR out, the probes
\* it is about are the ones that will answer: whichever commands were refused,
\* lost or late before, unless it was an OPR that timed out or was sent amid late
\* answers, COMCA310_QueryPNumber was called, or the instrument was switched off.
FlagTellsTruth ==
  caPc = "idle" /\ PNumberFlag # {} /\ ~unsure => opr = PNumberFlag

\* commonCa310.c:108-131, 304-366: a call that finds the line quiet whenever it
\* sends a command, and succeeds, has had its commands carried out; what it
\* reports was measured for it, by each probe it asked, in order and in its
\* mode, whatever late or cut lines earlier calls left in the FIFO.
CallIsExact ==
  caPc = "idle" /\ caCalls > 0 /\ returned = "ok" /\ quiet /\ (unsure => fn # "get") =>
    CASE fn = "get" ->
           readings = [k \in 1 .. Cardinality(PN) |->
                         [op |-> "MES", ok |-> TRUE, tag |-> caCalls,
                          probe |-> Ordered(PN)[k], mode |-> mode]]
      [] fn = "query" -> \A k \in DOMAIN readings : readings[k].tag = caCalls /\ readings[k].op = "MES"
      [] fn = "init" -> {"COM", "SET"} \subseteq done
      [] fn = "plain" -> "SET" \in done

\* Every call returns: the line's silence is counted, COM,1 is tried so often
\* only, and the loop that counts the probes ends when no more answer.
EveryCaCallReturns == caPc # "idle" ~> caPc = "idle"
=============================================================================
