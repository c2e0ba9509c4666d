------------------------------ MODULE SysTick ------------------------------
(***************************************************************************)
(* bsp/stm32Lib/f103/SYS/SysTick.c (f4/sys/systick.c is the same): the     *)
(* timed tasks that SysTick_Handler runs, one at most per tick, and        *)
(* Sys_CreateTask, which the tick may interrupt between its assignments.   *)
(*                                                                         *)
(* The handler runs to its end, the task included: it switches its own     *)
(* interrupt off, so what a long task costs is ticks that are never        *)
(* counted.                                                                *)
(***************************************************************************)
EXTENDS Integers

CONSTANTS
  MaxTask,      \* MAX_TASK
  Periods,      \* the values of td; 0 is no task
  TickCap       \* bound: where the history's counts of ticks stop

ASSUME TickAssumption ==
  /\ MaxTask \in Nat /\ TickCap \in Nat
  /\ Periods \subseteq 0..TickCap /\ 0 \in Periods

Tasks == 1..MaxTask

VARIABLES
  td,       \* sg_task[i].td
  hasFp,    \* sg_task[i].fp has been assigned
  cnt,      \* task_time_cnt
  making,   \* the task Sys_CreateTask works on, 0 when it is not running
  newTd,    \* its td
  made,     \* which of its three assignments are done
  ran,      \* history: the task the last tick ran, or 0
  since,    \* history: per task, the ticks since it last ran or was created
  calm      \* history: the ticks since the last Sys_CreateTask returned

tickVars == <<td, hasFp, cnt, making, newTd, made, ran, since, calm>>

\* Tasks are created after SysTick_Init, by code that runs below the tick.
TickInit ==
  /\ td = [i \in Tasks |-> 0] /\ cnt = [i \in Tasks |-> 0]
  /\ hasFp = [i \in Tasks |-> FALSE]
  /\ making = 0 /\ newTd = 0 /\ made = 0
  /\ ran = 0 /\ since = [i \in Tasks |-> 0] /\ calm = 0

Later(n) == IF n < TickCap THEN n + 1 ELSE n

Decrement(n) == IF n > 0 THEN n - 1 ELSE n

\* Mutant of Due: a counter that gets to zero in this tick is due in it.
DueEarly == {i \in Tasks : cnt[i] <= 1 /\ td[i] # 0}

Due == {i \in Tasks : cnt[i] = 0 /\ td[i] # 0}

\* Mutant of Reached: the counters behind the task that runs are decremented
\* too, and two tasks of period 1 keep the third waiting for ever.
ReachedAll(i, r) == i # r

\* The for loop gets to task i and goes on: r is the task it stops at, or 0.
Reached(i, r) == r = 0 \/ i < r

\* Task r is the first the loop finds at zero; 0 when there is none.
HandlerRuns(r) ==
  IF Due = {} THEN r = 0 ELSE r \in Due /\ \A i \in Due : r <= i

SysTick_Handler ==
  \E r \in {0} \cup Tasks :
    /\ HandlerRuns(r)
    /\ cnt' = [i \in Tasks |-> IF i = r THEN td[i]
                               ELSE IF Reached(i, r) THEN Decrement(cnt[i])
                               ELSE cnt[i]]
    /\ ran' = r
    /\ since' = [i \in Tasks |-> IF i = r THEN 0 ELSE Later(since[i])]
    /\ calm' = Later(calm)
    /\ UNCHANGED <<td, hasFp, making, newTd, made>>

CreateBegin(i, p) ==
  /\ making = 0
  /\ making' = i /\ newTd' = p /\ made' = 0 /\ ran' = 0 /\ calm' = 0
  /\ UNCHANGED <<td, hasFp, cnt, since>>

\* Mutant of CreateStep: the period is stored before the function.
CreateStepPeriodFirst ==
  /\ making # 0
  /\ \/ /\ made = 0 /\ made' = 1
        /\ td' = [td EXCEPT ![making] = newTd]
        /\ UNCHANGED <<hasFp, cnt, making, since>>
     \/ /\ made = 1 /\ made' = 2
        /\ hasFp' = [hasFp EXCEPT ![making] = TRUE]
        /\ UNCHANGED <<td, cnt, making, since>>
     \/ /\ made = 2 /\ made' = 0 /\ making' = 0
        /\ cnt' = [cnt EXCEPT ![making] = newTd]
        /\ since' = [since EXCEPT ![making] = 0]
        /\ UNCHANGED <<td, hasFp>>
  /\ ran' = 0 /\ calm' = 0
  /\ UNCHANGED newTd

\* Sys_CreateTask, an assignment at a time.
CreateStep ==
  /\ making # 0
  /\ \/ /\ made = 0 /\ made' = 1
        /\ hasFp' = [hasFp EXCEPT ![making] = TRUE]
        /\ UNCHANGED <<td, cnt, making, since>>
     \/ /\ made = 1 /\ made' = 2
        /\ td' = [td EXCEPT ![making] = newTd]
        /\ UNCHANGED <<hasFp, cnt, making, since>>
     \/ /\ made = 2 /\ made' = 0 /\ making' = 0
        /\ cnt' = [cnt EXCEPT ![making] = newTd]
        /\ since' = [since EXCEPT ![making] = 0]
        /\ UNCHANGED <<td, hasFp>>
  /\ ran' = 0 /\ calm' = 0
  /\ UNCHANGED newTd

Create == (\E i \in Tasks, p \in Periods : CreateBegin(i, p)) \/ CreateStep

TickNext == SysTick_Handler \/ Create

TickSpec == TickInit /\ [][TickNext]_tickVars

\* The timer keeps ticking.
TickFairSpec == TickSpec /\ WF_tickVars(SysTick_Handler)

-----------------------------------------------------------------------------

TickTypeOK ==
  /\ td \in [Tasks -> Periods] /\ newTd \in Periods
  /\ hasFp \in [Tasks -> BOOLEAN]
  /\ cnt \in [Tasks -> Nat]
  /\ making \in {0} \cup Tasks /\ made \in 0..2 /\ ran \in {0} \cup Tasks
  /\ since \in [Tasks -> 0..TickCap] /\ calm \in 0..TickCap

\* SysTick.c:72: the handler never calls through a pointer that has not been
\* assigned, wherever it interrupts Sys_CreateTask.
OnlyCallsFunctions == ran # 0 => hasFp[ran]

\* SysTick.c:61-76: however the tasks before it hold it up, a task that is not
\* being created does not run before its td milliseconds have passed.
NeverTooSoon ==
  [][\A t \in Tasks : ran' = t /\ making # t => since[t] >= td[t]]_tickVars

\* SysTick.c:73: the break holds up the counters behind the task that runs, but
\* each task lets every other tick through at least, so the k-th runs at least
\* every 2^(k-1) * (td + 1) ticks once no task is being created.
StretchBounded ==
  \A i \in Tasks : td[i] # 0 /\ making = 0 =>
    \/ since[i] < 2^(i - 1) * (td[i] + 1)
    \/ calm < 2^(i - 1) * (td[i] + 1)
=============================================================================
