--------------------------- MODULE Devices_proofs ---------------------------
(***************************************************************************)
(* Proofs about the tick scheduler (SysTick), about writing to the flash   *)
(* inside the processor (StmFlash) and to a serial flash chip (W25Qxx),    *)
(* and about the three layers of the CAN software: the nodes of a board    *)
(* whose bus driver searches a table of banks (CanBus), the filter a node  *)
(* asks the controller for (CanFilter), and the list of nodes that get the *)
(* pieces of a write (CanLink).                                            *)
(***************************************************************************)
EXTENDS SysTick, StmFlash, W25Qxx, CanBus, CanFilter, CanLink, Lemmas, FiniteSetTheorems,
        FunctionTheorems

-----------------------------------------------------------------------------
(***************************************************************************)
(* SysTick: for any number of tasks and any periods, the handler calls only*)
(* functions, no task runs before its time, and none is held up for longer *)
(* than the tasks before it can.                                           *)
(***************************************************************************)

\* Sys_CreateTask has done what made says for the task it works on.
CreateInv ==
  /\ made # 0 => making # 0 /\ hasFp[making]
  /\ made = 2 => td[making] = newTd

\* A task with a period has a function.
FunctionInv == \A t \in Tasks : td[t] # 0 => hasFp[t]

\* What is left on a task's counter and what has passed add up to its period.
CounterInv == \A t \in Tasks : making # t => since[t] + cnt[t] >= td[t]

TickInv ==
  /\ TickTypeOK
  /\ CreateInv
  /\ FunctionInv
  /\ OnlyCallsFunctions
  /\ CounterInv

-----------------------------------------------------------------------------

\* Periods are numbers no greater than the bound of the history's counts.
LEMMA PeriodsAreSmall ==
  \A p \in Periods : p \in Nat /\ p <= TickCap
BY TickAssumption

\* Counting stops at the cap.
LEMMA LaterGrows ==
  ASSUME NEW n \in 0..TickCap
  PROVE  /\ Later(n) \in 0..TickCap
         /\ n < TickCap => Later(n) = n + 1
         /\ n = TickCap => Later(n) = TickCap
BY TickAssumption DEF Later

\* The invariant holds before the first task is made.
LEMMA TickStarts == TickInit => TickInv
<1> SUFFICES ASSUME TickInit PROVE TickInv
  OBVIOUS
<1>1. TickTypeOK
  BY TickAssumption DEF TickInit, TickTypeOK
<1>2. CreateInv /\ OnlyCallsFunctions
  BY DEF TickInit, CreateInv, OnlyCallsFunctions
<1>3. FunctionInv /\ CounterInv
  BY DEF TickInit, FunctionInv, CounterInv
<1> QED
  BY <1>1, <1>2, <1>3 DEF TickInv

-----------------------------------------------------------------------------

\* What a tick does to task t: it runs, or its counter stays or goes down by one
\* while another tick has passed.
LEMMA OneTick ==
  ASSUME TickInv, SysTick_Handler, NEW t \in Tasks
  PROVE  \/ /\ ran' = t /\ cnt[t] = 0 /\ td[t] # 0
            /\ cnt'[t] = td[t] /\ since'[t] = 0
         \/ /\ ran' # t /\ since'[t] = Later(since[t])
            /\ cnt'[t] \in Nat /\ cnt'[t] + 1 >= cnt[t]
<1>1. PICK r \in {0} \cup Tasks :
        /\ HandlerRuns(r)
        /\ cnt' = [j \in Tasks |-> IF j = r THEN td[j]
                                   ELSE IF Reached(j, r) THEN Decrement(cnt[j])
                                   ELSE cnt[j]]
        /\ ran' = r
        /\ since' = [j \in Tasks |-> IF j = r THEN 0 ELSE Later(since[j])]
  BY DEF SysTick_Handler
<1>2. cnt[t] \in Nat
  BY DEF TickInv, TickTypeOK
<1>3. CASE r = t
  <2>1. t \in Due
    BY <1>1, <1>3 DEF HandlerRuns, Tasks
  <2> QED
    BY <1>1, <1>3, <2>1 DEF Due
<1>4. CASE r # t
  BY <1>1, <1>2, <1>4 DEF Decrement
<1> QED
  BY <1>3, <1>4

\* A tick.
LEMMA HandlerKeeps ==
  ASSUME TickInv, SysTick_Handler
  PROVE  TickInv'
<1>1. UNCHANGED <<td, hasFp, making, newTd, made>>
  BY DEF SysTick_Handler
<1>2. /\ cnt' = [j \in Tasks |-> cnt'[j]]
      /\ since' = [j \in Tasks |-> since'[j]]
      /\ ran' \in {0} \cup Tasks
  BY DEF SysTick_Handler
<1>3. calm' \in 0..TickCap
  BY LaterGrows DEF SysTick_Handler, TickInv, TickTypeOK
<1>4. \A t \in Tasks : td[t] \in Nat /\ td[t] <= TickCap /\ since[t] \in 0..TickCap /\ cnt[t] \in Nat
  BY PeriodsAreSmall DEF TickInv, TickTypeOK
<1>5. ASSUME NEW t \in Tasks
      PROVE  /\ cnt'[t] \in Nat /\ since'[t] \in 0..TickCap
             /\ making # t => since'[t] + cnt'[t] >= td[t]
  <2>1. CASE ran' = t
    BY <1>4, <2>1, OneTick, TickAssumption
  <2>2. CASE ran' # t
    <3>1. since'[t] = Later(since[t]) /\ cnt'[t] \in Nat /\ cnt'[t] + 1 >= cnt[t]
      BY <2>2, OneTick
    <3>2. making # t => since[t] + cnt[t] >= td[t]
      BY DEF TickInv, CounterInv
    <3> QED
      BY <1>4, <3>1, <3>2, LaterGrows, TickAssumption
  <2> QED
    BY <2>1, <2>2
<1>6. TickTypeOK'
  BY <1>1, <1>2, <1>3, <1>5 DEF TickInv, TickTypeOK
<1>7. CreateInv' /\ FunctionInv'
  BY <1>1 DEF TickInv, CreateInv, FunctionInv
<1>8. OnlyCallsFunctions'
  <2>1. ASSUME ran' # 0 PROVE hasFp[ran']
    BY <1>2, <2>1, OneTick DEF TickInv, FunctionInv
  <2> QED
    BY <1>1, <2>1 DEF OnlyCallsFunctions
<1>9. CounterInv'
  BY <1>1, <1>5 DEF CounterInv
<1> QED
  BY <1>6, <1>7, <1>8, <1>9 DEF TickInv

\* A task is made: Sys_CreateTask is called, ...
LEMMA CreateBeginKeeps ==
  ASSUME TickInv, NEW t \in Tasks, NEW p \in Periods, CreateBegin(t, p)
  PROVE  TickInv'
<1>1. TickTypeOK'
  BY TickAssumption DEF TickInv, TickTypeOK, CreateBegin
<1>2. CreateInv' /\ FunctionInv' /\ OnlyCallsFunctions'
  BY DEF TickInv, CreateInv, FunctionInv, OnlyCallsFunctions, CreateBegin
<1>3. CounterInv'
  BY DEF TickInv, CounterInv, CreateBegin, Tasks
<1> QED
  BY <1>1, <1>2, <1>3 DEF TickInv

\* ... and makes its assignments, one after the other.
LEMMA CreateStepKeeps ==
  ASSUME TickInv, CreateStep
  PROVE  TickInv'
<1>1. making \in Tasks /\ newTd \in Periods /\ newTd \in Nat
  BY PeriodsAreSmall DEF TickInv, TickTypeOK, CreateStep
<1>2. TickTypeOK'
  <2>1. CASE made = 0
    <3>1. hasFp' = [hasFp EXCEPT ![making] = TRUE]
      BY <2>1 DEF CreateStep
    <3>2. hasFp' \in [Tasks -> BOOLEAN]
      BY <3>1 DEF TickInv, TickTypeOK
    <3>3. UNCHANGED <<td, newTd, cnt, making, since>> /\ made' = 1 /\ ran' = 0 /\ calm' = 0
      BY <2>1 DEF CreateStep
    <3> QED
      BY <3>2, <3>3, TickAssumption DEF TickInv, TickTypeOK
  <2>2. CASE made = 1
    BY <1>1, <2>2, TickAssumption DEF TickInv, TickTypeOK, CreateStep
  <2>3. CASE made = 2
    BY <1>1, <2>3, TickAssumption DEF TickInv, TickTypeOK, CreateStep
  <2> QED
    BY <2>1, <2>2, <2>3 DEF CreateStep
<1>3. CreateInv'
  <2>1. CASE made = 0
    <3>1. made' = 1 /\ making' = making /\ hasFp' = [hasFp EXCEPT ![making] = TRUE]
      BY <2>1 DEF CreateStep
    <3>2. hasFp'[making]
      BY <1>1, <3>1 DEF TickInv, TickTypeOK
    <3> QED
      BY <1>1, <3>1, <3>2 DEF CreateInv, Tasks
  <2>2. CASE made = 1
    <3>1. /\ made' = 2 /\ making' = making /\ hasFp' = hasFp /\ newTd' = newTd
          /\ td' = [td EXCEPT ![making] = newTd]
      BY <2>2 DEF CreateStep
    <3>2. making # 0 /\ hasFp[making]
      BY <2>2 DEF TickInv, CreateInv
    <3>3. td'[making] = newTd
      BY <1>1, <3>1 DEF TickInv, TickTypeOK
    <3> QED
      BY <3>1, <3>2, <3>3 DEF CreateInv
  <2>3. CASE made = 2
    BY <1>1, <2>3 DEF CreateInv, CreateStep
  <2> QED
    BY <2>1, <2>2, <2>3 DEF CreateStep
<1>4. FunctionInv'
  <2> SUFFICES ASSUME NEW t \in Tasks, td'[t] # 0
               PROVE  hasFp'[t]
    BY DEF FunctionInv
  <2>1. CASE made = 0
    BY <1>1, <2>1 DEF TickInv, TickTypeOK, FunctionInv, CreateStep
  <2>2. CASE made = 1
    BY <1>1, <2>2 DEF TickInv, TickTypeOK, CreateInv, FunctionInv, CreateStep
  <2>3. CASE made = 2
    BY <1>1, <2>3 DEF TickInv, FunctionInv, CreateStep
  <2> QED
    BY <2>1, <2>2, <2>3 DEF CreateStep
<1>5. OnlyCallsFunctions'
  BY DEF OnlyCallsFunctions, CreateStep
<1>6. CounterInv'
  <2> SUFFICES ASSUME NEW t \in Tasks, making' # t
               PROVE  since'[t] + cnt'[t] >= td'[t]
    BY DEF CounterInv
  <2>1. CASE t = making
    BY <1>1, <2>1 DEF TickInv, TickTypeOK, CreateInv, CreateStep
  <2>2. CASE t # making
    BY <1>1, <2>2 DEF TickInv, TickTypeOK, CounterInv, CreateStep
  <2> QED
    BY <2>1, <2>2
<1> QED
  BY <1>2, <1>3, <1>4, <1>5, <1>6 DEF TickInv

\* Every step keeps the invariant.
LEMMA TickGoesOn == TickInv /\ [TickNext]_tickVars => TickInv'
<1> SUFFICES ASSUME TickInv, [TickNext]_tickVars PROVE TickInv'
  OBVIOUS
<1>1. CASE TickNext
  BY <1>1, HandlerKeeps, CreateBeginKeeps, CreateStepKeeps DEF TickNext, Create
<1>2. CASE UNCHANGED tickVars
  BY <1>2 DEF tickVars, TickInv, TickTypeOK, CreateInv, FunctionInv, OnlyCallsFunctions, CounterInv
<1> QED
  BY <1>1, <1>2

\* The invariant holds in every state.
LEMMA TickAlways == TickSpec => []TickInv
<1> QED
  BY TickStarts, TickGoesOn, PTL DEF TickSpec

-----------------------------------------------------------------------------

\* SysTick.c:49-86, 131-136: the table, the counters and Sys_CreateTask's progress
\* keep their types for any number of tasks and any periods.
THEOREM TickTypeCorrect == TickSpec => []TickTypeOK
<1>1. TickInv => TickTypeOK
  BY DEF TickInv
<1> QED
  BY <1>1, TickAlways, PTL

\* SysTick.c:72: whatever task table and wherever the tick interrupts
\* Sys_CreateTask, the handler never calls an unassigned pointer.
THEOREM CallsAreSafe == TickSpec => []OnlyCallsFunctions
<1>1. TickInv => OnlyCallsFunctions
  BY DEF TickInv
<1> QED
  BY <1>1, TickAlways, PTL

\* SysTick.c:61-76: for any number of tasks and any periods, no task that is not
\* being created runs before its period has passed.
THEOREM NoTaskIsEarly == TickSpec => NeverTooSoon
<1>1. ASSUME TickInv, [TickNext]_tickVars, NEW t \in Tasks, ran' = t, making # t, ~UNCHANGED tickVars
      PROVE  since[t] >= td[t]
  <2>1. SysTick_Handler
    BY <1>1 DEF TickNext, Create, CreateBegin, CreateStep, Tasks
  <2>2. cnt[t] = 0
    BY <1>1, <2>1, OneTick
  <2> QED
    BY <1>1, <2>2 DEF TickInv, CounterInv, TickTypeOK
<1>2. TickInv /\ [TickNext]_tickVars =>
        [\A t \in Tasks : ran' = t /\ making # t => since[t] >= td[t]]_tickVars
  BY <1>1
<1> QED
  BY <1>2, TickAlways, PTL DEF TickSpec, NeverTooSoon

-----------------------------------------------------------------------------

\* The powers of two count the subsets of an interval, and so they double.
LEMMA PowersDouble ==
  ASSUME NEW n \in Nat
  PROVE  2^n \in Nat /\ 2^(n + 1) = 2 * 2^n
<1> DEFINE A == 1..n
           B == 1..(n + 1)
           P == SUBSET A
           Q == {S \in SUBSET B : n + 1 \in S}
           f == [S \in P |-> S \cup {n + 1}]
<1>1. IsFiniteSet(A) /\ Cardinality(A) = n /\ IsFiniteSet(B) /\ Cardinality(B) = n + 1
  BY FS_Interval
<1>2. B = A \cup {n + 1} /\ n + 1 \notin A
  OBVIOUS
<1>3. /\ IsFiniteSet(P) /\ Cardinality(P) = 2^n /\ Cardinality(P) \in Nat
      /\ Cardinality(SUBSET B) = 2^(n + 1)
  BY <1>1, FS_SUBSET, FS_CardinalityType
<1> HIDE DEF A, B
<1>4. SUBSET B = P \cup Q /\ P \cap Q = {}
  BY <1>2
<1>5. f \in Bijection(P, Q)
  <2>1. f \in [P -> Q]
    BY <1>2
  <2>2. ASSUME NEW S \in P, NEW T \in P, f[S] = f[T] PROVE S = T
    BY <1>2, <2>2
  <2>3. ASSUME NEW T \in Q PROVE \E S \in P : f[S] = T
    <3>1. T \ {n + 1} \in P /\ (T \ {n + 1}) \cup {n + 1} = T
      BY <1>2
    <3> QED
      BY <3>1
  <2> HIDE DEF f, P, Q
  <2> QED
    BY <2>1, <2>2, <2>3, Fun_IsBij
<1> HIDE DEF P, Q, f
<1>6. IsFiniteSet(Q) /\ Cardinality(Q) = 2^n
  BY <1>3, <1>5, FS_Bijection DEF ExistsBijection
<1>7. Cardinality(P \cup Q) = Cardinality(P) + Cardinality(Q) - Cardinality(P \cap Q)
  BY <1>3, <1>6, FS_Union
<1>8. Cardinality(P \cap Q) = 0
  BY <1>4, FS_EmptySet
<1>9. 2^(n + 1) = 2^n + 2^n - 0
  BY <1>3, <1>4, <1>6, <1>7, <1>8
<1>10. 2^n \in Nat
  BY <1>3
<1> DEFINE m == 2^n
<1>11. m \in Nat /\ 2^(n + 1) = m + m - 0
  BY <1>9, <1>10
<1> HIDE DEF m
<1>12. 2^(n + 1) = 2 * m
  BY <1>11
<1> QED
  BY <1>10, <1>12 DEF m

\* The loop gets to task t in one of so many ticks.
Span(t) == 2^(t - 1)

\* Span doubles from one task to the next.
LEMMA Spans ==
  /\ Span(1) = 1
  /\ \A t \in Tasks : Span(t) \in Nat
  /\ \A t, k \in Tasks : k = t + 1 => Span(k) = 2 * Span(t)
<1>1. Span(1) = 1
  BY DEF Span
<1>2. ASSUME NEW t \in Tasks PROVE Span(t) \in Nat /\ Span(t + 1) = 2 * Span(t)
  <2> DEFINE n == t - 1
  <2>1. n \in Nat /\ (t + 1) - 1 = n + 1
    BY TickAssumption DEF Tasks
  <2> HIDE DEF n
  <2>2. 2^n \in Nat /\ 2^(n + 1) = 2 * 2^n
    BY <2>1, PowersDouble
  <2> QED
    BY <2>1, <2>2 DEF Span, n
<1> QED
  BY <1>1, <1>2

\* Counters are within the periods, but for the task that is being created.
WithinInv == \A t \in Tasks : making # t => cnt[t] <= td[t]

\* w[t] is how long ago the loop got to task t: since then some task before it
\* has run in every tick, and the one that holds it up has to let the next tick
\* through that gets to it.  So w[t] stays below Span(t), and by the time td[t] -
\* cnt[t] ticks have got to task t no more than Span(t) times as many have passed.
Waited(w) ==
  /\ w \in [Tasks -> Nat]
  /\ \A t \in Tasks : t = 1 => w[t] = 0
  /\ \A t, k \in Tasks : k = t + 1 => w[k] <= w[t] + (IF t \in Due THEN 0 ELSE Span(t))

Budget(w, t) == Span(t) * (td[t] - cnt[t]) + w[t]

Afforded(w) ==
  making = 0 => \A t \in Tasks : td[t] # 0 => since[t] <= Budget(w, t) \/ calm <= Budget(w, t)

StretchInv == WithinInv /\ \E w : Waited(w) /\ Afforded(w)

\* The loop is not away from a task for as long as its span.
LEMMA NotAwayLong ==
  ASSUME NEW w, Waited(w)
  PROVE  \A t \in Tasks : w[t] < Span(t)
<1> SUFFICES ASSUME \E t \in Tasks : ~ (w[t] < Span(t)) PROVE FALSE
  OBVIOUS
<1> DEFINE Late == {t \in Tasks : ~ (w[t] < Span(t))}
<1>1. Late \subseteq Nat /\ Late # {}
  BY DEF Tasks
<1>2. PICK k \in Late : \A j \in Late : k <= j
  BY <1>1, LeastExists
<1>3. k \in Tasks /\ w[k] \in Nat /\ Span(k) \in Nat /\ w[k] >= Span(k)
  BY <1>2, Spans DEF Waited
<1>4. CASE k = 1
  <2>1. w[k] = 0 /\ Span(k) = 1
    BY <1>3, <1>4, Spans DEF Waited
  <2> QED
    BY <1>3, <2>1
<1>5. CASE k # 1
  <2> DEFINE t == k - 1
  <2>1. t \in Tasks /\ k = t + 1 /\ ~ (k <= t)
    BY <1>3, <1>5, TickAssumption DEF Tasks
  <2> HIDE DEF t
  <2>2. w[t] < Span(t)
    BY <1>2, <2>1
  <2>3. /\ w[k] <= w[t] + (IF t \in Due THEN 0 ELSE Span(t)) /\ Span(k) = 2 * Span(t)
        /\ w[t] \in Nat /\ Span(t) \in Nat
    BY <1>3, <2>1, Spans DEF Waited
  <2> QED
    BY <1>3, <2>2, <2>3
<1> QED
  BY <1>4, <1>5

\* What another tick that gets to the task adds to its budget.
LEMMA AnotherTurn ==
  ASSUME NEW s \in Nat, NEW p \in Nat, NEW c \in Nat, c <= p
  PROVE  /\ s * (p - c) \in Nat
         /\ c > 0 => s * (p - (c - 1)) = s * (p - c) + s
         /\ s * (p - c) + s <= s * (p + 1)
<1> DEFINE d == p - c
<1>1. d \in Nat /\ p = d + c
  OBVIOUS
<1> HIDE DEF d
<1>2. s * d \in Nat /\ s * c \in Nat
  BY <1>1
<1>3. s * (d + 1) = s * d + s /\ s * ((d + c) + 1) = s * d + s * c + s
  BY <1>1
<1>4. c > 0 => p - (c - 1) = d + 1
  BY <1>1
<1>5. p + 1 = (d + c) + 1
  BY <1>1
<1> QED
  BY <1>2, <1>3, <1>4, <1>5 DEF d

\* A tick: of the tasks before the one that runs, each has been got to and let
\* it through; those behind it wait for one tick more.
LEMMA TickStretches ==
  ASSUME TickTypeOK, StretchInv, SysTick_Handler
  PROVE  StretchInv'
<1>1. PICK r \in {0} \cup Tasks :
        /\ HandlerRuns(r)
        /\ cnt' = [j \in Tasks |-> IF j = r THEN td[j]
                                   ELSE IF Reached(j, r) THEN Decrement(cnt[j])
                                   ELSE cnt[j]]
        /\ since' = [j \in Tasks |-> IF j = r THEN 0 ELSE Later(since[j])]
        /\ calm' = Later(calm)
        /\ td' = td /\ making' = making
  BY DEF SysTick_Handler
<1>2. PICK w : Waited(w) /\ Afforded(w)
  BY DEF StretchInv
<1> DEFINE Before(j) == r = 0 \/ j < r
           u == [j \in Tasks |-> IF r = 0 \/ j <= r THEN 0 ELSE w[j] + 1]
<1>3. /\ \A j \in Tasks : /\ j \in Nat /\ j >= 1 /\ td[j] \in Nat /\ cnt[j] \in Nat
                          /\ since[j] \in Nat /\ w[j] \in Nat /\ Span(j) \in Nat /\ w[j] < Span(j)
      /\ \A j \in Tasks : making # j => cnt[j] <= td[j]
      /\ calm \in Nat
      /\ r # 0 => r \in Tasks
  <2>1. \A j \in Tasks : j \in Nat /\ j >= 1
    BY DEF Tasks
  <2>2. \A j \in Tasks : td[j] \in Nat /\ cnt[j] \in Nat /\ since[j] \in Nat
    BY PeriodsAreSmall DEF TickTypeOK
  <2>3. \A j \in Tasks : w[j] \in Nat /\ Span(j) \in Nat /\ w[j] < Span(j)
    BY <1>2, Spans, NotAwayLong DEF Waited
  <2>4. \A j \in Tasks : making # j => cnt[j] <= td[j]
    BY DEF StretchInv, WithinInv
  <2> QED
    BY <1>1, <2>1, <2>2, <2>3, <2>4 DEF TickTypeOK
<1>4. /\ r # 0 => r \in Due
      /\ \A j \in Tasks : Before(j) => j \notin Due
  <2>1. CASE r = 0
    <3>1. Due = {}
      BY <1>1, <2>1 DEF HandlerRuns, Due, Tasks
    <3> QED
      BY <2>1, <3>1
  <2>2. CASE r # 0
    <3>1. r \in Due /\ \A j \in Due : r <= j
      BY <1>1, <2>2 DEF HandlerRuns
    <3> QED
      BY <1>3, <2>2, <3>1
  <2> QED
    BY <2>1, <2>2
<1>5. ASSUME NEW j \in Tasks
      PROVE  /\ j = r => cnt'[j] = td[j] /\ since'[j] = 0 /\ td[j] # 0 /\ u[j] = 0
             /\ j # r /\ Before(j) => /\ since'[j] = Later(since[j]) /\ u[j] = 0
                                      /\ cnt'[j] = Decrement(cnt[j])
             /\ j # r /\ ~Before(j) => /\ since'[j] = Later(since[j]) /\ u[j] = w[j] + 1
                                       /\ cnt'[j] = cnt[j] /\ r # 0 /\ j > r
  <2>1. CASE j = r
    <3>1. j # 0
      BY <1>3
    <3> QED
      BY <1>1, <1>3, <1>4, <2>1, <3>1 DEF Due
  <2>2. CASE j # r /\ Before(j)
    BY <1>1, <1>3, <2>2 DEF Reached
  <2>3. CASE j # r /\ ~Before(j)
    BY <1>1, <1>3, <2>3 DEF Reached
  <2> QED
    BY <2>1, <2>2, <2>3
<1>6. u \in [Tasks -> Nat]
  BY <1>3
<1> HIDE DEF u
<1>7. WithinInv'
  <2>1. ASSUME NEW j \in Tasks, making' # j PROVE cnt'[j] <= td'[j]
    BY <1>1, <1>3, <1>5, <2>1 DEF Decrement
  <2> QED
    BY <2>1 DEF WithinInv
<1>8. ASSUME NEW t \in Tasks, NEW k \in Tasks, k = t + 1
      PROVE  u[k] <= u[t] + (IF t \in Due' THEN 0 ELSE Span(t))
  <2>1. w[k] <= w[t] + (IF t \in Due THEN 0 ELSE Span(t))
    BY <1>2, <1>8 DEF Waited
  <2>2. /\ t \in Nat /\ w[t] \in Nat /\ w[k] \in Nat /\ Span(t) \in Nat /\ w[t] < Span(t)
        /\ u[t] \in Nat /\ u[k] \in Nat
    BY <1>3, <1>6
  <2>3. CASE k = r \/ Before(k)
    <3>1. u[k] = 0
      BY <1>5, <2>3
    <3> QED
      BY <2>2, <3>1
  <2>4. CASE ~(k = r \/ Before(k))
    <3>1. u[k] = w[k] + 1 /\ k > r /\ r # 0 /\ r \in Tasks /\ r \in Nat
      BY <1>3, <1>5, <2>4
    <3>2. CASE t = r
      <4>1. t \in Due /\ u[t] = 0 /\ cnt'[t] # 0
        BY <1>3, <1>4, <1>5, <3>1, <3>2
      <4>2. t \notin Due'
        BY <4>1 DEF Due
      <4>3. u[k] <= Span(t)
        BY <2>1, <2>2, <3>1, <4>1
      <4> QED
        BY <4>1, <4>2, <4>3, <2>2
    <3>3. CASE t # r
      <4>1. t > r
        BY <1>8, <2>2, <3>1, <3>3
      <4>2. u[t] = w[t] + 1 /\ cnt'[t] = cnt[t]
        BY <1>5, <2>2, <3>1, <3>3, <4>1
      <4>3. t \in Due' <=> t \in Due
        BY <1>1, <4>2 DEF Due
      <4> QED
        BY <2>1, <2>2, <3>1, <4>2, <4>3
    <3> QED
      BY <3>2, <3>3
  <2> QED
    BY <2>3, <2>4
<1>9. Waited(u)'
  <2>1. \A t \in Tasks : t = 1 => u[t] = 0
    BY <1>3, <1>5
  <2> QED
    BY <1>6, <1>8, <2>1 DEF Waited
<1>10. ASSUME making = 0, NEW t \in Tasks, td[t] # 0
       PROVE  LET b == Span(t) * (td[t] - cnt'[t]) + u[t]
              IN  since'[t] <= b \/ calm' <= b
  <2> DEFINE s == Span(t)
             x == s * (td[t] - cnt[t])
             y == s * (td[t] - cnt'[t])
  <2>1. /\ s \in Nat /\ td[t] \in Nat /\ cnt[t] \in Nat /\ cnt[t] <= td[t] /\ w[t] \in Nat
        /\ w[t] < s /\ since[t] \in Nat /\ calm \in Nat
    BY <1>3, <1>10
  <2>2. x \in Nat
    BY <2>1, AnotherTurn
  <2>3. since[t] <= x + w[t] \/ calm <= x + w[t]
    BY <1>2, <1>10 DEF Afforded, Budget
  <2>4. Later(since[t]) \in Nat /\ Later(since[t]) <= since[t] + 1
        /\ Later(calm) \in Nat /\ Later(calm) <= calm + 1
    BY <2>1 DEF Later
  <2>5. CASE t = r
    <3>1. since'[t] = 0 /\ cnt'[t] = td[t] /\ u[t] = 0
      BY <1>5, <2>5
    <3>2. y = 0
      <4>1. td[t] - cnt'[t] = 0
        BY <2>1, <3>1
      <4> QED
        BY <2>1, <4>1
    <3> HIDE DEF y
    <3>3. since'[t] <= y + u[t]
      BY <3>1, <3>2
    <3> QED
      BY <3>3 DEF y
  <2>6. CASE t # r /\ Before(t)
    <3>1. cnt[t] # 0
      BY <1>4, <1>10, <2>6 DEF Due
    <3>2. cnt'[t] = cnt[t] - 1 /\ u[t] = 0 /\ since'[t] = Later(since[t])
      BY <1>5, <2>1, <2>6, <3>1 DEF Decrement
    <3>3. y = x + s
      <4>1. cnt[t] > 0
        BY <2>1, <3>1
      <4> HIDE DEF s
      <4>2. s * (td[t] - (cnt[t] - 1)) = s * (td[t] - cnt[t]) + s
        BY <2>1, <4>1, AnotherTurn
      <4> QED
        BY <3>2, <4>2, Zenon
    <3> HIDE DEF x, y, s
    <3>4. since'[t] <= y + u[t] \/ calm' <= y + u[t]
      BY <1>1, <2>1, <2>2, <2>3, <2>4, <3>2, <3>3
    <3> QED
      BY <3>4 DEF y, s
  <2>7. CASE t # r /\ ~Before(t)
    <3>1. cnt'[t] = cnt[t] /\ u[t] = w[t] + 1 /\ since'[t] = Later(since[t])
      BY <1>5, <2>7
    <3>2. y = x
      BY <3>1
    <3> HIDE DEF x, y, s
    <3>3. since'[t] <= y + u[t] \/ calm' <= y + u[t]
      BY <1>1, <2>1, <2>2, <2>3, <2>4, <3>1, <3>2
    <3> QED
      BY <3>3 DEF y, s
  <2> QED
    BY <2>5, <2>6, <2>7
<1>11. Afforded(u)'
  BY <1>1, <1>10 DEF Afforded, Budget
<1> QED
  BY <1>7, <1>9, <1>11 DEF StretchInv

\* While a task is being created nothing is promised, and when it has been the
\* count of the ticks starts again.
LEMMA CreateStretches ==
  ASSUME TickInv, StretchInv, Create
  PROVE  StretchInv'
<1>1. PICK w : Waited(w) /\ Afforded(w)
  BY DEF StretchInv
<1>2. /\ \A t \in Tasks : t \in Nat /\ t # 0 /\ td[t] \in Nat /\ cnt[t] \in Nat /\ Span(t) \in Nat
      /\ \A t \in Tasks : making # t => cnt[t] <= td[t]
      /\ td \in [Tasks -> Periods] /\ cnt \in [Tasks -> Nat]
  <2>1. \A t \in Tasks : td[t] \in Nat /\ cnt[t] \in Nat
    BY PeriodsAreSmall DEF TickInv, TickTypeOK
  <2>2. \A t \in Tasks : making # t => cnt[t] <= td[t]
    BY DEF StretchInv, WithinInv
  <2> QED
    BY <2>1, <2>2, Spans DEF TickInv, TickTypeOK, Tasks
<1>3. ASSUME NEW t \in Tasks, NEW p \in Periods, CreateBegin(t, p) PROVE StretchInv'
  <2>1. making = 0 /\ making' = t /\ td' = td /\ cnt' = cnt
    BY <1>3 DEF CreateBegin
  <2>2. WithinInv'
    BY <1>2, <2>1 DEF WithinInv
  <2>3. Waited(w)'
    BY <1>1, <2>1 DEF Waited, Due
  <2>4. Afforded(w)'
    BY <1>2, <2>1 DEF Afforded
  <2> QED
    BY <2>2, <2>3, <2>4 DEF StretchInv
<1>4. CASE CreateStep
  <2> DEFINE u == [t \in Tasks |-> 0]
  <2>1. u \in [Tasks -> Nat] /\ \A t \in Tasks : u[t] = 0
    OBVIOUS
  <2> HIDE DEF u
  <2>2. Waited(u)'
    <3>1. ASSUME NEW t \in Tasks, NEW k \in Tasks
          PROVE  u[k] <= u[t] + (IF t \in Due' THEN 0 ELSE Span(t))
      BY <1>2, <2>1
    <3> QED
      BY <2>1, <3>1 DEF Waited
  <2>3. /\ making \in Tasks /\ newTd \in Nat /\ calm' = 0 /\ making' \in {0, making}
        /\ making' = 0 => made = 2 /\ td[making] = newTd /\ td' = td /\ cnt' = [cnt EXCEPT ![making] = newTd]
        /\ making' # 0 => /\ making' = making /\ cnt' = cnt
                          /\ td' = td \/ td' = [td EXCEPT ![making] = newTd]
    <3>1. making \in Tasks /\ newTd \in Nat /\ calm' = 0
      BY <1>4, PeriodsAreSmall DEF CreateStep, TickInv, TickTypeOK
    <3>2. made = 2 => td[making] = newTd
      BY DEF TickInv, CreateInv
    <3> QED
      BY <1>2, <1>4, <3>1, <3>2 DEF CreateStep
  <2>4. ASSUME NEW t \in Tasks, making' # t PROVE cnt'[t] <= td'[t]
    <3>1. CASE t = making
      <4>1. cnt'[t] = newTd /\ td'[t] = newTd
        BY <1>2, <2>3, <2>4, <3>1
      <4> QED
        BY <2>3, <4>1
    <3>2. CASE t # making
      <4>1. cnt'[t] = cnt[t] /\ td'[t] = td[t]
        BY <1>2, <2>3, <3>2
      <4> QED
        BY <1>2, <3>2, <4>1
    <3> QED
      BY <3>1, <3>2
  <2>5. Afforded(u)'
    <3> SUFFICES ASSUME making' = 0, NEW t \in Tasks
                 PROVE  calm' <= Span(t) * (td'[t] - cnt'[t]) + u[t]
      BY DEF Afforded, Budget
    <3> DEFINE p == td'[t]
               c == cnt'[t]
               s == Span(t)
    <3>1. p \in Nat /\ c \in Nat /\ c <= p /\ s \in Nat
      <4>1. p = td[t] /\ (t = making => c = newTd) /\ (t # making => c = cnt[t])
        BY <1>2, <2>3
      <4>2. c <= p
        BY <1>2, <2>4
      <4> QED
        BY <1>2, <2>3, <4>1, <4>2
    <3> HIDE DEF p, c, s
    <3>2. s * (p - c) \in Nat
      BY <3>1, AnotherTurn
    <3>3. 0 <= s * (p - c) + 0
      BY <3>2
    <3> QED
      BY <2>1, <2>3, <3>3 DEF p, c, s
  <2>6. WithinInv'
    BY <2>4 DEF WithinInv
  <2> QED
    BY <2>2, <2>5, <2>6 DEF StretchInv
<1> QED
  BY <1>3, <1>4 DEF Create

\* The bound on what holds a task up: at first, ...
LEMMA StretchStarts == TickInit => StretchInv
<1> SUFFICES ASSUME TickInit PROVE StretchInv
  OBVIOUS
<1> DEFINE u == [t \in Tasks |-> 0]
<1>1. u \in [Tasks -> Nat] /\ \A t \in Tasks : u[t] = 0
  OBVIOUS
<1> HIDE DEF u
<1>2. /\ \A t \in Tasks : td[t] = 0 /\ cnt[t] = 0 /\ Span(t) \in Nat
  BY Spans DEF TickInit
<1>3. Waited(u)
  BY <1>1, <1>2 DEF Waited
<1>4. Afforded(u)
  BY <1>2 DEF Afforded
<1>5. WithinInv
  BY <1>2 DEF WithinInv
<1> QED
  BY <1>3, <1>4, <1>5 DEF StretchInv

\* ... and after every step.
LEMMA StretchGoesOn == TickInv /\ StretchInv /\ [TickNext]_tickVars => StretchInv'
<1> SUFFICES ASSUME TickInv, StretchInv, [TickNext]_tickVars PROVE StretchInv'
  OBVIOUS
<1>1. CASE SysTick_Handler
  BY <1>1, TickStretches DEF TickInv
<1>2. CASE Create
  BY <1>2, CreateStretches
<1>3. CASE UNCHANGED tickVars
  <2>1. td' = td /\ cnt' = cnt /\ making' = making /\ since' = since /\ calm' = calm
    BY <1>3 DEF tickVars
  <2> QED
    BY <2>1 DEF StretchInv, WithinInv, Waited, Afforded, Budget, Due
<1> QED
  BY <1>1, <1>2, <1>3 DEF TickNext

\* SysTick.c:73: for any number of tasks and any periods, the k-th task is held
\* up to no more than 2^(k-1) times its period and a tick.
THEOREM StretchIsBounded == TickSpec => []StretchBounded
<1>1. StretchInv /\ TickTypeOK => StretchBounded
  <2> SUFFICES ASSUME StretchInv, TickTypeOK, NEW t \in Tasks, td[t] # 0, making = 0
               PROVE  since[t] < Span(t) * (td[t] + 1) \/ calm < Span(t) * (td[t] + 1)
    BY DEF StretchBounded, Span
  <2>1. PICK w : Waited(w) /\ Afforded(w)
    BY DEF StretchInv
  <2> DEFINE s == Span(t)
             p == td[t]
             c == cnt[t]
             x == s * (p - c)
             z == s * (p + 1)
  <2>2. s \in Nat /\ p \in Nat /\ c \in Nat /\ c <= p /\ w[t] \in Nat /\ w[t] < s
        /\ since[t] \in Nat /\ calm \in Nat
    <3>1. t # 0 /\ p \in Nat /\ c \in Nat /\ since[t] \in Nat /\ calm \in Nat
      BY PeriodsAreSmall DEF TickTypeOK, Tasks
    <3>2. c <= p
      BY <3>1 DEF StretchInv, WithinInv
    <3>3. s \in Nat /\ w[t] \in Nat /\ w[t] < s
      BY <2>1, Spans, NotAwayLong DEF Waited
    <3> QED
      BY <3>1, <3>2, <3>3
  <2>3. since[t] <= x + w[t] \/ calm <= x + w[t]
    BY <2>1 DEF Afforded, Budget
  <2>4. x \in Nat /\ x + s <= z /\ z \in Int
    <3> HIDE DEF s, p, c
    <3>1. s * (p - c) \in Nat /\ s * (p - c) + s <= s * (p + 1) /\ s * (p + 1) \in Int
      BY <2>2, AnotherTurn
    <3> QED
      BY <3>1
  <2> HIDE DEF x, z
  <2>5. since[t] < z \/ calm < z
    BY <2>2, <2>3, <2>4
  <2> QED
    BY <2>5 DEF z
<1>2. TickInv => TickTypeOK
  BY DEF TickInv
<1>3. TickSpec => []StretchInv
  BY StretchStarts, StretchGoesOn, TickAlways, PTL DEF TickSpec
<1> QED
  BY <1>1, <1>2, <1>3, TickAlways, PTL

-----------------------------------------------------------------------------
(***************************************************************************)
(* StmFlash: for a flash and pages of any size, a write that stays in one  *)
(* sector changes what it was asked to and nothing else.                   *)
(***************************************************************************)

\* The half-word the sector begins with.
Base == secpos * PageSize

\* The half-words of the sector the call is to write.
Sought == secoff .. secoff + secremain - 1

\* The call's arguments stay inside the flash.
CallInv ==
  pc # "idle" => /\ at \in Addresses /\ data \in Seq(Values) /\ Len(data) \in Nat \ {0}
                 /\ at + Len(data) <= FlashSize

\* A call inside one sector is done with all of it at once.
PlaceInv ==
  pc # "idle" /\ OneSector =>
    /\ Base \in Nat /\ Base + PageSize <= FlashSize
    /\ \A a \in Addresses : Page(a) = secpos <=> Base <= a /\ a < Base + PageSize
    /\ secoff \in Nat /\ at = Base + secoff /\ secoff + Len(data) <= PageSize
    /\ secremain = Len(data) /\ num = Len(data) /\ src = 0 /\ addr = 2 * at

\* The sector as it is to be.
Merged ==
  [k \in 0 .. PageSize - 1 |-> IF k \in Sought THEN data[k - secoff + 1] ELSE before[Base + k]]

\* How far the flash is from what is expected, at each place of the call.
LookInv == pc = "look" => flash = before

DirectInv ==
  pc = "direct" =>
    /\ i \in 0 .. secremain
    /\ \A k \in Sought : before[Base + k] = Erased
    /\ flash = [a \in Addresses |-> IF a \in at .. at + i - 1 THEN data[a - at + 1] ELSE before[a]]

PatchInv ==
  pc = "patch" =>
    /\ i \in 0 .. PageSize
    /\ buf = Merged
    /\ flash = [a \in Addresses |->
                 IF Page(a) # secpos THEN before[a]
                 ELSE IF a - Base < i THEN Merged[a - Base] ELSE Erased]

DoneInv == pc = "done" => flash = Expected

FlashInv ==
  pc # "idle" /\ OneSector =>
    /\ before \in [Addresses -> Values] /\ ~pgerr /\ pc # "fault"
    /\ LookInv /\ DirectInv /\ PatchInv /\ DoneInv

IdleInv == pc = "idle" => flash \in [Addresses -> Values] /\ ~pgerr

StmInv == CallInv /\ PlaceInv /\ FlashInv /\ IdleInv

-----------------------------------------------------------------------------

\* Pages have a size, and the flash is a whole number of them.
LEMMA PageSizes == PageSize \in Nat \ {0} /\ FlashSize \in Nat \ {0} /\ FlashSize % PageSize = 0
BY FlashAssumption, StmFlashAssumption

\* Multiples of the page size are a page apart at least.
LEMMA Multiples ==
  ASSUME NEW p \in Int, NEW q \in Int
  PROVE  /\ p * PageSize \in Int
         /\ p < q => p * PageSize + PageSize <= q * PageSize
<1>1. PageSize \in Nat \ {0}
  BY PageSizes
<1> QED
  BY <1>1

\* An address is in its page, so far from its start.
LEMMA PageStart ==
  ASSUME NEW a \in Nat
  PROVE  /\ Page(a) \in Nat /\ Page(a) * PageSize \in Nat
         /\ a % PageSize \in 0 .. PageSize - 1
         /\ a = Page(a) * PageSize + (a % PageSize)
<1>1. PageSize \in Nat \ {0}
  BY PageSizes
<1>2. a \div PageSize \in Nat /\ a = PageSize * (a \div PageSize) + (a % PageSize)
  BY <1>1
<1>3. a % PageSize \in 0 .. PageSize - 1
  BY <1>1, RemainderRange
<1>4. \A q \in Nat : q * PageSize = PageSize * q /\ q * PageSize \in Nat
  BY <1>1
<1> QED
  BY <1>2, <1>3, <1>4 DEF Page

\* A page is an interval.
LEMMA PageIs ==
  ASSUME NEW a \in Nat, NEW p \in Nat
  PROVE  Page(a) = p <=> p * PageSize <= a /\ a < p * PageSize + PageSize
<1>1. PageSize \in Nat \ {0}
  BY PageSizes
<1>2. PICK q \in Nat : q = Page(a)
  BY PageStart
<1>3. PICK m \in Int : m = q * PageSize
  BY Multiples
<1>4. PICK s \in Int : s = p * PageSize
  BY Multiples
<1>5. m <= a /\ a < m + PageSize
  <2>1. PICK r \in 0 .. PageSize - 1 : r = a % PageSize
    BY PageStart
  <2>2. a = m + r
    BY <1>2, <1>3, <2>1, PageStart
  <2> QED
    BY <1>1, <2>2
<1>6. q < p => m + PageSize <= s
  BY <1>3, <1>4, Multiples
<1>7. p < q => s + PageSize <= m
  BY <1>3, <1>4, Multiples
<1>8. q = p => m = s
  BY <1>3, <1>4
<1>9. q = p <=> s <= a /\ a < s + PageSize
  BY <1>1, <1>5, <1>6, <1>7, <1>8
<1> QED
  BY <1>2, <1>4, <1>9

\* The flash has whole pages.
LEMMA PageFits ==
  ASSUME NEW a \in Addresses
  PROVE  Page(a) * PageSize + PageSize <= FlashSize
<1>1. PageSize \in Nat \ {0} /\ FlashSize \in Nat /\ FlashSize % PageSize = 0 /\ a \in Nat /\ a < FlashSize
  BY PageSizes DEF Addresses
<1>2. PICK q \in Nat : q = Page(FlashSize)
  BY <1>1, PageStart
<1>3. FlashSize = q * PageSize
  BY <1>1, <1>2, PageStart
<1>4. PICK p \in Nat : p = Page(a)
  BY <1>1, PageStart
<1>5. p * PageSize <= a
  BY <1>1, <1>4, PageStart
<1>6. p < q
  <2>1. ~(q < p) /\ p # q
    BY <1>1, <1>3, <1>5, Multiples
  <2> QED
    BY <2>1
<1> QED
  BY <1>3, <1>4, <1>6, Multiples

-----------------------------------------------------------------------------

\* The invariant holds before any write.
LEMMA StmStarts == Init => StmInv
BY DEF Init, StmInv, CallInv, PlaceInv, FlashInv, IdleInv

\* A write begins.
LEMMA FlashWriteKeeps ==
  ASSUME StmInv, NEW a \in Addresses, NEW n \in 1 .. MaxNum, a + n <= FlashSize,
         NEW d \in [1..n -> Values], Write(a, d)
  PROVE  StmInv'
<1>1. /\ pc = "idle" /\ pc' = "look" /\ at' = a /\ data' = d /\ before' = flash
      /\ addr' = 2 * a /\ num' = Len(d) /\ src' = 0 /\ secpos' = Page(a) /\ secoff' = a % PageSize
      /\ secremain' = Smaller(Len(d), PageSize - (a % PageSize))
      /\ UNCHANGED <<flash, pgerr>>
  BY DEF Write
<1>2. d \in Seq(Values) /\ Len(d) = n /\ n \in Nat \ {0} /\ a \in Nat
  BY PageSizes, StmFlashAssumption DEF Addresses
<1>3. CallInv'
  BY <1>1, <1>2 DEF CallInv
<1>4. PlaceInv'
  <2> SUFFICES ASSUME OneSector' PROVE PlaceInv'
    BY DEF PlaceInv
  <2>1. PICK b \in Nat : b = Page(a) * PageSize
    BY <1>2, PageStart
  <2>2. Base' = b /\ b + PageSize <= FlashSize
    BY <1>1, <2>1, PageFits DEF Base
  <2>3. PICK r \in 0 .. PageSize - 1 : r = a % PageSize /\ a = b + r
    BY <1>2, <2>1, PageStart
  <2>4. \A x \in Addresses : Page(x) = Page(a) <=> b <= x /\ x < b + PageSize
    <3>1. PICK q \in Nat : q = Page(a)
      BY <1>2, PageStart
    <3> QED
      BY <2>1, <3>1, PageIs, PageSizes DEF Addresses
  <2>5. Page(a + n - 1) = Page(a) /\ a + n - 1 \in Addresses
    BY <1>1, <1>2, PageSizes DEF OneSector, Addresses
  <2>6. r + n <= PageSize
    BY <1>2, <2>3, <2>4, <2>5, PageSizes
  <2>7. secremain' = n
    BY <1>1, <1>2, <2>3, <2>6, PageSizes DEF Smaller
  <2> QED
    BY <1>1, <1>2, <2>2, <2>3, <2>4, <2>6, <2>7 DEF PlaceInv
<1>5. FlashInv' /\ IdleInv'
  BY <1>1 DEF StmInv, IdleInv, FlashInv, LookInv, DirectInv, PatchInv, DoneInv
<1> QED
  BY <1>3, <1>4, <1>5 DEF StmInv

\* What all the other steps leave alone.
LEMMA CallStays ==
  ASSUME StmInv, UNCHANGED args, pc # "idle", pc' # "idle"
  PROVE  /\ CallInv' /\ IdleInv' /\ OneSector' = OneSector
         /\ UNCHANGED cursor => PlaceInv' /\ Base' = Base /\ Sought' = Sought /\ Merged' = Merged
<1>1. UNCHANGED <<at, data, before>>
  BY DEF args
<1>2. CallInv' /\ IdleInv' /\ OneSector' = OneSector
  BY <1>1 DEF StmInv, CallInv, IdleInv, OneSector
<1>3. ASSUME UNCHANGED cursor
      PROVE  PlaceInv' /\ Base' = Base /\ Sought' = Sought /\ Merged' = Merged
  <2>1. Base' = Base /\ Sought' = Sought
    BY <1>3 DEF cursor, Base, Sought
  <2>2. Merged' = Merged
    BY <1>1, <1>3, <2>1 DEF Merged, cursor
  <2> QED
    BY <1>1, <1>2, <1>3, <2>1, <2>2 DEF StmInv, PlaceInv, cursor
<1> QED
  BY <1>2, <1>3

\* The sector is looked at.
LEMMA LookKeeps ==
  ASSUME StmInv, Look
  PROVE  StmInv'
<1> DEFINE sector == [k \in 0 .. PageSize - 1 |-> flash[secpos * PageSize + k]]
<1>1. pc = "look" /\ pc' \in {"direct", "patch"} /\ i' = 0 /\ UNCHANGED <<args, cursor>>
  BY DEF Look
<1>2. CallInv' /\ IdleInv' /\ PlaceInv' /\ OneSector' = OneSector /\ Base' = Base /\ Sought' = Sought
      /\ Merged' = Merged /\ UNCHANGED <<at, data, before, secpos, secoff, secremain, src>>
  BY <1>1, CallStays DEF args, cursor
<1>3. FlashInv'
  <2> SUFFICES ASSUME OneSector PROVE FlashInv'
    BY <1>2 DEF FlashInv
  <2>1. /\ before \in [Addresses -> Values] /\ ~pgerr /\ flash = before
        /\ Base \in Nat /\ Base + PageSize <= FlashSize /\ secoff \in Nat /\ at = Base + secoff
        /\ secoff + Len(data) <= PageSize /\ secremain = Len(data) /\ src = 0 /\ Len(data) \in Nat
    BY <1>1 DEF StmInv, FlashInv, LookInv, PlaceInv, CallInv
  <2>2. CASE \A k \in Sought : sector[k] = Erased
    <3>1. pc' = "direct" /\ UNCHANGED <<flash, pgerr>>
      BY <2>2 DEF Look, Sought
    <3>2. \A k \in Sought : before[Base + k] = Erased
      <4>1. \A k \in Sought : k \in 0 .. PageSize - 1
        BY <2>1, PageSizes DEF Sought
      <4>2. \A k \in Sought : sector[k] = flash[Base + k]
        BY <4>1 DEF Base
      <4> QED
        BY <2>1, <2>2, <4>2
    <3>3. flash = [a \in Addresses |-> IF a \in at .. at + 0 - 1 THEN data[a - at + 1] ELSE before[a]]
      <4>1. at .. at + 0 - 1 = {}
        BY <2>1
      <4> QED
        BY <2>1, <4>1
    <3>4. DirectInv'
      BY <1>1, <1>2, <2>1, <3>1, <3>2, <3>3 DEF DirectInv
    <3> QED
      BY <1>2, <2>1, <3>1, <3>4 DEF FlashInv, LookInv, PatchInv, DoneInv
  <2>3. CASE ~(\A k \in Sought : sector[k] = Erased)
    <3>1. /\ pc' = "patch" /\ ErasePage(secpos)
          /\ buf' = [k \in 0 .. PageSize - 1 |->
                      IF k \in Sought THEN data[src + k - secoff + 1] ELSE sector[k]]
      BY <2>3 DEF Look, Sought
    <3>2. buf' = Merged
      <4>1. \A k \in Sought : src + k - secoff + 1 = k - secoff + 1
        BY <2>1 DEF Sought
      <4>2. \A k \in 0 .. PageSize - 1 : sector[k] = before[Base + k]
        BY <2>1 DEF Base
      <4> QED
        BY <3>1, <4>1, <4>2 DEF Merged
    <3>3. flash' = [a \in Addresses |-> IF Page(a) = secpos THEN Erased ELSE before[a]] /\ ~pgerr'
      BY <2>1, <3>1 DEF ErasePage
    <3>4. \A a \in Addresses : Page(a) = secpos => ~(a - Base < 0)
      BY <1>1, <2>1 DEF StmInv, PlaceInv, Addresses
    <3>5. PatchInv'
      BY <1>1, <1>2, <3>2, <3>3, <3>4, PageSizes DEF PatchInv
    <3> QED
      BY <1>2, <2>1, <3>1, <3>3, <3>5 DEF FlashInv, LookInv, DirectInv, DoneInv
  <2> QED
    BY <2>2, <2>3
<1> QED
  BY <1>2, <1>3 DEF StmInv

\* A step of the write into a sector that is erased where it must be.
LEMMA DirectStepKeeps ==
  ASSUME StmInv, DirectStep
  PROVE  StmInv'
<1>1. pc = "direct" /\ i < secremain /\ pc' # "idle" /\ UNCHANGED <<args, cursor, buf>>
  BY DEF DirectStep
<1>2. CallInv' /\ IdleInv' /\ PlaceInv' /\ OneSector' = OneSector /\ Base' = Base /\ Sought' = Sought
      /\ UNCHANGED <<at, data, before, secpos, secoff, secremain, src>>
  BY <1>1, CallStays DEF args, cursor
<1>3. FlashInv'
  <2> SUFFICES ASSUME OneSector PROVE FlashInv'
    BY <1>2 DEF FlashInv
  <2>1. /\ before \in [Addresses -> Values] /\ ~pgerr
        /\ i \in 0 .. secremain /\ \A k \in Sought : before[Base + k] = Erased
        /\ flash = [a \in Addresses |-> IF a \in at .. at + i - 1 THEN data[a - at + 1] ELSE before[a]]
        /\ Base \in Nat /\ Base + PageSize <= FlashSize /\ secoff \in Nat /\ at = Base + secoff
        /\ secoff + Len(data) <= PageSize /\ secremain = Len(data) /\ src = 0 /\ addr = 2 * at
        /\ Len(data) \in Nat /\ at \in Addresses
    BY <1>1 DEF StmInv, FlashInv, DirectInv, PlaceInv, CallInv
  <2>2. addr % 2 = 0 /\ addr \div 2 + i = at + i /\ src + i + 1 = i + 1 /\ at + i \in Addresses
    <3>1. addr % 2 = 0 /\ addr \div 2 = at
      BY <2>1 DEF Addresses
    <3> QED
      BY <1>1, <2>1, <3>1, PageSizes DEF Addresses
  <2>3. i' = i + 1 /\ pc' = pc /\ ProgramHalfWord(at + i, data[i + 1])
    BY <2>2 DEF DirectStep
  <2>4. flash[at + i] = Erased
    <3>1. secoff + i \in Sought /\ Base + (secoff + i) = at + i
      BY <1>1, <2>1 DEF Sought
    <3>2. ~(at + i \in at .. at + i - 1)
      BY <2>1 DEF Addresses
    <3> QED
      BY <2>1, <2>2, <3>1, <3>2
  <2>5. flash' = [flash EXCEPT ![at + i] = data[i + 1]] /\ ~pgerr'
    BY <2>1, <2>3, <2>4 DEF ProgramHalfWord, Programmable
  <2>6. flash' = [a \in Addresses |-> IF a \in at .. at + (i + 1) - 1 THEN data[a - at + 1] ELSE before[a]]
    <3>1. ASSUME NEW a \in Addresses
          PROVE  flash'[a] = IF a \in at .. at + (i + 1) - 1 THEN data[a - at + 1] ELSE before[a]
      <4>1. CASE a = at + i
        BY <2>1, <2>2, <2>5, <4>1 DEF Addresses
      <4>2. CASE a # at + i
        <5>1. flash'[a] = flash[a]
          BY <2>1, <2>5, <4>2
        <5>2. a \in at .. at + (i + 1) - 1 <=> a \in at .. at + i - 1
          BY <2>1, <4>2 DEF Addresses
        <5> QED
          BY <2>1, <5>1, <5>2
      <4> QED
        BY <4>1, <4>2
    <3>2. flash' = [a \in Addresses |-> flash'[a]]
      BY <2>1, <2>5
    <3> QED
      BY <3>1, <3>2
  <2>7. i' \in 0 .. secremain
    BY <1>1, <2>1, <2>3
  <2>8. DirectInv'
    BY <1>2, <2>1, <2>3, <2>6, <2>7 DEF DirectInv
  <2> QED
    BY <1>1, <1>2, <2>1, <2>3, <2>5, <2>8 DEF FlashInv, LookInv, PatchInv, DoneInv
<1> QED
  BY <1>2, <1>3 DEF StmInv

\* A step of the write of a whole sector that was erased.
LEMMA PatchStepKeeps ==
  ASSUME StmInv, PatchStep
  PROVE  StmInv'
<1>1. /\ pc = "patch" /\ i < PageSize /\ ProgramHalfWord(secpos * PageSize + i, buf[i])
      /\ i' = i + 1 /\ UNCHANGED <<pc, args, cursor, buf>>
  BY DEF PatchStep
<1>2. CallInv' /\ IdleInv' /\ PlaceInv' /\ OneSector' = OneSector /\ Base' = Base /\ Sought' = Sought
      /\ Merged' = Merged /\ UNCHANGED <<at, data, before, secpos, secoff, secremain, src>>
  BY <1>1, CallStays DEF args, cursor
<1>3. FlashInv'
  <2> SUFFICES ASSUME OneSector PROVE FlashInv'
    BY <1>2 DEF FlashInv
  <2>1. /\ before \in [Addresses -> Values] /\ ~pgerr /\ i \in 0 .. PageSize /\ buf = Merged
        /\ flash = [a \in Addresses |->
                     IF Page(a) # secpos THEN before[a]
                     ELSE IF a - Base < i THEN Merged[a - Base] ELSE Erased]
        /\ Base \in Nat /\ Base + PageSize <= FlashSize
        /\ \A a \in Addresses : Page(a) = secpos <=> Base <= a /\ a < Base + PageSize
    BY <1>1 DEF StmInv, FlashInv, PatchInv, PlaceInv
  <2>2. Base + i \in Addresses /\ Page(Base + i) = secpos
    BY <1>1, <2>1, PageSizes DEF Addresses
  <2>3. flash[Base + i] = Erased
    <3>1. ~(Base + i - Base < i)
      BY <2>1
    <3> QED
      BY <2>1, <2>2, <3>1
  <2>4. flash' = [flash EXCEPT ![Base + i] = Merged[i]] /\ ~pgerr'
    BY <1>1, <2>1, <2>3 DEF ProgramHalfWord, Programmable, Base
  <2>5. flash' = [a \in Addresses |->
                   IF Page(a) # secpos THEN before[a]
                   ELSE IF a - Base < i + 1 THEN Merged[a - Base] ELSE Erased]
    <3>1. ASSUME NEW a \in Addresses
          PROVE  flash'[a] = IF Page(a) # secpos THEN before[a]
                             ELSE IF a - Base < i + 1 THEN Merged[a - Base] ELSE Erased
      <4>1. CASE a = Base + i
        <5>1. a - Base = i /\ i < i + 1
          BY <2>1, <4>1
        <5>2. flash'[a] = Merged[i]
          BY <2>1, <2>2, <2>4, <4>1
        <5> QED
          BY <2>2, <4>1, <5>1, <5>2
      <4>2. CASE a # Base + i
        <5>1. flash'[a] = flash[a]
          BY <2>1, <2>4, <4>2
        <5>2. a - Base < i + 1 <=> a - Base < i
          BY <2>1, <4>2 DEF Addresses
        <5> QED
          BY <2>1, <5>1, <5>2
      <4> QED
        BY <4>1, <4>2
    <3>2. flash' = [a \in Addresses |-> flash'[a]]
      BY <2>1, <2>4
    <3> QED
      BY <3>1, <3>2
  <2>6. i' \in 0 .. PageSize
    BY <1>1, <2>1, PageSizes
  <2>7. PatchInv'
    BY <1>1, <1>2, <2>1, <2>5, <2>6 DEF PatchInv
  <2> QED
    BY <1>1, <1>2, <2>1, <2>4, <2>7 DEF FlashInv, LookInv, DirectInv, DoneInv
<1> QED
  BY <1>2, <1>3 DEF StmInv

\* The write goes on in the next sector.
LEMMA NextSectorKeeps ==
  ASSUME StmInv, NextSector
  PROVE  StmInv'
<1>1. /\ pc \in {"patch", "direct"} /\ pc' \in {"done", "look"}
      /\ UNCHANGED <<flash, pgerr, args, buf, i>>
      /\ pc = "patch" => i = PageSize
      /\ pc = "direct" => i = secremain
      /\ num = secremain => pc' = "done" /\ UNCHANGED cursor
  BY DEF NextSector
<1>2. CallInv' /\ IdleInv' /\ OneSector' = OneSector /\ UNCHANGED <<at, data, before>>
  BY <1>1, CallStays DEF args
<1>3. ASSUME OneSector
      PROVE  PlaceInv' /\ FlashInv'
  <2>1. pc' = "done" /\ PlaceInv'
    <3>1. num = secremain
      BY <1>1, <1>3 DEF StmInv, PlaceInv
    <3> QED
      BY <1>1, <3>1, CallStays
  <2>2. /\ Base \in Nat /\ Base + PageSize <= FlashSize /\ secoff \in Nat /\ at = Base + secoff
        /\ secoff + Len(data) <= PageSize /\ secremain = Len(data) /\ Len(data) \in Nat
        /\ \A a \in Addresses : Page(a) = secpos <=> Base <= a /\ a < Base + PageSize
    BY <1>1, <1>3 DEF StmInv, PlaceInv, CallInv
  <2>3. flash = Expected
    <3>1. CASE pc = "direct"
      BY <1>1, <1>3, <2>2, <3>1 DEF StmInv, FlashInv, DirectInv, Expected
    <3>2. CASE pc = "patch"
      <4>1. flash = [a \in Addresses |->
                      IF Page(a) # secpos THEN before[a]
                      ELSE IF a - Base < PageSize THEN Merged[a - Base] ELSE Erased]
        BY <1>1, <1>3, <3>2 DEF StmInv, FlashInv, PatchInv
      <4>2. ASSUME NEW a \in Addresses
            PROVE  flash[a] = IF a \in at .. at + Len(data) - 1 THEN data[a - at + 1] ELSE before[a]
        <5>1. CASE Page(a) # secpos
          <6>1. a \notin at .. at + Len(data) - 1
            <7> SUFFICES ASSUME a \in at .. at + Len(data) - 1 PROVE FALSE
              OBVIOUS
            <7>1. Base <= a /\ a < Base + PageSize
              BY <2>2, PageSizes DEF Addresses
            <7> QED
              BY <2>2, <5>1, <7>1
          <6> QED
            BY <4>1, <5>1, <6>1
        <5>2. CASE Page(a) = secpos
          <6>1. a - Base \in 0 .. PageSize - 1 /\ a - Base < PageSize /\ Base + (a - Base) = a
            BY <2>2, <5>2, PageSizes DEF Addresses
          <6>2. flash[a] = Merged[a - Base]
            BY <4>1, <5>2, <6>1
          <6>3. a - Base \in Sought <=> a \in at .. at + Len(data) - 1
            BY <2>2 DEF Sought, Addresses
          <6>4. (a - Base) - secoff + 1 = a - at + 1
            BY <2>2 DEF Addresses
          <6> QED
            BY <6>1, <6>2, <6>3, <6>4 DEF Merged
        <5> QED
          BY <5>1, <5>2
      <4> QED
        BY <4>1, <4>2 DEF Expected
    <3> QED
      BY <1>1, <3>1, <3>2
  <2>4. Expected' = Expected
    BY <1>2 DEF Expected
  <2> QED
    BY <1>1, <1>2, <1>3, <2>1, <2>3, <2>4 DEF StmInv, FlashInv, LookInv, DirectInv, PatchInv, DoneInv
<1>4. PlaceInv' /\ FlashInv'
  BY <1>2, <1>3 DEF PlaceInv, FlashInv
<1> QED
  BY <1>2, <1>4 DEF StmInv

-----------------------------------------------------------------------------

\* Every step keeps the invariant.
LEMMA StmGoesOn ==
  ASSUME StmInv, [Next]_vars
  PROVE  StmInv'
<1>1. CASE UNCHANGED vars
  <2>1. UNCHANGED <<flash, pgerr, pc, at, data, before, addr, num, src, secpos, secoff, secremain, buf, i>>
    BY <1>1 DEF vars, args, cursor
  <2>2. Base' = Base /\ Sought' = Sought /\ Expected' = Expected /\ OneSector' = OneSector
    BY <2>1 DEF Base, Sought, Expected, OneSector
  <2>3. Merged' = Merged
    BY <2>1, <2>2 DEF Merged
  <2>4. CallInv' /\ IdleInv' /\ PlaceInv'
    BY <2>1, <2>2 DEF StmInv, CallInv, IdleInv, PlaceInv
  <2>5. LookInv' = LookInv /\ DirectInv' = DirectInv /\ PatchInv' = PatchInv /\ DoneInv' = DoneInv
    BY <2>1, <2>2, <2>3 DEF LookInv, DirectInv, PatchInv, DoneInv
  <2>6. FlashInv'
    BY <2>1, <2>2, <2>5 DEF StmInv, FlashInv
  <2> QED
    BY <2>4, <2>6 DEF StmInv
<1>2. CASE Next
  BY <1>2, FlashWriteKeeps, LookKeeps, DirectStepKeeps, PatchStepKeeps, NextSectorKeeps DEF Next
<1> QED
  BY <1>1, <1>2

\* stmflash.c:82-119: for pages and a flash of any size, whatever the sector holds
\* and whatever is written into it, a call inside one sector changes the half-words
\* it was asked to and no other, whether it erases the sector or not.
THEOREM WritesAreExact == Spec => []OneSectorExact
<1>1. StmInv => OneSectorExact
  BY DEF StmInv, FlashInv, DoneInv, OneSectorExact
<1> QED
  BY <1>1, StmStarts, StmGoesOn, PTL DEF Spec

-----------------------------------------------------------------------------
(***************************************************************************)
(* W25Qxx: for a chip, sectors and pages of any size, and however often the*)
(* processor is reset in the middle of a write, a write that finds the chip*)
(* idle and is not cut off changes what it was asked to and nothing else.  *)
(***************************************************************************)

\* What a cell holds.
Bits == 0..1

\* The chip's cells are bits, and so is what it makes of them.
ChipInv ==
  /\ mem \in [Cells -> Bits] /\ wel \in BOOLEAN
  /\ chipOp.at \in Nat /\ chipOp.cells \in Seq(Bits)

\* What is left of the call is inside the chip.
LoopInv ==
  /\ w25Pc \in {"idle", "read", "erase", "sector", "program", "wait"}
  /\ w25Addr \in Nat /\ w25Buf \in Seq(Bits) /\ w25Len = Len(w25Buf)
  /\ w25Addr + w25Len <= ChipSize
  /\ w25Pc # "idle" => w25Len > 0

\* So is what is left of the part that is being programmed.
JobInv ==
  /\ job.at \in Nat /\ job.cells \in Seq(Bits) /\ merged \in BOOLEAN
  /\ job.at + Len(job.cells) <= ChipSize
  /\ w25Pc \in {"erase", "sector", "program"} => Len(job.cells) > 0

\* What cell c is to be when the call has written what lies before x.
Target(ask, x, c) ==
  IF c \in ask.at .. x - 1 THEN ask.data[c - ask.at + 1] ELSE ask.before[c]

\* Where the part of the call that this sector takes ends.
EndPos == w25Addr + SecRemain

\* What it will be when the chip has done what it is busy with.
Soon(op, m, c) ==
  IF c \in op.at .. op.at + Len(op.cells) - 1 THEN op.cells[c - op.at + 1] ELSE m[c]

\* The loop's cursors are where they should be in the data.
AskedInv ==
  /\ asked25.at \in Nat /\ asked25.at <= w25Addr
  /\ asked25.data \in Seq(Bits) /\ w25Addr + w25Len = asked25.at + Len(asked25.data)
  /\ asked25.before \in [Cells -> Bits]
  /\ \A k \in 1 .. w25Len : w25Buf[k] = asked25.data[w25Addr - asked25.at + k]

\* Between two parts the chip is idle and has all that was written before.
RestInv ==
  w25Pc \in {"idle", "read", "erase", "sector"} =>
    /\ ~Busy /\ \A c \in Cells : mem[c] = Target(asked25, w25Addr, c)
    /\ w25Pc = "idle" => w25Len = 0
    /\ w25Pc = "sector" => wel

\* The job's cells are as they are to be when this sector is done.
JobIsTarget ==
  \A k \in 1 .. Len(job.cells) : job.cells[k] = Target(asked25, EndPos, job.at + k - 1)

MergeInv ==
  w25Pc \in {"erase", "sector"} =>
    /\ JobIsTarget /\ merged
    /\ job.at = SecPos * SectorSize /\ Len(job.cells) = SectorSize

\* The cells the job is to program are erased and the others done, or will be as
\* soon as the chip is ready.
ProgramInv ==
  w25Pc \in {"program", "wait"} =>
    /\ JobIsTarget
    /\ \A c \in Cells : Soon(chipOp, mem, c) = IF c \in job.at .. job.at + Len(job.cells) - 1 THEN 1
                                  ELSE Target(asked25, EndPos, c)
    /\ w25Pc = "program" /\ Busy => merged

CalmInv == calm25 => AskedInv /\ RestInv /\ MergeInv /\ ProgramInv

W25Inv == ChipInv /\ LoopInv /\ JobInv /\ CalmInv

-----------------------------------------------------------------------------

\* A function of an interval that begins with 1 is a sequence.
LEMMA IsRun ==
  ASSUME NEW n \in Nat, NEW S, NEW f \in [1..n -> S]
  PROVE  f \in Seq(S) /\ Len(f) = n
<1>1. f \in Seq(S)
  BY SeqDef
<1>2. Len(f) \in Nat /\ DOMAIN f = 1 .. Len(f) /\ DOMAIN f = 1 .. n
  BY <1>1, LenProperties
<1> QED
  BY <1>1, <1>2

\* Sectors and pages fill the chip.
LEMMA ChipSizes ==
  /\ SectorSize \in Nat \ {0} /\ WritePage \in Nat \ {0} /\ ChipSize \in Nat
  /\ ChipSize % SectorSize = 0 /\ ChipSize % WritePage = 0
BY W25Assumption, DividesOn

\* Where in its sector the rest of the call begins, and how much of it stays there.
LEMMA InSector ==
  ASSUME LoopInv, w25Pc # "idle"
  PROVE  /\ SecPos * SectorSize \in Nat /\ SecOff \in 0 .. SectorSize - 1
         /\ w25Addr = SecPos * SectorSize + SecOff
         /\ SecPos * SectorSize + SectorSize <= ChipSize
         /\ SecRemain \in 1 .. w25Len /\ SecOff + SecRemain <= SectorSize
         /\ w25Len \in Nat
<1>1. w25Addr \in Nat /\ w25Len \in Nat /\ w25Len > 0 /\ w25Addr < ChipSize
  BY LenProperties, ChipSizes DEF LoopInv
<1>2. /\ SecPos * SectorSize \in Nat /\ SecOff \in 0 .. SectorSize - 1
      /\ w25Addr = SecPos * SectorSize + SecOff
  BY <1>1, ChipSizes, Blocks DEF SecPos, SecOff
<1>3. SecPos * SectorSize + SectorSize <= ChipSize
  BY <1>1, ChipSizes, BlockFits DEF SecPos
<1>4. SecRemain \in 1 .. w25Len /\ SecOff + SecRemain <= SectorSize
  <2>1. SectorSize \in Nat /\ SecRemain = IF w25Len < SectorSize - SecOff THEN w25Len ELSE SectorSize - SecOff
    BY ChipSizes DEF SecRemain, Min25
  <2> QED
    BY <1>1, <1>2, <2>1
<1> QED
  BY <1>1, <1>2, <1>3, <1>4

\* What the next m bytes change.
LEMMA TargetGrows ==
  ASSUME LoopInv, AskedInv, NEW m \in Nat, m <= w25Len, NEW c \in Cells
  PROVE  Target(asked25, w25Addr + m, c) = IF c \in w25Addr .. w25Addr + m - 1 THEN w25Buf[c - w25Addr + 1]
                                  ELSE Target(asked25, w25Addr, c)
<1>1. /\ w25Addr \in Nat /\ w25Len \in Nat /\ asked25.at \in Nat /\ asked25.at <= w25Addr /\ c \in Nat
      /\ \A k \in 1 .. w25Len : w25Buf[k] = asked25.data[w25Addr - asked25.at + k]
  BY LenProperties, ChipSizes DEF LoopInv, AskedInv, Cells
<1>2. CASE c \in w25Addr .. w25Addr + m - 1
  <2>1. c \in asked25.at .. (w25Addr + m) - 1 /\ c - w25Addr + 1 \in 1 .. w25Len
        /\ w25Addr - asked25.at + (c - w25Addr + 1) = c - asked25.at + 1
    BY <1>1, <1>2
  <2> QED
    BY <1>1, <1>2, <2>1 DEF Target
<1>3. CASE c \notin w25Addr .. w25Addr + m - 1
  <2>1. c \in asked25.at .. (w25Addr + m) - 1 <=> c \in asked25.at .. w25Addr - 1
    BY <1>1, <1>3
  <2> QED
    BY <1>3, <2>1 DEF Target
<1> QED
  BY <1>2, <1>3

\* An idle chip does nothing more.
LEMMA IdleIsSoon == \A m, c : Soon(Idle, m, c) = m[c]
<1>1. Idle.at = 0 /\ Idle.cells = <<>> /\ Len(<<>>) = 0
  BY EmptySeq DEF Idle
<1>2. Idle.at .. Idle.at + Len(Idle.cells) - 1 = {}
  BY <1>1
<1> QED
  BY <1>2 DEF Soon

\* A step that leaves the call alone leaves its part of the sector alone.
LEMMA WriteStays ==
  ASSUME UNCHANGED callVars
  PROVE  /\ UNCHANGED <<w25Addr, w25Buf, w25Len, asked25>>
         /\ SecPos' = SecPos /\ SecRemain' = SecRemain /\ EndPos' = EndPos
         /\ AskedInv' <=> AskedInv
BY DEF callVars, SecPos, SecRemain, SecOff, EndPos, AskedInv

\* What it is busy with then lies nowhere.
LEMMA IdleJob ==
  /\ Idle.at \in Nat /\ Idle.cells \in Seq(Bits) /\ Idle.at + Len(Idle.cells) <= ChipSize
  /\ Idle.cells = <<>> /\ Len(Idle.cells) = 0
<1>1. Idle.at = 0 /\ Idle.cells = <<>> /\ <<>> \in Seq(Bits) /\ Len(<<>>) = 0 /\ ChipSize \in Nat
  BY EmptySeq, ChipSizes DEF Idle
<1>2. Idle.cells \in Seq(Bits)
  BY <1>1, Zenon
<1>3. Len(Idle.cells) = 0
  BY <1>1, Zenon
<1> QED
  BY <1>1, <1>2, <1>3

\* What the chip is to make of a cell is a bit.
LEMMA SoonIsBit == ChipInv => \A c \in Cells : Soon(chipOp, mem, c) \in Bits
<1> SUFFICES ASSUME ChipInv, NEW c \in Cells PROVE Soon(chipOp, mem, c) \in Bits
  OBVIOUS
<1>1. chipOp.at \in Nat /\ chipOp.cells \in Seq(Bits) /\ Len(chipOp.cells) \in Nat /\ mem[c] \in Bits
      /\ c \in Nat
  BY LenProperties, ChipSizes DEF ChipInv, Cells
<1>2. CASE c \in chipOp.at .. chipOp.at + Len(chipOp.cells) - 1
  <2>1. c - chipOp.at + 1 \in 1 .. Len(chipOp.cells)
    BY <1>1, <1>2
  <2>2. chipOp.cells[c - chipOp.at + 1] \in Bits
    BY <1>1, <2>1, ElementOfSeq
  <2> QED
    BY <1>2, <2>2 DEF Soon
<1> QED
  BY <1>1, <1>2 DEF Soon

-----------------------------------------------------------------------------

\* The invariant holds of an erased chip that nobody writes to.
LEMMA W25Starts == W25Init => W25Inv
<1> SUFFICES ASSUME W25Init PROVE W25Inv
  OBVIOUS
<1>1. Idle.at = 0 /\ Idle.cells = <<>> /\ <<>> \in Seq(Bits) /\ Len(<<>>) = 0 /\ ChipSize \in Nat
      /\ 1 \in Bits
  BY EmptySeq, ChipSizes DEF Idle, Bits
<1> HIDE DEF Idle
<1>2. ChipInv
  <2>1. mem \in [Cells -> Bits]
    BY <1>1, Zenon DEF W25Init
  <2>2. wel \in BOOLEAN
    BY DEF W25Init
  <2>3. chipOp.at = 0 /\ chipOp.cells = <<>>
    BY <1>1, Zenon DEF W25Init
  <2> QED
    BY <1>1, <2>1, <2>2, <2>3 DEF ChipInv
<1>3. LoopInv
  BY <1>1 DEF W25Init, LoopInv
<1>4. JobInv
  <2>1. job.at = 0 /\ job.cells = <<>>
    BY <1>1, Zenon DEF W25Init
  <2>2. merged = FALSE /\ w25Pc = "idle"
    BY DEF W25Init
  <2>3. job.cells \in Seq(Bits)
    BY <1>1, <2>1, Zenon
  <2>4. job.at + Len(job.cells) = 0 /\ job.at \in Nat
    BY <1>1, <2>1
  <2>5. job.at + Len(job.cells) <= ChipSize
    BY <1>1, <2>4
  <2> QED
    BY <2>2, <2>3, <2>4, <2>5 DEF JobInv
<1>5. CalmInv
  BY DEF W25Init, CalmInv
<1> QED
  BY <1>2, <1>3, <1>4, <1>5 DEF W25Inv

\* The chip gets ready.
LEMMA ChipDoneKeeps ==
  ASSUME W25Inv, ChipDone
  PROVE  W25Inv'
<1>1. /\ Busy /\ chipOp' = Idle
      /\ UNCHANGED <<wel, w25Pc, w25Addr, w25Buf, w25Len, asked25, job, merged, calm25>>
      /\ mem' = [c \in Cells |-> Soon(chipOp, mem, c)]
  BY DEF ChipDone, callVars, Soon
<1>2. ~Busy' /\ chipOp'.at = 0 /\ chipOp'.cells = <<>> /\ <<>> \in Seq(Bits) /\ Len(<<>>) = 0
  BY <1>1, EmptySeq DEF Busy, Idle
<1>3. \A c \in Cells : Soon(chipOp, mem, c) \in Bits
  BY SoonIsBit DEF W25Inv
<1>4. ChipInv'
  BY <1>1, <1>2, <1>3 DEF W25Inv, ChipInv
<1>5. LoopInv' /\ JobInv'
  BY <1>1 DEF W25Inv, LoopInv, JobInv
<1>6. ASSUME NEW c \in Cells PROVE Soon(chipOp', mem', c) = Soon(chipOp, mem, c)
  BY <1>1, IdleIsSoon
<1>7. CASE calm25
  <2>1. AskedInv /\ RestInv /\ MergeInv /\ ProgramInv
    BY <1>7 DEF W25Inv, CalmInv
  <2>2. w25Pc \notin {"idle", "read", "erase", "sector"}
    BY <1>1, <2>1 DEF RestInv
  <2>3. AskedInv' /\ RestInv' /\ MergeInv'
    BY <1>1, <2>1, <2>2 DEF AskedInv, RestInv, MergeInv
  <2>4. EndPos' = EndPos /\ (JobIsTarget' <=> JobIsTarget)
    BY <1>1 DEF JobIsTarget, EndPos, SecRemain, SecOff
  <2>5. ProgramInv'
    BY <1>1, <1>2, <1>6, <2>1, <2>4 DEF ProgramInv
  <2> QED
    BY <1>4, <1>5, <2>3, <2>5 DEF W25Inv, CalmInv
<1>8. CASE ~calm25
  BY <1>1, <1>4, <1>5, <1>8 DEF W25Inv, CalmInv
<1> QED
  BY <1>7, <1>8

\* A call begins: what it found is what it may not change.
LEMMA CallKeeps ==
  ASSUME W25Inv, NEW a \in Cells, NEW n \in WriteSizes, NEW d \in Patterns, a + n <= ChipSize,
         W25QXX_Write(a, SubSeq(d, 1, n))
  PROVE  W25Inv'
<1> DEFINE b == SubSeq(d, 1, n)
<1>1. n \in Nat /\ n > 0 /\ d \in [1..ChipSize -> Bits] /\ a \in Nat /\ ChipSize \in Nat
  BY ChipSizes, W25Assumption DEF Cells, Bits
<1>2. b \in Seq(Bits) /\ Len(b) = n
  <2>1. \A k \in 1 .. n : d[k] \in Bits
    BY <1>1
  <2>2. 1 \in Int /\ n \in Int /\ 1 <= n /\ n - 1 + 1 = n
    BY <1>1
  <2> QED
    BY <2>1, <2>2, SubSeqProperties
<1>3. /\ w25Pc = "idle" /\ w25Pc' = "read" /\ w25Addr' = a /\ w25Buf' = b /\ w25Len' = Len(b)
      /\ asked25' = IF Busy THEN Unknown ELSE [at |-> a, data |-> b, before |-> mem]
      /\ calm25' = ~Busy /\ UNCHANGED <<mem, chipOp, wel, job, merged>>
  BY DEF W25QXX_Write, chipVars
<1> HIDE DEF b
<1>4. ChipInv' /\ JobInv'
  BY <1>3 DEF W25Inv, ChipInv, JobInv
<1>5. LoopInv'
  BY <1>1, <1>2, <1>3 DEF LoopInv
<1>6. CASE ~Busy
  <2>1. asked25'.at = a /\ asked25'.data = b /\ asked25'.before = mem /\ ~Busy'
    BY <1>3, <1>6 DEF Busy
  <2>2. mem \in [Cells -> Bits]
    BY DEF W25Inv, ChipInv
  <2>3. AskedInv'
    <3>1. \A k \in 1 .. n : a - a + k = k
      BY <1>1
    <3>2. a <= a /\ a + n = a + n
      BY <1>1
    <3> QED
      BY <1>1, <1>2, <1>3, <2>1, <2>2, <3>1, <3>2 DEF AskedInv
  <2>4. ASSUME NEW c \in Cells PROVE mem'[c] = Target(asked25', w25Addr', c)
    <3>1. a .. a - 1 = {}
      BY <1>1
    <3> QED
      BY <1>3, <2>1, <3>1 DEF Target
  <2>5. RestInv' /\ MergeInv' /\ ProgramInv'
    BY <1>3, <2>1, <2>4 DEF RestInv, MergeInv, ProgramInv
  <2> QED
    BY <1>4, <1>5, <2>3, <2>5 DEF W25Inv, CalmInv
<1>7. CASE Busy
  BY <1>3, <1>4, <1>5, <1>7 DEF W25Inv, CalmInv
<1> QED
  BY <1>6, <1>7

\* A sector is read: what is written now is either the data as they are or the
\* sector with the data in it.
LEMMA ReadKeeps ==
  ASSUME W25Inv, ReadSector
  PROVE  W25Inv'
<1> DEFINE base == SecPos * SectorSize
           m == SecRemain
           q == SubSeq(w25Buf, 1, m)
<1>1. w25Pc = "read" /\ UNCHANGED <<mem, chipOp, wel, calm25>> /\ UNCHANGED callVars
  BY DEF ReadSector, chipVars
<1>2. PICK cells :
        /\ cells \in IF Busy THEN {[t \in 1..SectorSize |-> 0], [t \in 1..SectorSize |-> 1]}
                     ELSE {[t \in 1..SectorSize |-> mem[base + t - 1]]}
        /\ IF Blank(cells) THEN /\ w25Pc' = "program" /\ merged' = FALSE
                                /\ job' = [at |-> w25Addr, cells |-> q]
           ELSE /\ w25Pc' = "erase" /\ merged' = TRUE
                /\ job' = [at |-> base, cells |-> Merge(cells)]
  BY DEF ReadSector
<1>3. /\ base \in Nat /\ SecOff \in 0 .. SectorSize - 1 /\ w25Addr = base + SecOff
      /\ base + SectorSize <= ChipSize /\ m \in 1 .. w25Len /\ SecOff + m <= SectorSize
      /\ w25Len \in Nat /\ EndPos = w25Addr + m
  BY <1>1, InSector DEF W25Inv, EndPos
<1>4. /\ SectorSize \in Nat \ {0} /\ ChipSize \in Nat /\ w25Addr \in Nat /\ w25Addr + w25Len <= ChipSize
      /\ w25Buf \in Seq(Bits) /\ w25Len = Len(w25Buf) /\ LoopInv /\ JobInv /\ mem \in [Cells -> Bits]
  BY ChipSizes DEF W25Inv, LoopInv, ChipInv
<1> HIDE DEF base, m, q
<1>5. ASSUME NEW t \in 1 .. SectorSize PROVE base + t - 1 \in Cells /\ mem[base + t - 1] \in Bits
  <2>1. base + t - 1 \in 0 .. ChipSize - 1
    BY <1>3, <1>4
  <2> QED
    BY <1>4, <2>1 DEF Cells
<1>6. cells \in [1..SectorSize -> Bits]
  <2>1. 0 \in Bits /\ 1 \in Bits
    BY DEF Bits
  <2> QED
    BY <1>2, <1>5, <2>1
<1>7. ChipInv' /\ (AskedInv' <=> AskedInv) /\ UNCHANGED <<w25Addr, w25Buf, w25Len, asked25>>
      /\ EndPos' = EndPos /\ SecPos' = SecPos
  BY <1>1, WriteStays DEF W25Inv, ChipInv
<1>8. LoopInv'
  BY <1>1, <1>2, <1>7, <1>4 DEF LoopInv
<1>9. ASSUME calm25
      PROVE  /\ AskedInv /\ chipOp = Idle /\ ~Busy
             /\ \A c \in Cells : mem[c] = Target(asked25, w25Addr, c)
             /\ \A c \in Cells : Target(asked25, EndPos, c) =
                  IF c \in w25Addr .. w25Addr + m - 1 THEN w25Buf[c - w25Addr + 1] ELSE mem[c]
             /\ \A t \in 1 .. SectorSize : cells[t] = mem[base + t - 1]
  <2>1. AskedInv /\ chipOp = Idle /\ ~Busy /\ \A c \in Cells : mem[c] = Target(asked25, w25Addr, c)
    BY <1>1, <1>9 DEF W25Inv, CalmInv, RestInv, Busy
  <2>2. m \in Nat /\ m <= w25Len
    BY <1>3
  <2>3. \A c \in Cells : Target(asked25, w25Addr + m, c) =
          IF c \in w25Addr .. w25Addr + m - 1 THEN w25Buf[c - w25Addr + 1]
          ELSE Target(asked25, w25Addr, c)
    BY <1>4, <2>1, <2>2, TargetGrows
  <2>4. \A t \in 1 .. SectorSize : cells[t] = mem[base + t - 1]
    BY <1>2, <2>1
  <2> QED
    BY <1>3, <2>1, <2>3, <2>4
<1>10. CASE Blank(cells)
  <2>1. w25Pc' = "program" /\ merged' = FALSE /\ job'.at = w25Addr /\ job'.cells = q
    BY <1>2, <1>10
  <2>2. q \in Seq(Bits) /\ Len(q) = m /\ \A k \in 1 .. m : q[k] = w25Buf[k]
    <3>1. m \in Nat /\ m > 0 /\ 0 + m = m /\ 0 + 1 = 1 /\ \A k \in 1 .. m : 0 + k = k
      BY <1>3
    <3>2. \A k \in 0 + 1 .. 0 + m : w25Buf[k] \in Bits
      BY <1>3, <1>4, ElementOfSeq
    <3>3. /\ SubSeq(w25Buf, 0 + 1, 0 + m) \in Seq(Bits) /\ Len(SubSeq(w25Buf, 0 + 1, 0 + m)) = m
          /\ \A k \in 1 .. m : SubSeq(w25Buf, 0 + 1, 0 + m)[k] = w25Buf[0 + k]
      BY <3>1, <3>2, MiddleCut
    <3> QED
      BY <3>1, <3>3 DEF q
  <2>3. JobInv'
    <3>1. w25Addr + m <= ChipSize /\ m > 0
      BY <1>3, <1>4
    <3> QED
      BY <1>4, <2>1, <2>2, <3>1 DEF JobInv
  <2>4. ASSUME calm25 PROVE ProgramInv'
    <3>1. ASSUME NEW k \in 1 .. m PROVE q[k] = Target(asked25, EndPos, w25Addr + k - 1)
      <4>1. /\ w25Addr + k - 1 \in 0 .. ChipSize - 1 /\ w25Addr + k - 1 \in w25Addr .. w25Addr + m - 1
            /\ (w25Addr + k - 1) - w25Addr + 1 = k
        BY <1>3, <1>4
      <4> QED
        BY <1>9, <2>2, <2>4, <4>1 DEF Cells
    <3>2. ASSUME NEW c \in Cells, c \in w25Addr .. w25Addr + m - 1 PROVE mem[c] = 1
      <4>1. /\ c - base + 1 \in SecOff + 1 .. SecOff + m /\ c - base + 1 \in 1 .. SectorSize
            /\ base + (c - base + 1) - 1 = c
        BY <1>3, <1>4, <3>2
      <4>2. cells[c - base + 1] = 1
        BY <1>10, <4>1 DEF Blank, m
      <4> QED
        BY <1>9, <2>4, <4>1, <4>2
    <3>3. ASSUME NEW c \in Cells
          PROVE  Soon(chipOp, mem, c) = IF c \in w25Addr .. w25Addr + m - 1 THEN 1
                                        ELSE Target(asked25, EndPos, c)
      <4>1. Soon(chipOp, mem, c) = mem[c]
        BY <1>9, <2>4, IdleIsSoon
      <4> QED
        BY <1>9, <2>4, <3>2, <4>1
    <3>4. JobIsTarget'
      BY <1>7, <2>1, <2>2, <3>1 DEF JobIsTarget
    <3>5. chipOp' = Idle
      BY <1>1, <1>9, <2>4
    <3> QED
      BY <1>1, <1>7, <2>1, <2>2, <3>3, <3>4, <3>5 DEF ProgramInv, Busy
  <2>5. CalmInv'
    BY <1>1, <1>7, <1>9, <2>1, <2>4 DEF CalmInv, RestInv, MergeInv
  <2> QED
    BY <1>7, <1>8, <2>3, <2>5 DEF W25Inv
<1>11. CASE ~Blank(cells)
  <2>1. w25Pc' = "erase" /\ merged' = TRUE /\ job'.at = base /\ job'.cells = Merge(cells)
    BY <1>2, <1>11
  <2>2. Merge(cells) = [t \in 1..SectorSize |->
          IF t - 1 \in SecOff .. SecOff + m - 1 THEN w25Buf[t - SecOff] ELSE cells[t]]
    BY DEF Merge, m
  <2>3. Merge(cells) \in Seq(Bits) /\ Len(Merge(cells)) = SectorSize
    <3>1. ASSUME NEW t \in 1 .. SectorSize, t - 1 \in SecOff .. SecOff + m - 1
          PROVE  w25Buf[t - SecOff] \in Bits
      <4>1. t - SecOff \in 1 .. Len(w25Buf)
        BY <1>3, <1>4, <3>1
      <4> QED
        BY <1>4, <4>1, ElementOfSeq
    <3>2. Merge(cells) \in [1..SectorSize -> Bits]
      BY <1>6, <2>2, <3>1
    <3> QED
      BY <1>4, <3>2, IsRun
  <2>4. JobInv'
    BY <1>3, <1>4, <2>1, <2>3 DEF JobInv
  <2>5. ASSUME calm25 PROVE RestInv' /\ MergeInv'
    <3>1. RestInv'
      BY <1>1, <1>7, <1>9, <2>1, <2>5 DEF RestInv, Busy
    <3>2. ASSUME NEW k \in 1 .. SectorSize
          PROVE  Merge(cells)[k] = Target(asked25, EndPos, base + k - 1)
      <4>1. base + k - 1 \in Cells
        BY <1>5
      <4>2. /\ k - 1 \in SecOff .. SecOff + m - 1 <=> base + k - 1 \in w25Addr .. w25Addr + m - 1
            /\ (base + k - 1) - w25Addr + 1 = k - SecOff
        BY <1>3, <1>4
      <4>3. cells[k] = mem[base + k - 1]
        BY <1>9, <2>5
      <4> QED
        BY <1>9, <2>2, <2>5, <4>1, <4>2, <4>3
    <3>3. JobIsTarget'
      BY <1>7, <2>1, <2>3, <3>2 DEF JobIsTarget
    <3>4. job'.at = SecPos' * SectorSize
      BY <1>7, <2>1 DEF base
    <3> QED
      BY <2>1, <2>3, <3>1, <3>3, <3>4 DEF MergeInv
  <2>6. CalmInv'
    BY <1>1, <1>7, <1>9, <2>1, <2>5 DEF CalmInv, ProgramInv
  <2> QED
    BY <1>7, <1>8, <2>4, <2>6 DEF W25Inv
<1> QED
  BY <1>10, <1>11

\* The write enable of an erasure.
LEMMA EnableKeeps ==
  ASSUME W25Inv, EraseEnable
  PROVE  W25Inv'
<1>1. /\ w25Pc = "erase" /\ w25Pc' = "sector" /\ wel' = (wel \/ ~Busy)
      /\ UNCHANGED <<mem, chipOp, job, merged, calm25>> /\ UNCHANGED callVars
  BY DEF EraseEnable
<1>2. /\ UNCHANGED <<w25Addr, w25Buf, w25Len, asked25>> /\ SecPos' = SecPos /\ EndPos' = EndPos
      /\ AskedInv' <=> AskedInv
  BY <1>1, WriteStays
<1>3. ChipInv'
  BY <1>1 DEF W25Inv, ChipInv
<1>4. LoopInv' /\ JobInv'
  BY <1>1, <1>2 DEF W25Inv, LoopInv, JobInv
<1>5. ASSUME calm25 PROVE AskedInv' /\ RestInv' /\ MergeInv' /\ ProgramInv'
  <2>1. AskedInv /\ RestInv /\ MergeInv
    BY <1>5 DEF W25Inv, CalmInv
  <2>2. RestInv'
    BY <1>1, <1>2, <2>1 DEF RestInv, Busy
  <2>3. MergeInv' /\ ProgramInv'
    BY <1>1, <1>2, <2>1 DEF MergeInv, ProgramInv, JobIsTarget
  <2> QED
    BY <1>2, <2>1, <2>2, <2>3
<1> QED
  BY <1>1, <1>3, <1>4, <1>5 DEF W25Inv, CalmInv

\* The erasure of the sector the merged data go to.
LEMMA EraseKeeps ==
  ASSUME W25Inv, EraseSector
  PROVE  W25Inv'
<1> DEFINE base == SecPos * SectorSize
           ones == [t \in 1..SectorSize |-> 1]
<1>1. /\ w25Pc = "sector" /\ ~Busy /\ w25Pc' = "program" /\ wel' = FALSE
      /\ chipOp' = IF wel THEN [at |-> base, cells |-> ones] ELSE Idle
      /\ UNCHANGED <<mem, job, merged, calm25>> /\ UNCHANGED callVars
  BY DEF EraseSector, ErasedSector
<1>2. /\ UNCHANGED <<w25Addr, w25Buf, w25Len, asked25>> /\ EndPos' = EndPos /\ (AskedInv' <=> AskedInv)
  BY <1>1, WriteStays
<1>3. ones \in Seq(Bits) /\ Len(ones) = SectorSize
  <2>1. ones \in [1..SectorSize -> Bits]
    BY DEF Bits
  <2> QED
    BY <2>1, ChipSizes, IsRun
<1>4. /\ base \in Nat /\ SecOff \in 0 .. SectorSize - 1 /\ w25Addr = base + SecOff
      /\ SecRemain \in 1 .. w25Len /\ SecOff + SecRemain <= SectorSize
      /\ w25Len \in Nat /\ EndPos = w25Addr + SecRemain /\ SectorSize \in Nat
  BY <1>1, InSector, ChipSizes DEF W25Inv, EndPos
<1>5. ASSUME NEW t \in 1 .. SectorSize PROVE ones[t] = 1
  OBVIOUS
<1>6. Idle.at = 0 /\ Idle.cells = <<>> /\ <<>> \in Seq(Bits)
  BY EmptySeq DEF Idle
<1> HIDE DEF base, ones, Idle
<1>7. ChipInv'
  <2>1. CASE wel
    <3>1. chipOp'.at = base /\ chipOp'.cells = ones
      BY <1>1, <2>1
    <3> QED
      BY <1>1, <1>3, <1>4, <3>1 DEF W25Inv, ChipInv
  <2>2. CASE ~wel
    <3>1. chipOp'.at = 0 /\ chipOp'.cells = <<>>
      BY <1>1, <1>6, <2>2
    <3>2. chipOp'.at \in Nat
      BY <3>1
    <3>3. chipOp'.cells \in Seq(Bits)
      BY <1>6, <3>1, Zenon
    <3> QED
      BY <1>1, <3>2, <3>3 DEF W25Inv, ChipInv
  <2> QED
    BY <2>1, <2>2
<1>8. LoopInv' /\ JobInv'
  <2>1. w25Pc # "idle" /\ w25Pc \in {"erase", "sector", "program"}
    BY <1>1
  <2> QED
    BY <1>1, <1>2, <2>1 DEF W25Inv, LoopInv, JobInv
<1>9. ASSUME calm25 PROVE AskedInv' /\ RestInv' /\ MergeInv' /\ ProgramInv'
  <2>1. /\ AskedInv /\ JobIsTarget /\ merged /\ wel
        /\ job.at = base /\ Len(job.cells) = SectorSize
        /\ \A c \in Cells : mem[c] = Target(asked25, w25Addr, c)
    BY <1>1, <1>9 DEF W25Inv, CalmInv, RestInv, MergeInv, base
  <2>2. chipOp'.at = base /\ chipOp'.cells = ones
    BY <1>1, <2>1
  <2>3. ASSUME NEW c \in Cells
        PROVE  Soon(chipOp', mem', c) = IF c \in base .. base + SectorSize - 1 THEN 1
                                        ELSE Target(asked25, EndPos, c)
    <3>1. CASE c \in base .. base + SectorSize - 1
      <4>1. c - base + 1 \in 1 .. SectorSize
        BY <1>4, <3>1
      <4>2. ones[c - base + 1] = 1
        BY <1>5, <4>1
      <4> QED
        BY <1>3, <2>2, <3>1, <4>2 DEF Soon
    <3>2. CASE c \notin base .. base + SectorSize - 1
      <4>1. Soon(chipOp', mem', c) = mem[c]
        BY <1>1, <1>3, <2>2, <3>2 DEF Soon
      <4>2. c \notin w25Addr .. w25Addr + SecRemain - 1
        BY <1>4, <3>2
      <4>3. LoopInv /\ SecRemain \in Nat /\ SecRemain <= w25Len
        BY <1>4 DEF W25Inv
      <4>4. Target(asked25, w25Addr + SecRemain, c) =
              IF c \in w25Addr .. w25Addr + SecRemain - 1 THEN w25Buf[c - w25Addr + 1]
              ELSE Target(asked25, w25Addr, c)
        BY <2>1, <4>3, TargetGrows
      <4> QED
        BY <1>4, <2>1, <3>2, <4>1, <4>2, <4>4
    <3> QED
      BY <3>1, <3>2
  <2>4. JobIsTarget'
    BY <1>1, <1>2, <2>1 DEF JobIsTarget
  <2>5. ProgramInv'
    BY <1>1, <1>2, <2>1, <2>3, <2>4 DEF ProgramInv
  <2> QED
    BY <1>1, <1>2, <2>1, <2>5 DEF RestInv, MergeInv
<1> QED
  BY <1>1, <1>7, <1>8, <1>9 DEF W25Inv, CalmInv

\* A page that is programmed: it lies in the chip, its cells stay bits, and on
\* erased cells it puts the job's and leaves the rest of the page.
LEMMA PageIsProgrammed ==
  ASSUME W25Inv, w25Pc = "program",
         NEW p \in Nat, p = PageRemain, NEW op, op = Wrapped25(job.at, SubSeq(job.cells, 1, p))
  PROVE  /\ p \in 1 .. Len(job.cells)
         /\ op.at \in Nat /\ op.cells \in Seq(Bits)
         /\ \A c \in Cells :
              (\A x \in Cells : x \in job.at .. job.at + p - 1 => mem[x] = 1) =>
                Soon(op, mem, c) = IF c \in job.at .. job.at + p - 1 THEN job.cells[c - job.at + 1]
                                   ELSE mem[c]
<1> DEFINE first == job.at
           L == Len(job.cells)
           off == first % WritePage
           page == first - off
           q == SubSeq(job.cells, 1, p)
           new == [t \in 1..WritePage |->
                     IF \E k \in DOMAIN q : (first + k - 1) % WritePage = t - 1
                     THEN q[CHOOSE k \in DOMAIN q : (first + k - 1) % WritePage = t - 1] ELSE 1]
           put == [t \in 1..WritePage |-> Min25(new[t], mem[page + t - 1])]
<1>1. /\ first \in Nat /\ job.cells \in Seq(Bits) /\ L \in Nat /\ L > 0 /\ first + L <= ChipSize
      /\ mem \in [Cells -> Bits] /\ WritePage \in Nat \ {0} /\ ChipSize \in Nat
      /\ ChipSize % WritePage = 0
  BY LenProperties, ChipSizes DEF W25Inv, JobInv, ChipInv
<1>2. p = IF L < WritePage - off THEN L ELSE WritePage - off
  BY DEF PageRemain, Min25
<1>3. op.at = page /\ op.cells = put
  <2>1. op = Programmed(page, new)
    BY DEF Wrapped25
  <2>2. DOMAIN new = 1 .. WritePage
    OBVIOUS
  <2> HIDE DEF new, page
  <2>3. op = [at |-> page, cells |-> [t \in DOMAIN new |-> Min25(new[t], mem[page + t - 1])]]
    BY <2>1, Zenon DEF Programmed
  <2>4. [t \in DOMAIN new |-> Min25(new[t], mem[page + t - 1])] = put
    BY <2>2, Zenon
  <2> HIDE DEF put
  <2>5. op = [at |-> page, cells |-> put]
    BY <2>3, <2>4, Zenon
  <2> QED
    BY <2>5
<1> HIDE DEF first, L, off, page, q, new, put
<1>4. off \in 0 .. WritePage - 1 /\ page \in Nat /\ first = page + off /\ page + WritePage <= ChipSize
  <2>1. /\ (first \div WritePage) * WritePage \in Nat /\ first % WritePage \in 0 .. WritePage - 1
        /\ first = (first \div WritePage) * WritePage + (first % WritePage)
    BY <1>1, Blocks
  <2>2. (first \div WritePage) * WritePage + WritePage <= ChipSize
    <3>1. first < ChipSize
      BY <1>1
    <3> QED
      BY <1>1, <3>1, BlockFits
  <2> DEFINE z == (first \div WritePage) * WritePage
  <2> HIDE DEF z
  <2>3. z \in Nat /\ off \in 0 .. WritePage - 1 /\ first = z + off /\ z + WritePage <= ChipSize
    BY <2>1, <2>2 DEF z, off
  <2>4. page = z
    BY <2>3, <1>1 DEF page
  <2> QED
    BY <2>3, <2>4
<1>5. p \in 1 .. L /\ off + p <= WritePage
  BY <1>1, <1>2, <1>4
<1>6. q \in Seq(Bits) /\ Len(q) = p /\ \A k \in 1 .. p : q[k] = job.cells[k]
  <2>1. p > 0 /\ 0 + p = p /\ 0 + 1 = 1 /\ \A k \in 1 .. p : 0 + k = k
    BY <1>5
  <2>2. \A k \in 0 + 1 .. 0 + p : job.cells[k] \in Bits
    BY <1>1, <1>5, ElementOfSeq DEF L
  <2>3. /\ SubSeq(job.cells, 0 + 1, 0 + p) \in Seq(Bits)
        /\ Len(SubSeq(job.cells, 0 + 1, 0 + p)) = p
        /\ \A k \in 1 .. p : SubSeq(job.cells, 0 + 1, 0 + p)[k] = job.cells[0 + k]
    BY <2>1, <2>2, MiddleCut
  <2> QED
    BY <2>1, <2>3 DEF q
<1>7. DOMAIN q = 1 .. p
  BY <1>6, LenProperties
<1>8. ASSUME NEW k \in 1 .. p PROVE (first + k - 1) % WritePage = off + k - 1
  <2>1. k - 1 \in Nat /\ off + (k - 1) < WritePage /\ first + (k - 1) = first + k - 1
        /\ off + (k - 1) = off + k - 1
    BY <1>1, <1>4, <1>5
  <2>2. (first + (k - 1)) % WritePage = off + (k - 1)
    BY <1>1, <2>1, InBlock DEF off
  <2> QED
    BY <2>1, <2>2
<1>9. ASSUME NEW t \in 1 .. WritePage, t - 1 \in off .. off + p - 1
      PROVE  new[t] = q[t - off] /\ t - off \in 1 .. p
  <2>1. t - off \in 1 .. p /\ off + (t - off) - 1 = t - 1
    BY <1>4, <1>5, <1>9
  <2>2. (first + (t - off) - 1) % WritePage = t - 1
    BY <1>8, <2>1
  <2> DEFINE H(k) == (first + k - 1) % WritePage = t - 1
  <2>3. \A k \in 1 .. p : H(k) => k = t - off
    <3> SUFFICES ASSUME NEW k \in 1 .. p, H(k) PROVE k = t - off
      OBVIOUS
    <3>1. off + k - 1 = t - 1
      BY <1>8
    <3> QED
      BY <1>4, <1>5, <3>1
  <2>4. H(t - off)
    BY <2>2
  <2>5. new[t] = IF \E k \in 1 .. p : H(k) THEN q[CHOOSE k \in 1 .. p : H(k)] ELSE 1
    BY <1>7 DEF new
  <2> HIDE DEF H
  <2>6. (CHOOSE k \in 1 .. p : H(k)) = t - off
    BY <2>1, <2>3, <2>4
  <2> QED
    BY <2>1, <2>4, <2>5, <2>6
<1>10. ASSUME NEW t \in 1 .. WritePage, t - 1 \notin off .. off + p - 1
       PROVE  new[t] = 1
  <2> DEFINE H(k) == (first + k - 1) % WritePage = t - 1
  <2>1. \A k \in 1 .. p : ~H(k)
    <3> SUFFICES ASSUME NEW k \in 1 .. p, H(k) PROVE FALSE
      OBVIOUS
    <3>1. off + k - 1 = t - 1
      BY <1>8
    <3> QED
      BY <1>4, <1>5, <1>10, <3>1
  <2>2. new[t] = IF \E k \in 1 .. p : H(k) THEN q[CHOOSE k \in 1 .. p : H(k)] ELSE 1
    BY <1>7 DEF new
  <2> HIDE DEF H
  <2> QED
    BY <2>1, <2>2
<1>11. ASSUME NEW t \in 1 .. WritePage
       PROVE  /\ page + t - 1 \in Cells /\ mem[page + t - 1] \in Bits /\ new[t] \in Bits
              /\ put[t] = Min25(new[t], mem[page + t - 1]) /\ put[t] \in Bits
  <2>1. page + t - 1 \in 0 .. ChipSize - 1
    BY <1>1, <1>4
  <2>2. page + t - 1 \in Cells /\ mem[page + t - 1] \in Bits
    BY <1>1, <2>1 DEF Cells
  <2>3. new[t] \in Bits
    <3>1. CASE t - 1 \in off .. off + p - 1
      BY <1>6, <1>9, <3>1, ElementOfSeq
    <3>2. CASE t - 1 \notin off .. off + p - 1
      BY <1>10, <3>2 DEF Bits
    <3> QED
      BY <3>1, <3>2
  <2>4. put[t] = Min25(new[t], mem[page + t - 1])
    BY DEF put
  <2> QED
    BY <2>2, <2>3, <2>4 DEF Min25
<1>12. put \in Seq(Bits) /\ Len(put) = WritePage
  <2>1. put \in [1..WritePage -> Bits]
    BY <1>11 DEF put
  <2> QED
    BY <1>1, <2>1, IsRun
<1>13. ASSUME NEW c \in Cells, \A x \in Cells : x \in first .. first + p - 1 => mem[x] = 1
       PROVE  Soon(op, mem, c) = IF c \in first .. first + p - 1 THEN job.cells[c - first + 1] ELSE mem[c]
  <2>1. CASE c \notin page .. page + WritePage - 1
    <3>1. Soon(op, mem, c) = mem[c]
      BY <1>3, <1>12, <2>1 DEF Soon
    <3>2. c \notin first .. first + p - 1
      BY <1>1, <1>4, <1>5, <2>1
    <3> QED
      BY <3>1, <3>2
  <2>2. CASE c \in page .. page + WritePage - 1
    <3> DEFINE t == c - page + 1
    <3>1. t \in 1 .. WritePage /\ page + t - 1 = c
      BY <1>1, <1>4, <2>2
    <3>2. Soon(op, mem, c) = put[t]
      BY <1>3, <1>12, <2>2 DEF Soon
    <3>3. t - 1 \in off .. off + p - 1 <=> c \in first .. first + p - 1
      BY <1>1, <1>4, <1>5, <2>2
    <3>4. t - off = c - first + 1
      BY <1>1, <1>4, <2>2
    <3> HIDE DEF t
    <3>5. put[t] = Min25(new[t], mem[c]) /\ mem[c] \in Bits
      BY <1>11, <3>1
    <3>6. CASE c \in first .. first + p - 1
      <4>1. new[t] = q[t - off] /\ t - off \in 1 .. p
        BY <1>9, <3>1, <3>3, <3>6
      <4>2. new[t] = job.cells[c - first + 1] /\ job.cells[c - first + 1] \in Bits
        BY <1>6, <3>4, <4>1, ElementOfSeq
      <4>3. mem[c] = 1
        BY <1>13, <3>6
      <4> QED
        BY <3>2, <3>5, <3>6, <4>2, <4>3 DEF Min25, Bits
    <3>7. CASE c \notin first .. first + p - 1
      <4>1. new[t] = 1
        BY <1>10, <3>1, <3>3, <3>7
      <4> QED
        BY <3>2, <3>5, <3>7, <4>1 DEF Min25, Bits
    <3> QED
      BY <3>6, <3>7
  <2> QED
    BY <2>1, <2>2
<1> QED
  BY <1>3, <1>4, <1>5, <1>12, <1>13 DEF first, L

\* A page is programmed, of erased cells when the call is calm.
LEMMA PageKeeps ==
  ASSUME W25Inv, WritePageStep
  PROVE  W25Inv'
<1> DEFINE p == PageRemain
           L == Len(job.cells)
           op == Wrapped25(job.at, SubSeq(job.cells, 1, p))
           rest == SubSeq(job.cells, p + 1, L)
<1>1. /\ w25Pc = "program" /\ (merged => ~Busy) /\ w25Pc' = "wait"
      /\ chipOp' = IF Busy THEN chipOp ELSE op
      /\ wel' = (wel /\ Busy)
      /\ job' = [at |-> job.at + p, cells |-> rest]
      /\ UNCHANGED <<mem, merged, calm25>> /\ UNCHANGED callVars
  BY DEF WritePageStep, Ready25
<1>2. /\ UNCHANGED <<w25Addr, w25Buf, w25Len, asked25>> /\ EndPos' = EndPos /\ (AskedInv' <=> AskedInv)
  BY <1>1, WriteStays
<1>3. /\ job.at \in Nat /\ job.cells \in Seq(Bits) /\ L \in Nat /\ L > 0 /\ job.at + L <= ChipSize
      /\ ChipSize \in Nat /\ WritePage \in Nat \ {0}
  BY <1>1, LenProperties, ChipSizes DEF W25Inv, JobInv
<1>4. p \in Nat
  <2>1. job.at % WritePage \in 0 .. WritePage - 1
    BY <1>3, Blocks
  <2> QED
    BY <1>3, <2>1 DEF PageRemain, Min25
<1>5. /\ p \in 1 .. L /\ op.at \in Nat /\ op.cells \in Seq(Bits)
      /\ \A c \in Cells :
           (\A x \in Cells : x \in job.at .. job.at + p - 1 => mem[x] = 1) =>
             Soon(op, mem, c) = IF c \in job.at .. job.at + p - 1 THEN job.cells[c - job.at + 1]
                                ELSE mem[c]
  <2> HIDE DEF p
  <2>1. p = PageRemain
    BY DEF p
  <2> QED
    BY <1>1, <1>4, <2>1, PageIsProgrammed
<1> HIDE DEF p, op
<1>6. rest \in Seq(Bits) /\ Len(rest) = L - p /\ \A k \in 1 .. L - p : rest[k] = job.cells[p + k]
  <2>1. p + 1 \in Int /\ L \in Int
    BY <1>3, <1>5
  <2>2. \A k \in p + 1 .. L : job.cells[k] \in Bits
    BY <1>3, <1>5, ElementOfSeq
  <2>3. /\ rest \in Seq(Bits)
        /\ Len(rest) = IF p + 1 <= L THEN L - (p + 1) + 1 ELSE 0
        /\ \A k \in 1 .. L - (p + 1) + 1 : rest[k] = job.cells[(p + 1) + k - 1]
    BY <2>1, <2>2, SubSeqProperties
  <2> HIDE DEF rest
  <2>4. L - (p + 1) + 1 = L - p /\ \A k \in 1 .. L - p : (p + 1) + k - 1 = p + k
    BY <1>3, <1>5
  <2>5. Len(rest) = L - p
    BY <1>3, <1>5, <2>3
  <2> QED
    BY <2>3, <2>4, <2>5
<1> HIDE DEF rest, L
<1>60. /\ job.at \in Nat /\ L \in Nat /\ job.at + L <= ChipSize /\ ChipSize \in Nat
       /\ p \in Nat /\ 1 <= p /\ p <= L
  BY <1>3, <1>5
<1>7. ChipInv'
  BY <1>1, <1>5 DEF W25Inv, ChipInv
<1>8. LoopInv'
  BY <1>1, <1>2 DEF W25Inv, LoopInv
<1>9. job'.at = job.at + p /\ job'.cells = rest
  BY <1>1
<1>10. JobInv'
  <2>1. job.at + p \in Nat /\ (job.at + p) + (L - p) <= ChipSize
    BY <1>60
  <2>2. merged \in BOOLEAN
    BY DEF W25Inv, JobInv
  <2> QED
    BY <1>1, <1>6, <1>9, <2>1, <2>2 DEF JobInv
<1>11. ASSUME calm25 PROVE AskedInv' /\ RestInv' /\ MergeInv' /\ ProgramInv'
  <2>1. /\ AskedInv /\ JobIsTarget /\ ~Busy
        /\ \A c \in Cells : Soon(chipOp, mem, c) =
             IF c \in job.at .. job.at + L - 1 THEN 1 ELSE Target(asked25, EndPos, c)
    BY <1>1, <1>11 DEF W25Inv, CalmInv, ProgramInv, L
  <2>2. \A c \in Cells : mem[c] = IF c \in job.at .. job.at + L - 1 THEN 1
                                  ELSE Target(asked25, EndPos, c)
    BY <2>1, IdleIsSoon DEF Busy
  <2>3. \A k \in 1 .. L : job.cells[k] = Target(asked25, EndPos, job.at + k - 1)
    BY <2>1 DEF JobIsTarget, L
  <2>4. \A x \in Cells : x \in job.at .. job.at + p - 1 => mem[x] = 1
    BY <1>60, <2>2 DEF Cells
  <2>5. ASSUME NEW c \in Cells
        PROVE  Soon(op, mem, c) =
                 IF c \in job.at + p .. (job.at + p) + (L - p) - 1 THEN 1
                 ELSE Target(asked25, EndPos, c)
    <3>1. Soon(op, mem, c) = IF c \in job.at .. job.at + p - 1 THEN job.cells[c - job.at + 1]
                             ELSE mem[c]
      BY <1>5, <2>4
    <3>2. c \in Nat
      BY <1>60 DEF Cells
    <3>3. CASE c \in job.at .. job.at + p - 1
      <4>1. /\ c - job.at + 1 \in 1 .. L /\ job.at + (c - job.at + 1) - 1 = c
            /\ c \notin job.at + p .. (job.at + p) + (L - p) - 1
        BY <1>60, <3>2, <3>3
      <4>2. job.cells[c - job.at + 1] = Target(asked25, EndPos, c)
        BY <2>3, <4>1
      <4> QED
        BY <3>1, <3>3, <4>1, <4>2
    <3>4. CASE c \notin job.at .. job.at + p - 1
      <4>1. c \in job.at .. job.at + L - 1 <=> c \in job.at + p .. (job.at + p) + (L - p) - 1
        BY <1>60, <3>2, <3>4
      <4> QED
        BY <2>2, <3>1, <3>4, <4>1
    <3> QED
      BY <3>3, <3>4
  <2>6. ASSUME NEW k \in 1 .. L - p
        PROVE  rest[k] = Target(asked25, EndPos, (job.at + p) + k - 1)
    <3>1. p + k \in 1 .. L /\ job.at + (p + k) - 1 = (job.at + p) + k - 1
      BY <1>60
    <3> QED
      BY <1>6, <2>3, <3>1
  <2>7. JobIsTarget'
    BY <1>2, <1>6, <1>9, <2>6 DEF JobIsTarget
  <2>8. chipOp' = op
    BY <1>1, <2>1
  <2>9. ASSUME NEW c \in Cells
        PROVE  Soon(chipOp', mem', c) = IF c \in job'.at .. job'.at + Len(job'.cells) - 1 THEN 1
                                        ELSE Target(asked25', EndPos', c)
    BY <1>1, <1>2, <1>6, <1>9, <2>5, <2>8
  <2>10. ProgramInv'
    BY <1>1, <2>7, <2>9 DEF ProgramInv
  <2> QED
    BY <1>1, <1>2, <2>1, <2>10 DEF RestInv, MergeInv
<1> QED
  BY <1>1, <1>7, <1>8, <1>10, <1>11 DEF W25Inv, CalmInv

\* The chip is ready: the next page, or the sector is done.
LEMMA PageDoneKeeps ==
  ASSUME W25Inv, PageDone
  PROVE  W25Inv'
<1>1. /\ w25Pc = "wait" /\ ~Busy /\ UNCHANGED <<mem, chipOp, wel, calm25>>
  BY DEF PageDone, chipVars
<1>2. ChipInv'
  BY <1>1 DEF W25Inv, ChipInv
<1>3. CASE job.cells # <<>>
  <2>1. w25Pc' = "program" /\ UNCHANGED callVars /\ UNCHANGED <<job, merged>>
    BY <1>3 DEF PageDone
  <2>2. /\ UNCHANGED <<w25Addr, w25Buf, w25Len, asked25>> /\ EndPos' = EndPos /\ (AskedInv' <=> AskedInv)
    BY <2>1, WriteStays
  <2>3. LoopInv'
    BY <1>1, <2>1, <2>2 DEF W25Inv, LoopInv
  <2>4. JobInv'
    <3>1. Len(job.cells) > 0
      BY <1>3, LenProperties, EmptySeq DEF W25Inv, JobInv
    <3> QED
      BY <1>1, <2>1, <3>1 DEF W25Inv, JobInv
  <2>5. CalmInv'
    <3>1. ASSUME calm25 PROVE AskedInv' /\ ProgramInv'
      <4>1. AskedInv /\ ProgramInv
        BY <3>1 DEF W25Inv, CalmInv
      <4> QED
        BY <1>1, <2>1, <2>2, <4>1 DEF ProgramInv, JobIsTarget, Busy
    <3> QED
      BY <1>1, <2>1, <3>1 DEF CalmInv, RestInv, MergeInv
  <2> QED
    BY <1>2, <2>3, <2>4, <2>5 DEF W25Inv
<1>4. CASE job.cells = <<>>
  <2> DEFINE m == SecRemain
             q == SubSeq(w25Buf, m + 1, w25Len)
  <2>1. /\ w25Pc' = IF w25Len = m THEN "idle" ELSE "read"
        /\ w25Addr' = w25Addr + m /\ w25Buf' = q /\ w25Len' = w25Len - m
        /\ job' = Idle /\ merged' = FALSE /\ asked25' = asked25
    BY <1>4 DEF PageDone
  <2>2. m \in 1 .. w25Len /\ w25Len \in Nat /\ EndPos = w25Addr + m
    BY <1>1, InSector DEF W25Inv, EndPos
  <2>3. w25Addr \in Nat /\ w25Buf \in Seq(Bits) /\ w25Len = Len(w25Buf) /\ w25Addr + w25Len <= ChipSize
        /\ ChipSize \in Nat
    BY ChipSizes DEF W25Inv, LoopInv
  <2> HIDE DEF m
  <2>4. q \in Seq(Bits) /\ Len(q) = w25Len - m /\ \A k \in 1 .. w25Len - m : q[k] = w25Buf[m + k]
    <3>1. m + 1 \in Int /\ w25Len \in Int
      BY <2>2
    <3>2. \A k \in m + 1 .. w25Len : w25Buf[k] \in Bits
      BY <2>2, <2>3, ElementOfSeq
    <3>3. /\ q \in Seq(Bits)
          /\ Len(q) = IF m + 1 <= w25Len THEN w25Len - (m + 1) + 1 ELSE 0
          /\ \A k \in 1 .. w25Len - (m + 1) + 1 : q[k] = w25Buf[(m + 1) + k - 1]
      BY <3>1, <3>2, SubSeqProperties
    <3> HIDE DEF q
    <3>4. w25Len - (m + 1) + 1 = w25Len - m /\ \A k \in 1 .. w25Len - m : (m + 1) + k - 1 = m + k
      BY <2>2
    <3>5. Len(q) = w25Len - m
      BY <2>2, <3>3
    <3> QED
      BY <3>3, <3>4, <3>5
  <2> HIDE DEF q
  <2>5. LoopInv'
    <3>1. w25Addr + m \in Nat /\ (w25Addr + m) + (w25Len - m) <= ChipSize
      BY <2>2, <2>3
    <3>2. w25Len # m => w25Len - m > 0
      BY <2>2
    <3> QED
      BY <2>1, <2>3, <2>4, <3>1, <3>2 DEF LoopInv
  <2>6. JobInv'
    BY <1>1, <2>1, IdleJob DEF JobInv
  <2>7. ASSUME calm25 PROVE AskedInv' /\ RestInv' /\ MergeInv' /\ ProgramInv'
    <3>1. /\ AskedInv
          /\ \A c \in Cells : Soon(chipOp, mem, c) =
               IF c \in job.at .. job.at + Len(job.cells) - 1 THEN 1 ELSE Target(asked25, EndPos, c)
      BY <1>1, <2>7 DEF W25Inv, CalmInv, ProgramInv
    <3>2. \A c \in Cells : mem[c] = Target(asked25, w25Addr + m, c)
      <4>1. job.at \in Nat /\ Len(job.cells) = 0
        BY <1>4, EmptySeq DEF W25Inv, JobInv
      <4>2. job.at .. job.at + Len(job.cells) - 1 = {}
        BY <4>1
      <4> QED
        BY <1>1, <2>2, <3>1, <4>2, IdleIsSoon DEF Busy
    <3>3. AskedInv'
      <4>1. /\ asked25.at \in Nat /\ asked25.at <= w25Addr
            /\ asked25.data \in Seq(Bits) /\ w25Addr + w25Len = asked25.at + Len(asked25.data)
            /\ asked25.before \in [Cells -> Bits]
            /\ \A k \in 1 .. w25Len : w25Buf[k] = asked25.data[w25Addr - asked25.at + k]
            /\ Len(asked25.data) \in Nat
        BY <3>1, LenProperties DEF AskedInv
      <4>2. asked25.at <= w25Addr + m /\ (w25Addr + m) + (w25Len - m) = asked25.at + Len(asked25.data)
        BY <2>2, <2>3, <4>1
      <4>3. ASSUME NEW k \in 1 .. w25Len - m
            PROVE  q[k] = asked25.data[(w25Addr + m) - asked25.at + k]
        <5>1. m + k \in 1 .. w25Len
              /\ w25Addr - asked25.at + (m + k) = (w25Addr + m) - asked25.at + k
          BY <2>2, <2>3, <4>1
        <5> QED
          BY <2>4, <4>1, <5>1
      <4> QED
        BY <2>1, <4>1, <4>2, <4>3 DEF AskedInv
    <3>4. RestInv'
      <4>1. ~Busy'
        BY <1>1 DEF Busy
      <4>2. w25Len = m => w25Len - m = 0
        BY <2>2
      <4> QED
        BY <1>1, <2>1, <3>2, <4>1, <4>2 DEF RestInv
    <3> QED
      BY <2>1, <3>3, <3>4 DEF MergeInv, ProgramInv
  <2> QED
    BY <1>1, <1>2, <2>5, <2>6, <2>7 DEF W25Inv, CalmInv
<1> QED
  BY <1>3, <1>4

\* The processor is reset: the call is gone, and nothing is promised of it.
LEMMA ResetKeeps ==
  ASSUME W25Inv, Reset25
  PROVE  W25Inv'
<1>1. /\ w25Pc' = "idle" /\ w25Addr' = 0 /\ w25Buf' = <<>> /\ w25Len' = 0 /\ job' = Idle
      /\ merged' = FALSE /\ calm25' = FALSE /\ UNCHANGED <<mem, chipOp, wel>>
  BY DEF Reset25, chipVars
<1>2. ChipInv'
  BY <1>1 DEF W25Inv, ChipInv
<1>3. LoopInv'
  <2>1. <<>> \in Seq(Bits) /\ Len(<<>>) = 0 /\ ChipSize \in Nat
    BY EmptySeq, ChipSizes
  <2> QED
    BY <1>1, <2>1 DEF LoopInv
<1>4. JobInv'
  BY <1>1, IdleJob DEF JobInv
<1> QED
  BY <1>1, <1>2, <1>3, <1>4 DEF W25Inv, CalmInv

\* Every step keeps the invariant.
LEMMA W25GoesOn == W25Inv /\ [W25Next]_w25Vars => W25Inv'
<1> SUFFICES ASSUME W25Inv, [W25Next]_w25Vars PROVE W25Inv'
  OBVIOUS
<1>1. CASE \E a \in Cells, n \in WriteSizes, d \in Patterns :
             a + n <= ChipSize /\ W25QXX_Write(a, SubSeq(d, 1, n))
  BY <1>1, CallKeeps, Zenon
<1>2. CASE ReadSector
  BY <1>2, ReadKeeps
<1>3. CASE EraseEnable
  BY <1>3, EnableKeeps
<1>4. CASE EraseSector
  BY <1>4, EraseKeeps
<1>5. CASE WritePageStep
  BY <1>5, PageKeeps
<1>6. CASE PageDone
  BY <1>6, PageDoneKeeps
<1>7. CASE ChipDone
  BY <1>7, ChipDoneKeeps
<1>8. CASE Reset25
  BY <1>8, ResetKeeps
<1>9. CASE UNCHANGED w25Vars
  BY <1>9 DEF w25Vars, chipVars, callVars, W25Inv, ChipInv, LoopInv, JobInv, CalmInv, AskedInv, RestInv,
              MergeInv, ProgramInv, JobIsTarget, EndPos, SecRemain, SecOff, SecPos, Busy
<1> QED
  BY <1>1, <1>2, <1>3, <1>4, <1>5, <1>6, <1>7, <1>8, <1>9 DEF W25Next

\* Between two calls the chip has what the last one, if it was calm, was to write.
LEMMA CalmIsExact == W25Inv => W25WritesExact
<1> DEFINE E == [c \in Cells |-> IF c \in asked25.at .. asked25.at + Len(asked25.data) - 1
                                 THEN asked25.data[c - asked25.at + 1] ELSE asked25.before[c]]
<1>1. W25WritesExact <=> (w25Pc = "idle" /\ calm25 => mem = E)
  BY Zenon DEF W25WritesExact
<1>2. ASSUME W25Inv, w25Pc = "idle", calm25 PROVE mem = E
  <2>1. /\ mem \in [Cells -> Bits] /\ w25Addr \in Nat
        /\ AskedInv /\ w25Len = 0 /\ \A c \in Cells : mem[c] = Target(asked25, w25Addr, c)
    BY <1>2 DEF W25Inv, ChipInv, LoopInv, CalmInv, RestInv
  <2>2. w25Addr = asked25.at + Len(asked25.data)
    BY <2>1, LenProperties DEF AskedInv
  <2>3. \A c \in Cells : mem[c] = IF c \in asked25.at .. asked25.at + Len(asked25.data) - 1
                                  THEN asked25.data[c - asked25.at + 1] ELSE asked25.before[c]
    <3>1. w25Addr - 1 = asked25.at + Len(asked25.data) - 1
      BY <2>1, <2>2, LenProperties DEF AskedInv
    <3> QED
      BY <2>1, <3>1, Zenon DEF Target
  <2> QED
    BY <2>1, <2>3
<1> HIDE DEF E
<1> QED
  BY <1>1, <1>2

\* skySoft_w25qxx.c:348-394: whatever the sizes of the chip, its sectors and its
\* pages, a write that begins with an idle chip and is not cut off leaves the
\* cells it was asked to write with their data and all others as they were, over
\* any number of pages and sectors.
THEOREM ChipWritesAreExact == W25Spec => []W25WritesExact
<1>1. W25Init => W25Inv
  BY W25Starts
<1>2. W25Inv /\ [W25Next]_w25Vars => W25Inv'
  BY W25GoesOn
<1>3. W25Inv => W25WritesExact
  BY CalmIsExact
<1> QED
  BY <1>1, <1>2, <1>3, PTL DEF W25Spec


-----------------------------------------------------------------------------
(***************************************************************************)
(* CanBus: wherever the receive interrupt comes in the middle of           *)
(* CANBus_AddRxMdl, for any number of banks, it calls the first module that*)
(* asked for the frame, and with that module's data.                       *)
(***************************************************************************)

Asked(k) == banks[k].dst # AnyAddr \/ banks[k].src # AnyAddr

\* CANBus_AddRxMdl has come to its end for bank k.
Complete(k) == addStep = 0 \/ k < Fmi

\* What the assignments of CANBus_AddRxMdl have made of the entry of bank k: all
\* of them for the banks before the last, and for the last those behind it.
EntryInv ==
  \A k \in DOMAIN banks :
    /\ Asked(k)
    /\ Complete(k) \/ addStep > 1 => entries[k].handler = k
    /\ Complete(k) \/ addStep > 2 => entries[k].userData = k
    /\ entries[k].dstOn <=> (Complete(k) \/ addStep > 3) /\ banks[k].dst # AnyAddr
    /\ entries[k].srcOn <=> (Complete(k) \/ addStep > 4) /\ banks[k].src # AnyAddr
    /\ Complete(k) => entries[k].asks = banks[k]

\* Entries without a bank have never been written.
UnusedInv == \A k \in 1..MaxBanks : k > Fmi => ~entries[k].dstOn /\ ~entries[k].srcOn

\* The call that runs works on the last bank.
RequestInv == addStep # 0 => Fmi > 0 /\ request = banks[Fmi]

\* A frame that waits has the number of the first bank that matches it, and the
\* modules that were ready for it still are.
WaitsFor(m) ==
  /\ m.fmi \in Matching(m.frame[1], m.frame[2])
  /\ \A k \in Matching(m.frame[1], m.frame[2]) : m.fmi <= k
  /\ \A k \in m.ready : k \in DOMAIN banks /\ Complete(k)

FifoInv == \A n \in DOMAIN fifo0 : WaitsFor(fifo0[n])

BusInv ==
  /\ BusTypeOK
  /\ EntryInv
  /\ UnusedInv
  /\ RequestInv
  /\ FifoInv
  /\ HandlersAreWhole
  /\ FirstAskerGetsIt

-----------------------------------------------------------------------------

\* The table's rows are numbered, and no more than its banks.
LEMMA BanksAreNumbered ==
  ASSUME BusTypeOK
  PROVE  /\ Fmi \in Nat /\ Fmi <= MaxBanks /\ DOMAIN banks = 1..Fmi
         /\ \A k \in DOMAIN banks : banks[k] \in BusRequest /\ k \in 1..MaxBanks
BY CanBusAssumption DEF BusTypeOK, Fmi

\* The modules that asked for a frame are those whose banks match it.
LEMMA AskersMatch ==
  ASSUME BusInv, NEW f
  PROVE  Askers(f) = Matching(f[1], f[2])
<1>1. ASSUME NEW k \in DOMAIN banks
      PROVE  (IF k = Fmi /\ addStep # 0 THEN request ELSE entries[k].asks) = banks[k]
  <2>1. CASE k = Fmi /\ addStep # 0
    BY <2>1 DEF BusInv, RequestInv
  <2>2. CASE ~(k = Fmi /\ addStep # 0)
    <3>1. Complete(k)
      BY <2>2, BanksAreNumbered DEF Complete, BusInv
    <3> QED
      BY <2>2, <3>1 DEF BusInv, EntryInv
  <2> QED
    BY <2>1, <2>2
<1> QED
  BY <1>1 DEF Askers, Matching, Passes

\* Nothing is said of the last interrupt when no interrupt was last.
LEMMA NoCallIsFine ==
  ASSUME called' = NoCall
  PROVE  HandlersAreWhole' /\ FirstAskerGetsIt'
BY DEF NoCall, HandlersAreWhole, FirstAskerGetsIt

\* The invariant holds when the table is empty.
LEMMA BusStarts == BusInit => BusInv
<1> SUFFICES ASSUME BusInit PROVE BusInv
  OBVIOUS
<1>1. /\ Unused \in BusEntry /\ Unused.asks \in BusRequest
      /\ ~Unused.dstOn /\ ~Unused.srcOn
  BY CanBusAssumption DEF Unused, BusEntry, BusRequest
<1>2. BusTypeOK
  <2>1. banks \in Seq(BusRequest) /\ Len(banks) = 0 /\ fifo0 \in Seq(BusMessage) /\ Len(fifo0) = 0
    BY DEF BusInit
  <2>2. entries \in [1..MaxBanks -> BusEntry]
    BY <1>1 DEF BusInit
  <2>3. addStep \in 0..5 /\ framesSeen \in 0..MaxFrames
    BY CanBusAssumption DEF BusInit
  <2>4. request \in BusRequest /\ irqOn \in BOOLEAN
    BY <1>1 DEF BusInit
  <2> QED
    BY <2>1, <2>2, <2>3, <2>4, CanBusAssumption DEF BusTypeOK
<1>3. EntryInv /\ UnusedInv /\ RequestInv /\ FifoInv
  BY <1>1 DEF BusInit, EntryInv, UnusedInv, RequestInv, FifoInv, Fmi
<1>4. HandlersAreWhole /\ FirstAskerGetsIt
  BY DEF BusInit, NoCall, HandlersAreWhole, FirstAskerGetsIt
<1> QED
  BY <1>2, <1>3, <1>4 DEF BusInv

-----------------------------------------------------------------------------

\* The entry that is free first is the one behind the last bank.
LEMMA NextIsFree ==
  ASSUME BusInv, addStep = 0, Free # {}
  PROVE  Fmi < MaxBanks
<1>1. PICK k \in 1..MaxBanks : ~entries[k].dstOn /\ ~entries[k].srcOn
  BY DEF Free
<1>2. k \notin DOMAIN banks
  <2> SUFFICES ASSUME k \in DOMAIN banks PROVE FALSE
    OBVIOUS
  <2>1. Complete(k) /\ Asked(k)
    BY DEF Complete, BusInv, EntryInv
  <2> QED
    BY <1>1, <2>1 DEF BusInv, EntryInv, Asked
<1> QED
  BY <1>2, BanksAreNumbered, CanBusAssumption DEF BusInv

\* A bank that is added behind the others leaves them and the frames that wait as
\* they are.
LEMMA AddKeeps ==
  ASSUME BusInv, NEW r \in BusRequest, CANBus_AddRxMdl(r)
  PROVE  BusInv'
<1>1. /\ addStep = 0 /\ addStep' = 1 /\ request' = r /\ banks' = Append(banks, r)
      /\ r # Unused.asks /\ called' = NoCall
      /\ UNCHANGED <<entries, irqOn, fifo0, framesSeen>>
  BY DEF CANBus_AddRxMdl
<1>2. Fmi < MaxBanks
  BY <1>1, NextIsFree DEF CANBus_AddRxMdl
<1>3. /\ banks' \in Seq(BusRequest) /\ Fmi' = Fmi + 1 /\ banks'[Fmi'] = r
      /\ DOMAIN banks' = DOMAIN banks \cup {Fmi'}
      /\ \A k \in DOMAIN banks : banks'[k] = banks[k]
  BY <1>1 DEF BusInv, BusTypeOK, Fmi
<1>4. Fmi \in Nat /\ DOMAIN banks = 1..Fmi /\ MaxBanks \in Nat
  BY BanksAreNumbered, CanBusAssumption DEF BusInv
<1>5. BusTypeOK'
  BY <1>1, <1>2, <1>3, <1>4 DEF BusInv, BusTypeOK, Fmi
<1>6. EntryInv'
  <2> SUFFICES ASSUME NEW k \in DOMAIN banks'
               PROVE  /\ Asked(k)'
                      /\ (Complete(k)' \/ addStep' > 1) => entries'[k].handler = k
                      /\ (Complete(k)' \/ addStep' > 2) => entries'[k].userData = k
                      /\ entries'[k].dstOn <=> (Complete(k)' \/ addStep' > 3) /\ banks'[k].dst # AnyAddr
                      /\ entries'[k].srcOn <=> (Complete(k)' \/ addStep' > 4) /\ banks'[k].src # AnyAddr
                      /\ Complete(k)' => entries'[k].asks = banks'[k]
    BY DEF EntryInv
  <2>1. CASE k \in DOMAIN banks
    <3>1. Complete(k) /\ Complete(k)'
      BY <1>1, <1>3, <1>4, <2>1 DEF Complete
    <3> QED
      BY <1>1, <1>3, <2>1, <3>1 DEF BusInv, EntryInv, Asked
  <2>2. CASE k = Fmi'
    <3>1. ~Complete(k)'
      BY <1>1, <1>3, <1>4, <2>2 DEF Complete
    <3>2. ~entries[k].dstOn /\ ~entries[k].srcOn
      BY <1>2, <1>3, <1>4, <2>2 DEF BusInv, UnusedInv
    <3>3. r.dst # AnyAddr \/ r.src # AnyAddr
      BY <1>1 DEF Unused, BusRequest
    <3> QED
      BY <1>1, <1>3, <2>2, <3>1, <3>2, <3>3 DEF Asked
  <2> QED
    BY <1>3, <2>1, <2>2
<1>7. UnusedInv'
  BY <1>1, <1>3, <1>4 DEF BusInv, UnusedInv
<1>8. RequestInv'
  BY <1>1, <1>3, <1>4 DEF RequestInv
<1>9. FifoInv'
  <2> SUFFICES ASSUME NEW n \in DOMAIN fifo0 PROVE WaitsFor(fifo0[n])'
    BY <1>1 DEF FifoInv
  <2> DEFINE m == fifo0[n]
  <2>1. WaitsFor(m) /\ m.fmi \in DOMAIN banks
    BY DEF BusInv, FifoInv, WaitsFor, Matching
  <2>2. /\ Matching(m.frame[1], m.frame[2]) \subseteq Matching(m.frame[1], m.frame[2])'
        /\ Matching(m.frame[1], m.frame[2])' \subseteq Matching(m.frame[1], m.frame[2]) \cup {Fmi'}
    BY <1>1, <1>3 DEF Matching, Passes
  <2>3. m.fmi <= Fmi'
    BY <1>3, <1>4, <2>1
  <2>4. \A k \in m.ready : k \in DOMAIN banks' /\ Complete(k)'
    BY <1>3, <1>4, <2>1 DEF WaitsFor, Complete
  <2> QED
    BY <1>1, <2>1, <2>2, <2>3, <2>4 DEF WaitsFor
<1> QED
  BY <1>1, <1>5, <1>6, <1>7, <1>8, <1>9, NoCallIsFine DEF BusInv

\* Each assignment of CANBus_AddRxMdl changes one part of the last bank's entry.
LEMMA RecordWrites ==
  ASSUME BusInv, AddRecord
  PROVE  LET e == entries[Fmi]
         IN  /\ Fmi \in 1..MaxBanks /\ Fmi \in DOMAIN banks /\ request = banks[Fmi]
             /\ entries' = [entries EXCEPT ![Fmi] = entries'[Fmi]]
             /\ addStep = 1 => entries'[Fmi] = [e EXCEPT !.handler = Fmi]
             /\ addStep = 2 => entries'[Fmi] = [e EXCEPT !.userData = Fmi]
             /\ addStep = 3 => entries'[Fmi] = [e EXCEPT !.dstOn = (request.dst # AnyAddr)]
             /\ addStep = 4 => entries'[Fmi] = [e EXCEPT !.srcOn = (request.src # AnyAddr)]
             /\ addStep = 5 => entries'[Fmi] = [e EXCEPT !.asks = request]
<1>1. Fmi \in 1..MaxBanks /\ Fmi \in DOMAIN banks /\ request = banks[Fmi] /\ addStep \in 1..5
  BY BanksAreNumbered DEF BusInv, RequestInv, AddRecord
<1>2. entries \in [1..MaxBanks -> BusEntry] /\ entries' = [entries EXCEPT ![Fmi] = Written(entries[Fmi])]
  BY DEF BusInv, BusTypeOK, AddRecord
<1>3. entries'[Fmi] = Written(entries[Fmi])
  BY <1>1, <1>2
<1>4. entries' = [entries EXCEPT ![Fmi] = entries'[Fmi]]
  BY <1>2, <1>3
<1> QED
  BY <1>1, <1>3, <1>4 DEF Written

\* A row is written.
LEMMA RecordKeeps ==
  ASSUME BusInv, AddRecord
  PROVE  BusInv'
<1> DEFINE e == entries[Fmi]
           ne == entries'[Fmi]
<1>1. /\ addStep \in 1..5 /\ addStep' = IF addStep = 5 THEN 0 ELSE addStep + 1
      /\ called' = NoCall /\ irqOn' \in BOOLEAN
      /\ UNCHANGED <<banks, request, fifo0, framesSeen>> /\ Fmi' = Fmi
  BY DEF AddRecord, BusInv, BusTypeOK, Fmi
<1>2. /\ Fmi \in 1..MaxBanks /\ Fmi \in DOMAIN banks /\ request = banks[Fmi]
      /\ entries' = [entries EXCEPT ![Fmi] = ne]
  BY RecordWrites
<1>3. entries \in [1..MaxBanks -> BusEntry] /\ e \in BusEntry
  BY <1>2 DEF BusInv, BusTypeOK
<1>4. /\ ne \in BusEntry
      /\ ne.handler = IF addStep = 1 THEN Fmi ELSE e.handler
      /\ ne.userData = IF addStep = 2 THEN Fmi ELSE e.userData
      /\ ne.asks = IF addStep = 5 THEN request ELSE e.asks
      /\ ne.dstOn <=> (IF addStep = 3 THEN request.dst # AnyAddr ELSE e.dstOn)
      /\ ne.srcOn <=> (IF addStep = 4 THEN request.src # AnyAddr ELSE e.srcOn)
  <2>1. request \in BusRequest
    BY DEF BusInv, BusTypeOK
  <2>2. CASE addStep = 1
    BY <1>2, <1>3, <2>2, RecordWrites DEF BusEntry
  <2>3. CASE addStep = 2
    BY <1>2, <1>3, <2>3, RecordWrites DEF BusEntry
  <2>4. CASE addStep = 3
    BY <1>2, <1>3, <2>4, RecordWrites DEF BusEntry
  <2>5. CASE addStep = 4
    BY <1>2, <1>3, <2>5, RecordWrites DEF BusEntry
  <2>6. CASE addStep = 5
    BY <1>2, <1>3, <2>1, <2>6, RecordWrites DEF BusEntry
  <2> QED
    BY <1>1, <2>2, <2>3, <2>4, <2>5, <2>6
<1>5. \A k \in 1..MaxBanks : k # Fmi => entries'[k] = entries[k]
  BY <1>2, <1>3
<1>6. BusTypeOK'
  <2>1. entries' \in [1..MaxBanks -> BusEntry]
    BY <1>2, <1>3, <1>4
  <2> QED
    BY <1>1, <2>1 DEF BusInv, BusTypeOK
<1>7. \A k \in DOMAIN banks : Complete(k) => Complete(k)'
  BY <1>1 DEF Complete
<1>8. EntryInv'
  <2> SUFFICES ASSUME NEW k \in DOMAIN banks
               PROVE  /\ Asked(k)'
                      /\ (Complete(k)' \/ addStep' > 1) => entries'[k].handler = k
                      /\ (Complete(k)' \/ addStep' > 2) => entries'[k].userData = k
                      /\ entries'[k].dstOn <=> (Complete(k)' \/ addStep' > 3) /\ banks[k].dst # AnyAddr
                      /\ entries'[k].srcOn <=> (Complete(k)' \/ addStep' > 4) /\ banks[k].src # AnyAddr
                      /\ Complete(k)' => entries'[k].asks = banks[k]
    BY <1>1 DEF EntryInv
  <2>1. Asked(k)' /\ k \in 1..MaxBanks /\ k <= Fmi
    BY <1>1, BanksAreNumbered DEF BusInv, EntryInv, Asked
  <2>2. CASE k # Fmi
    <3>1. Complete(k) /\ Complete(k)' /\ entries'[k] = entries[k]
      BY <1>2, <1>5, <1>7, <2>1, <2>2 DEF Complete
    <3> QED
      BY <2>1, <3>1 DEF BusInv, EntryInv
  <2>3. CASE k = Fmi
    <3>1. ~Complete(k) /\ (Complete(k)' <=> addStep = 5)
      BY <1>1, <1>2, <2>3 DEF Complete
    <3>2. /\ addStep > 1 => e.handler = k
          /\ addStep > 2 => e.userData = k
          /\ e.dstOn <=> addStep > 3 /\ banks[k].dst # AnyAddr
          /\ e.srcOn <=> addStep > 4 /\ banks[k].src # AnyAddr
      BY <2>3, <3>1 DEF BusInv, EntryInv
    <3> HIDE DEF e, ne
    <3>3. (Complete(k)' \/ addStep' > 1) => ne.handler = k
      BY <1>1, <1>4, <2>3, <3>1, <3>2
    <3>4. (Complete(k)' \/ addStep' > 2) => ne.userData = k
      BY <1>1, <1>4, <2>3, <3>1, <3>2
    <3>5. ne.dstOn <=> (Complete(k)' \/ addStep' > 3) /\ banks[k].dst # AnyAddr
      BY <1>1, <1>2, <1>4, <2>3, <3>1, <3>2
    <3>6. ne.srcOn <=> (Complete(k)' \/ addStep' > 4) /\ banks[k].src # AnyAddr
      BY <1>1, <1>2, <1>4, <2>3, <3>1, <3>2
    <3>7. Complete(k)' => ne.asks = banks[k]
      BY <1>1, <1>2, <1>4, <2>3, <3>1
    <3> QED
      BY <2>1, <2>3, <3>3, <3>4, <3>5, <3>6, <3>7 DEF ne
  <2> QED
    BY <2>2, <2>3
<1>9. UnusedInv' /\ RequestInv'
  BY <1>1, <1>2, <1>5 DEF BusInv, UnusedInv, RequestInv
<1>10. FifoInv'
  BY <1>1, <1>7 DEF BusInv, FifoInv, WaitsFor, Matching
<1> QED
  BY <1>1, <1>6, <1>8, <1>9, <1>10, NoCallIsFine DEF BusInv

-----------------------------------------------------------------------------

\* A frame that comes is stored with the number of the first bank that matches.
LEMMA BusFrameKeeps ==
  ASSUME BusInv, NEW d \in BusAddr, NEW s \in BusAddr, BusFrame(d, s)
  PROVE  BusInv'
<1>1. /\ called' = NoCall /\ framesSeen' \in 0..MaxFrames
      /\ UNCHANGED <<banks, entries, addStep, request, irqOn>> /\ Fmi' = Fmi
  BY CanBusAssumption DEF BusFrame, BusInv, BusTypeOK, Fmi
<1>2. EntryInv' /\ UnusedInv' /\ RequestInv'
  BY <1>1 DEF BusInv, EntryInv, UnusedInv, RequestInv, Asked, Complete
<1>3. \A m : WaitsFor(m)' <=> WaitsFor(m)
  BY <1>1 DEF WaitsFor, Matching, Complete
<1>4. fifo0' \in Seq(BusMessage) /\ Len(fifo0') <= 3 /\ FifoInv'
  <2>1. CASE fifo0' = fifo0
    BY <1>3, <2>1 DEF BusInv, BusTypeOK, FifoInv
  <2>2. ASSUME NEW k \in Matching(d, s), \A v \in Matching(d, s) : k <= v,
               fifo0' = TakenIn([frame |-> <<d, s>>, fmi |-> k,
                                ready |-> {v \in DOMAIN banks : addStep = 0 \/ v < Fmi}])
        PROVE  fifo0' \in Seq(BusMessage) /\ Len(fifo0') <= 3 /\ FifoInv'
    <3> DEFINE m == [frame |-> <<d, s>>, fmi |-> k,
                     ready |-> {v \in DOMAIN banks : addStep = 0 \/ v < Fmi}]
    <3>1. k \in DOMAIN banks /\ k \in 1..MaxBanks /\ DOMAIN banks \subseteq 1..MaxBanks
      BY BanksAreNumbered DEF Matching, BusInv
    <3>2. m \in BusMessage
      BY <3>1 DEF BusMessage
    <3>3. WaitsFor(m)
      BY <2>2 DEF WaitsFor, Complete
    <3> HIDE DEF m
    <3>4. fifo0 \in Seq(BusMessage) /\ Len(fifo0) <= 3 /\ fifo0' = TakenIn(m)
      BY <2>2 DEF m, BusInv, BusTypeOK
    <3>5. CASE Len(fifo0) < 3
      <4>1. fifo0' = Append(fifo0, m)
        BY <3>4, <3>5 DEF TakenIn
      <4> QED
        BY <1>3, <3>2, <3>3, <3>4, <3>5, <4>1 DEF BusInv, FifoInv
    <3>6. CASE ~(Len(fifo0) < 3)
      <4>1. fifo0' = [fifo0 EXCEPT ![3] = m]
        BY <3>4, <3>6 DEF TakenIn
      <4>2. Len(fifo0) \in Nat
        BY <3>4, LenProperties
      <4>3. Len(fifo0) = 3
        <5>1. Len(fifo0) <= 3
          BY <3>4
        <5>2. \A n \in Nat : n <= 3 /\ ~(n < 3) => n = 3
          OBVIOUS
        <5> QED
          BY <3>6, <4>2, <5>1, <5>2
      <4>4. fifo0' \in Seq(BusMessage) /\ Len(fifo0') = 3
        <5>1. fifo0 \in Seq(BusMessage) /\ 3 \in 1..Len(fifo0)
          BY <3>4, <4>3
        <5>2. /\ [fifo0 EXCEPT ![3] = m] \in Seq(BusMessage)
              /\ Len([fifo0 EXCEPT ![3] = m]) = Len(fifo0)
          BY <3>2, <5>1, ExceptSeq
        <5> QED
          BY <4>1, <4>3, <5>2
      <4>5. DOMAIN fifo0' = DOMAIN fifo0
        BY <4>1
      <4>6. \A n \in DOMAIN fifo0 : fifo0'[n] = m \/ fifo0'[n] = fifo0[n]
        BY <3>4, <4>1
      <4> QED
        BY <1>3, <3>3, <4>4, <4>5, <4>6 DEF BusInv, FifoInv
    <3> QED
      BY <3>5, <3>6
  <2> QED
    BY <2>1, <2>2 DEF BusFrame
<1>5. BusTypeOK'
  BY <1>1, <1>4 DEF BusInv, BusTypeOK
<1> QED
  BY <1>1, <1>2, <1>4, <1>5, NoCallIsFine DEF BusInv

\* The interrupt.
LEMMA InterruptKeeps ==
  ASSUME BusInv, BusIRQHandler
  PROVE  BusInv'
<1> DEFINE m == Head(fifo0)
           e == entries[m.fmi]
<1>1. /\ fifo0 # <<>> /\ fifo0' = Tail(fifo0)
      /\ called' = [frame |-> m.frame, calls |-> e.dstOn \/ e.srcOn, handler |-> e.handler,
                    userData |-> e.userData, ready |-> m.ready]
      /\ UNCHANGED <<banks, entries, addStep, request, irqOn, framesSeen>> /\ Fmi' = Fmi
  BY DEF BusIRQHandler, Fmi
<1>2. /\ fifo0' \in Seq(BusMessage) /\ Len(fifo0') <= 3
      /\ \A n \in DOMAIN fifo0' : n + 1 \in DOMAIN fifo0 /\ fifo0'[n] = fifo0[n + 1]
      /\ 1 \in DOMAIN fifo0 /\ m = fifo0[1]
  BY <1>1 DEF BusInv, BusTypeOK
<1>3. BusTypeOK'
  BY <1>1, <1>2 DEF BusInv, BusTypeOK
<1>4. EntryInv' /\ UnusedInv' /\ RequestInv'
  BY <1>1 DEF BusInv, EntryInv, UnusedInv, RequestInv, Asked, Complete
<1>5. \A x : WaitsFor(x)' <=> WaitsFor(x)
  BY <1>1 DEF WaitsFor, Matching, Complete
<1>6. FifoInv'
  BY <1>2, <1>5 DEF BusInv, FifoInv
<1>7. WaitsFor(m) /\ m.fmi \in DOMAIN banks
  BY <1>2 DEF BusInv, FifoInv, WaitsFor, Matching
<1> HIDE DEF m, e
<1>8. (e.dstOn \/ e.srcOn) => e.handler = m.fmi /\ e.userData = m.fmi
  <2> SUFFICES ASSUME e.dstOn \/ e.srcOn PROVE e.handler = m.fmi /\ e.userData = m.fmi
    OBVIOUS
  <2>1. Complete(m.fmi) \/ addStep > 3 \/ addStep > 4
    BY <1>7 DEF e, BusInv, EntryInv
  <2>2. Complete(m.fmi) \/ (addStep > 1 /\ addStep > 2)
    BY <2>1 DEF BusInv, BusTypeOK
  <2> QED
    BY <1>7, <2>2 DEF e, BusInv, EntryInv
<1>9. HandlersAreWhole'
  BY <1>1, <1>7, <1>8 DEF HandlersAreWhole
<1>10. ASSUME ~(e.dstOn \/ e.srcOn), NEW k \in Matching(m.frame[1], m.frame[2]), k \in m.ready
       PROVE  FALSE
  <2>1. m.fmi <= k /\ k \in DOMAIN banks /\ Complete(k)
    BY <1>7, <1>10 DEF WaitsFor
  <2>2. Complete(m.fmi)
    BY <1>7, <2>1, BanksAreNumbered DEF Complete, BusInv
  <2>3. Asked(m.fmi)
    BY <1>7 DEF BusInv, EntryInv
  <2> QED
    BY <1>7, <1>10, <2>2, <2>3 DEF e, BusInv, EntryInv, Asked
<1>11. FirstAskerGetsIt'
  <2>1. called'.frame = m.frame /\ called'.ready = m.ready /\ called'.handler = e.handler
    BY <1>1
  <2>2. called'.calls <=> e.dstOn \/ e.srcOn
    BY <1>1
  <2>3. called'.calls => /\ called'.handler \in Matching(m.frame[1], m.frame[2])
                         /\ \A k \in Matching(m.frame[1], m.frame[2]) : called'.handler <= k
    BY <1>7, <1>8, <2>1, <2>2 DEF WaitsFor
  <2>4. ~called'.calls => Matching(m.frame[1], m.frame[2]) \cap called'.ready = {}
    BY <1>10, <2>1, <2>2
  <2>5. Askers(called.frame)' = Askers(m.frame)
    BY <1>1, <2>1 DEF Askers
  <2>6. Askers(m.frame) = Matching(m.frame[1], m.frame[2])
    BY AskersMatch
  <2> QED
    BY <2>1, <2>3, <2>4, <2>5, <2>6 DEF FirstAskerGetsIt
<1> QED
  BY <1>3, <1>4, <1>6, <1>9, <1>11 DEF BusInv

-----------------------------------------------------------------------------

\* Every step keeps the invariant.
LEMMA BusGoesOn ==
  ASSUME BusInv, [BusNext]_busVars
  PROVE  BusInv'
<1>1. CASE UNCHANGED busVars
  BY <1>1 DEF busVars, BusInv, BusTypeOK, EntryInv, UnusedInv, RequestInv, FifoInv, WaitsFor, Complete,
     Asked, Fmi, Matching, HandlersAreWhole, FirstAskerGetsIt, Askers
<1>2. CASE BusNext
  BY <1>2, AddKeeps, RecordKeeps, BusFrameKeeps, InterruptKeeps DEF BusNext
<1> QED
  BY <1>1, <1>2

\* Bus.c:105-254: for any number of filters, banks, entries and match indices stay
\* in range, wherever the interrupt comes.
THEOREM BusTypeCorrect == BusSpec => []BusTypeOK
<1>1. BusInv => BusTypeOK
  BY DEF BusInv
<1> QED
  BY <1>1, BusStarts, BusGoesOn, PTL DEF BusSpec

\* Bus.c:239-249, 324: the handler the interrupt calls is always stored, with the
\* data of its own module.
THEOREM CallsAreWhole == BusSpec => []HandlersAreWhole
<1>1. BusInv => HandlersAreWhole
  BY DEF BusInv
<1> QED
  BY <1>1, BusStarts, BusGoesOn, PTL DEF BusSpec

\* Bus.c:177-233, 320-324: a frame goes to the first module that asked for it and
\* to no other, and is ignored only when none was ready, for any modules, any
\* addresses and frames that wait while modules are added.
THEOREM FramesFindTheirModule == BusSpec => []FirstAskerGetsIt
<1>1. BusInv => FirstAskerGetsIt
  BY DEF BusInv
<1> QED
  BY <1>1, BusStarts, BusGoesOn, PTL DEF BusSpec

-----------------------------------------------------------------------------
(***************************************************************************)
(* CanFilter: a frame the settings are for reaches the node.               *)
(***************************************************************************)

\* The mask P_CAN_SetNodeByBus makes of the settings.
MaskOf(f) ==
  {"resev", "resev2"} \cup Covered(f.dst, DstType, "dstId") \cup Covered(f.src, SrcType, "srcId")

\* The groups BSP_CAN1AddFilter makes the controller compare for a mask.
FilterOf(m) == {Above(g) : g \in m} \cap Groups

\* The mask and the controller's filter are those of the settings, and what came
\* of the last frame is what the two of them say.
FilterInv ==
  /\ filt \in [dst : 0..3, src : 0..3]
  /\ mask = {} \/ mask = MaskOf(filt)
  /\ filter = NoFilter \/ (mask # {} /\ filter = FilterOf(mask))
  /\ agrees # {} =>
       /\ filter # NoFilter /\ "resev2" \in agrees
       /\ heard <=> (filter \subseteq agrees /\ Matches3(agrees))

-----------------------------------------------------------------------------

\* Every step keeps the invariant.
LEMMA FilterGoesOn == FilterInv /\ [FilterNext]_filterVars => FilterInv'
<1> SUFFICES ASSUME FilterInv, [FilterNext]_filterVars PROVE FilterInv'
  OBVIOUS
<1>1. CASE UNCHANGED filterVars
  BY <1>1 DEF filterVars, FilterInv, Matches3
<1>2. CASE P_CAN_SetNodeByBus
  <2>1. mask = {} /\ mask' = MaskOf(filt) /\ UNCHANGED <<filt, filter, agrees, heard>>
    BY <1>2 DEF P_CAN_SetNodeByBus, MaskOf
  <2>2. filter = NoFilter /\ agrees = {}
    BY <2>1 DEF FilterInv
  <2> QED
    BY <2>1, <2>2 DEF FilterInv
<1>3. CASE BSP_CAN1AddFilter
  <2>1. mask # {} /\ filter = NoFilter /\ filter' = FilterOf(mask)
        /\ UNCHANGED <<filt, mask, agrees, heard>>
    BY <1>3 DEF BSP_CAN1AddFilter, FilterOf
  <2>2. agrees = {}
    BY <2>1 DEF FilterInv
  <2> QED
    BY <2>1, <2>2 DEF FilterInv
<1>4. ASSUME NEW eq, Frame(eq \cup {"resev2"})
      PROVE  FilterInv'
  BY <1>4 DEF Frame, FilterInv, Matches3
<1> QED
  BY <1>1, <1>2, <1>3, <1>4 DEF FilterNext

\* The invariant holds in every state.
LEMMA FilterAlways == FilterSpec => []FilterInv
<1>1. FilterInit => FilterInv
  BY DEF FilterInit, FilterInv
<1> QED
  BY <1>1, FilterGoesOn, PTL DEF FilterSpec

\* bsp_CAN.c:114-115: with the mask three bits from where it belongs, a node with
\* one of the aligned settings still hears all that is meant for it from senders
\* whose index has its own bits 1 and 2.
THEOREM AlignedNodesHear == FilterSpec => []WantedIsHeard
<1>1. FilterInv => WantedIsHeard
  <2> SUFFICES ASSUME FilterInv, agrees # {}, filt \in AlignedSettings, "index" \in agrees, Wanted
               PROVE  heard
    BY DEF WantedIsHeard
  <2>0. filter # NoFilter /\ "resev2" \in agrees /\ mask = MaskOf(filt) /\ filter = FilterOf(mask)
    BY DEF FilterInv
  <2>1. Matches3(agrees)
    BY <2>0 DEF AlignedSettings, Wanted, Matches3, MaskOf, Covered
  <2>2. ASSUME NEW g \in mask, Above(g) \in Groups
        PROVE  Above(g) \in agrees
    <3>1. filt.dst = 0 /\ filt.src = 0 => g \in {"resev", "resev2"}
      BY <2>0 DEF MaskOf, Covered
    <3>2. filt.dst \in {1, 2} /\ filt.src = 0 =>
            g \in {"resev", "resev2"} \cup DstType \cup (IF filt.dst = 1 THEN {"dstId"} ELSE {})
      BY <2>0 DEF MaskOf, Covered
    <3>3. filt.dst = 1 /\ filt.src \in {1, 2} =>
            g \in {"resev", "resev2", "dstId", "srcId"} \cup DstType \cup SrcType
      BY <2>0 DEF MaskOf, Covered
    <3>4. filt.dst = 1 /\ filt.src = 2 => g # "srcId"
      BY <2>0 DEF MaskOf, Covered, DstType, SrcType
    <3> QED
      BY <2>0, <2>2, <3>1, <3>2, <3>3, <3>4
      DEF AlignedSettings, Wanted, Above, Groups, DstType, SrcType
  <2>3. filter \subseteq agrees
    BY <2>0, <2>2 DEF FilterOf
  <2> QED
    BY <2>0, <2>1, <2>3 DEF FilterInv
<1> QED
  BY <1>1, FilterAlways, PTL

-----------------------------------------------------------------------------
(***************************************************************************)
(* CanLink: the list is whole wherever the interrupt comes, and the nodes get*)
(* the pieces of every write in their order, none twice, and all that were *)
(* not lost.                                                               *)
(***************************************************************************)

ListTypes ==
  /\ srcNode \in {0} \cup CanNodes /\ nextNode \in [CanNodes -> {0} \cup CanNodes]
  /\ filtered \subseteq CanNodes /\ filterN \in 0..MaxFilters
  /\ adding \in {0} \cup CanNodes /\ addPc \in {"idle", "end", "filter"}
  /\ adds \in [CanNodes -> 0..MaxAdds] /\ stuck \in BOOLEAN
  /\ addPc # "idle" => adding \in CanNodes

\* The walk along the list stays in S.
Closed(first, next, S) ==
  /\ S \subseteq CanNodes /\ first \in S \cup {0}
  /\ \A m \in S : next[m] \in S \cup {0}

\* While P_CAN_AddNode is between its first two assignments its node is on the
\* list, which the second one ends there; otherwise the list has an end.
EndInv ==
  /\ addPc = "end" => adding \in Listed
  /\ addPc # "end" => Ends

\* A node has been added before its filter is loaded.
AddedInv ==
  /\ addPc # "idle" => adds[adding] > 0
  /\ \A n \in filtered : adds[n] > 0

\* As long as no node is added twice, the list is made of the nodes added, and
\* the others have no successor.
OnceInv ==
  AddedTwice = {} =>
    /\ ~stuck /\ Ends /\ Listed = {n \in CanNodes : adds[n] > 0}
    /\ \A n \in CanNodes : adds[n] = 0 => nextNode[n] = 0
    /\ addPc = "end" => nextNode[adding] = 0

ListInv == ListTypes /\ EndInv /\ AddedInv /\ OnceInv

-----------------------------------------------------------------------------

\* The list is the least set a walk along it stays in.
ListedClosed == Closed(srcNode, nextNode, Listed)

\* The set of nodes that are listed holds the first one, and what follows each.
LEMMA ListedIsClosed == ListTypes => ListedClosed
<1> SUFFICES ASSUME ListTypes PROVE Closed(srcNode, nextNode, Listed)
  BY DEF ListedClosed
<1>1. 0 \notin CanNodes
  BY CanAssumption
<1>2. srcNode \in Listed \cup {0}
  BY <1>1 DEF ListTypes, Listed
<1>3. ASSUME NEW m \in Listed PROVE nextNode[m] \in Listed \cup {0}
  <2>1. m \in CanNodes /\ nextNode[m] \in {0} \cup CanNodes
    BY DEF ListTypes, Listed
  <2>2. CASE nextNode[m] = 0
    BY <2>2
  <2>3. CASE nextNode[m] # 0
    <3> SUFFICES ASSUME NEW S \in SUBSET CanNodes, srcNode \in S \cup {0},
                        \A k \in S : nextNode[k] \in S \cup {0}
                 PROVE  nextNode[m] \in S
      BY <2>1, <2>3 DEF Listed
    <3>1. m \in S
      BY DEF Listed
    <3> QED
      BY <2>3, <3>1
  <2> QED
    BY <2>2, <2>3
<1> QED
  BY <1>2, <1>3 DEF Closed, Listed

ListedLeast == \A S : Closed(srcNode, nextNode, S) => Listed \subseteq S

\* It is the least such set.
LEMMA ListedIsLeast == ListedLeast
BY DEF ListedLeast, Closed, Listed

\* The same of the state that follows.
LEMMA ListedNext == ListTypes' => ListedClosed' /\ ListedLeast'
<1>1. ListTypes' => ListedClosed'
  BY ListedIsClosed, PTL
<1>2. ListedLeast'
  BY ListedIsLeast, PTL
<1> QED
  BY <1>1, <1>2

\* The invariant holds of the empty list.
LEMMA ListStarts == CanInit => ListInv
<1> SUFFICES ASSUME CanInit PROVE ListInv
  OBVIOUS
<1>1. ListTypes
  <2>1. 0 \in 0..MaxAdds /\ 0 \in 0..MaxFilters
    BY CanAssumption
  <2>2. adds \in [CanNodes -> 0..MaxAdds] /\ nextNode \in [CanNodes -> {0} \cup CanNodes]
    BY <2>1 DEF CanInit
  <2> QED
    BY <2>1, <2>2 DEF CanInit, ListTypes
<1>2. Closed(srcNode, nextNode, {})
  BY DEF CanInit, Closed
<1>3. Listed = {}
  BY <1>2, ListedIsLeast DEF ListedLeast
<1>4. EndInv /\ AddedInv
  BY DEF CanInit, EndInv, AddedInv, Ends
<1>5. OnceInv
  BY <1>3 DEF CanInit, OnceInv, Ends
<1> QED
  BY <1>1, <1>4, <1>5 DEF ListInv

\* A node behind the last one: whatever a walk along the new list meets is a node
\* of the old one or the node added, which it meets.
LEMMA LinkedList ==
  ASSUME ListTypes, NEW n \in CanNodes, Append2List(n), ListTypes'
  PROVE  n \in Listed' /\ Listed \subseteq Listed' /\ (nextNode[n] = 0 => Listed' = Listed \cup {n})
<1>0. 0 \notin CanNodes /\ nextNode \in [CanNodes -> {0} \cup CanNodes]
  BY CanAssumption DEF ListTypes
<1>1. Closed(srcNode, nextNode, Listed) /\ \A S : Closed(srcNode, nextNode, S) => Listed \subseteq S
  BY ListedIsClosed, ListedIsLeast DEF ListedClosed, ListedLeast
<1>2. Closed(srcNode', nextNode', Listed') /\ \A S : Closed(srcNode', nextNode', S) => Listed' \subseteq S
  BY ListedNext DEF ListedClosed, ListedLeast
<1>3. CASE srcNode = 0
  <2>1. srcNode' = n /\ nextNode' = nextNode
    BY <1>3 DEF Append2List
  <2>2. Closed(srcNode, nextNode, {})
    BY <1>3 DEF Closed
  <2>3. Listed = {}
    BY <1>1, <2>2
  <2>4. n \in Listed'
    BY <1>0, <1>2, <2>1 DEF Closed
  <2>5. nextNode[n] = 0 => Closed(srcNode', nextNode', {n})
    BY <2>1 DEF Closed
  <2> QED
    BY <1>2, <2>3, <2>4, <2>5
<1>4. CASE srcNode # 0
  <2>1. PICK p \in Listed : /\ nextNode[p] = 0
                            /\ nextNode' = [nextNode EXCEPT ![p] = n]
                            /\ srcNode' = srcNode
    BY <1>4 DEF Append2List
  <2>2. p \in CanNodes /\ nextNode'[p] = n /\ \A m \in CanNodes \ {p} : nextNode'[m] = nextNode[m]
    BY <1>0, <2>1 DEF Listed
  <2>3. Closed(srcNode, nextNode, Listed')
    <3>1. \A m \in Listed' : nextNode[m] \in Listed' \cup {0}
      BY <1>2, <2>1, <2>2 DEF Closed
    <3> QED
      BY <1>2, <2>1, <3>1 DEF Closed
  <2>4. Listed \subseteq Listed'
    BY <1>1, <2>3
  <2>5. n \in Listed'
    BY <1>0, <1>2, <2>1, <2>2, <2>4 DEF Closed
  <2>6. ASSUME nextNode[n] = 0 PROVE Closed(srcNode', nextNode', Listed \cup {n})
    <3>1. ASSUME NEW m \in Listed \cup {n} PROVE nextNode'[m] \in Listed \cup {n} \cup {0}
      BY <1>1, <2>2, <2>6 DEF Closed
    <3>2. srcNode' \in Listed \cup {n} \cup {0} /\ Listed \cup {n} \subseteq CanNodes
      BY <1>1, <2>1 DEF Closed
    <3> DEFINE S == Listed \cup {n}
    <3>3. S \subseteq CanNodes /\ srcNode' \in S \cup {0} /\ \A m \in S : nextNode'[m] \in S \cup {0}
      BY <3>1, <3>2
    <3> QED
      BY <3>3 DEF Closed
  <2> QED
    BY <1>2, <2>4, <2>5, <2>6
<1> QED
  BY <1>3, <1>4

\* Every step keeps the types.
LEMMA ListTypesNext == ListTypes /\ [CanNext]_canVars => ListTypes'
<1> SUFFICES ASSUME ListTypes, [CanNext]_canVars PROVE ListTypes'
  OBVIOUS
<1>0. 0..MaxFilters \subseteq Nat /\ 0..MaxAdds \subseteq Nat
  OBVIOUS
<1>1. CASE UNCHANGED listVars /\ stuck' \in BOOLEAN
  BY <1>1 DEF ListTypes, listVars
<1>2. ASSUME NEW n \in CanNodes, AddLink(n) PROVE ListTypes'
  <2>1. srcNode' \in {0} \cup CanNodes /\ nextNode' \in [CanNodes -> {0} \cup CanNodes]
    BY <1>2 DEF ListTypes, AddLink, Append2List
  <2>2. adds' \in [CanNodes -> 0..MaxAdds]
    <3>1. adds[n] \in 0..MaxAdds /\ adds[n] < MaxAdds
      BY <1>2 DEF ListTypes, AddLink
    <3>2. adds[n] + 1 \in 0..MaxAdds
      BY <3>1, CanAssumption
    <3> QED
      BY <1>2, <3>2 DEF ListTypes, AddLink
  <2> QED
    BY <1>2, <2>1, <2>2 DEF ListTypes, AddLink
<1>3. CASE AddEnd
  BY <1>3 DEF ListTypes, AddEnd
<1>4. CASE AddFilter
  <2>1. filtered' \subseteq CanNodes /\ filterN' \in 0..MaxFilters
    <3>1. adding \in CanNodes
      BY <1>4 DEF ListTypes, AddFilter
    <3>2. filterN < MaxFilters => filterN + 1 \in 0..MaxFilters
      BY CanAssumption DEF ListTypes
    <3> QED
      BY <1>4, <3>1, <3>2 DEF ListTypes, AddFilter
  <2> QED
    BY <1>4, <2>1 DEF ListTypes, AddFilter
<1>5. CASE CanNext /\ ~AddNode
  <2>1. UNCHANGED listVars /\ stuck' \in BOOLEAN
    BY <1>5 DEF CanNext, CanWrite, SendPiece, OnTheBus, LostOnTheBus, P_CAN_IRQHandler, ListTypes
  <2> QED
    BY <1>1, <2>1
<1> QED
  BY <1>1, <1>2, <1>3, <1>4, <1>5 DEF AddNode, canVars, ListTypes

\* What a step that leaves the list alone does to ListInv: nothing, unless an
\* interrupt finds a list without an end.
LEMMA OthersKeepList ==
  ASSUME ListInv, ListTypes', UNCHANGED listVars, AddedTwice = {} => stuck' = FALSE
  PROVE  ListInv'
<1>1. Listed' = Listed /\ AddedTwice' = AddedTwice
  BY DEF listVars, Listed, AddedTwice
<1>2. Ends' = Ends
  BY <1>1 DEF listVars, Ends
<1>3. EndInv' /\ AddedInv'
  BY <1>1, <1>2 DEF ListInv, EndInv, AddedInv, listVars
<1>4. OnceInv'
  BY <1>1, <1>2 DEF ListInv, OnceInv, listVars
<1> QED
  BY <1>3, <1>4 DEF ListInv

\* A node is linked into the list: the last one's pointer is set, ...
LEMMA LinkKeepsList ==
  ASSUME ListInv, ListTypes', NEW n \in CanNodes, AddLink(n)
  PROVE  ListInv'
<1>0. /\ ListTypes /\ Append2List(n) /\ adding' = n /\ addPc' = "end"
      /\ adds' = [adds EXCEPT ![n] = @ + 1] /\ ~stuck
      /\ UNCHANGED <<filtered, filterN, stuck>>
  BY DEF ListInv, AddLink
<1>1. /\ n \in Listed' /\ Listed \subseteq Listed'
      /\ nextNode[n] = 0 => Listed' = Listed \cup {n}
  BY <1>0, LinkedList
<1>2. /\ adds \in [CanNodes -> 0..MaxAdds] /\ adds'[n] = adds[n] + 1 /\ adds[n] \in Nat
      /\ \A m \in CanNodes \ {n} : adds'[m] = adds[m]
  BY <1>0 DEF ListTypes
<1>3. EndInv'
  BY <1>0, <1>1 DEF EndInv
<1>4. AddedInv'
  <2>1. \A m \in filtered : m \in CanNodes /\ adds[m] > 0
    BY <1>0 DEF ListInv, AddedInv, ListTypes
  <2>2. adds'[n] > 0
    BY <1>2
  <2>3. \A m \in filtered : adds'[m] > 0
    BY <1>2, <2>1, <2>2
  <2> QED
    BY <1>0, <2>2, <2>3 DEF AddedInv
<1>5. OnceInv'
  <2> SUFFICES ASSUME AddedTwice' = {} PROVE OnceInv'
    BY DEF OnceInv
  <2>1. adds[n] = 0
    BY <1>2 DEF AddedTwice
  <2>2. AddedTwice = {}
    BY <1>2, <2>1 DEF AddedTwice
  <2>3. /\ Listed = {m \in CanNodes : adds[m] > 0}
        /\ \A m \in CanNodes : adds[m] = 0 => nextNode[m] = 0
    BY <2>2 DEF ListInv, OnceInv
  <2>4. nextNode[n] = 0 /\ n \notin Listed
    BY <2>1, <2>3
  <2>5. Listed' = {m \in CanNodes : adds'[m] > 0}
    <3>1. \A m \in CanNodes : adds'[m] > 0 <=> m = n \/ adds[m] > 0
      BY <1>2
    <3> QED
      BY <1>1, <2>3, <2>4, <3>1
  <2>6. nextNode'[n] = 0 /\ \A m \in CanNodes : adds'[m] = 0 => nextNode'[m] = 0
    <3>1. CASE srcNode = 0
      <4>1. nextNode' = nextNode
        BY <1>0, <3>1 DEF Append2List
      <4>2. \A m \in CanNodes : adds'[m] = 0 => adds[m] = 0
        BY <1>2
      <4> QED
        BY <2>3, <2>4, <4>1, <4>2
    <3>2. CASE srcNode # 0
      <4>1. PICK p \in Listed : nextNode' = [nextNode EXCEPT ![p] = n]
        BY <1>0, <3>2 DEF Append2List
      <4>2. p # n /\ p \in CanNodes /\ adds[p] > 0
        BY <2>3, <2>4
      <4>3. \A m \in CanNodes : adds'[m] = 0 => adds[m] = 0 /\ m # p
        BY <1>2, <4>2
      <4> QED
        BY <1>0, <2>3, <2>4, <4>1, <4>2, <4>3 DEF ListTypes
    <3> QED
      BY <3>1, <3>2
  <2>7. Ends'
    BY <1>1, <2>6 DEF Ends
  <2> QED
    BY <1>0, <2>5, <2>6, <2>7 DEF OnceInv
<1> QED
  BY <1>3, <1>4, <1>5 DEF ListInv

\* ... then its own; ...
LEMMA EndKeepsList ==
  ASSUME ListInv, ListTypes', AddEnd
  PROVE  ListInv'
<1>0. /\ ListTypes /\ addPc = "end" /\ addPc' = "filter" /\ ~stuck
      /\ nextNode' = [nextNode EXCEPT ![adding] = 0]
      /\ UNCHANGED <<srcNode, filtered, filterN, adding, adds, stuck>>
  BY DEF ListInv, AddEnd
<1>1. adding \in CanNodes /\ adding \in Listed /\ adds[adding] > 0
  BY <1>0 DEF ListInv, ListTypes, EndInv, AddedInv
<1>2. nextNode'[adding] = 0 /\ \A m \in CanNodes \ {adding} : nextNode'[m] = nextNode[m]
  BY <1>0, <1>1 DEF ListTypes
<1>3. adding \in Listed'
  <2> SUFFICES ASSUME adding \notin Listed' PROVE FALSE
    OBVIOUS
  <2>1. Closed(srcNode', nextNode', Listed')
    BY ListedNext DEF ListedClosed
  <2>2. Closed(srcNode, nextNode, Listed')
    <3>1. \A m \in Listed' : m \in CanNodes \ {adding}
      BY <2>1 DEF Closed
    <3> QED
      BY <1>0, <1>2, <2>1, <3>1 DEF Closed
  <2> QED
    BY <1>1, <2>2, ListedIsLeast DEF ListedLeast
<1>4. Ends'
  BY <1>2, <1>3 DEF Ends
<1>5. EndInv' /\ AddedInv'
  BY <1>0, <1>1, <1>4 DEF ListInv, EndInv, AddedInv
<1>6. OnceInv'
  <2> SUFFICES ASSUME AddedTwice' = {} PROVE OnceInv'
    BY DEF OnceInv
  <2>1. AddedTwice = {}
    BY <1>0 DEF AddedTwice
  <2>2. /\ Listed = {m \in CanNodes : adds[m] > 0} /\ nextNode[adding] = 0
        /\ \A m \in CanNodes : adds[m] = 0 => nextNode[m] = 0
    BY <1>0, <2>1 DEF ListInv, OnceInv
  <2>3. nextNode' = nextNode
    BY <1>0, <1>1, <2>2 DEF ListTypes
  <2>4. Listed' = Listed
    BY <1>0, <2>3 DEF Listed
  <2> QED
    BY <1>0, <1>4, <2>2, <2>3, <2>4 DEF OnceInv
<1> QED
  BY <1>5, <1>6 DEF ListInv

\* ... and its filter is asked for.
LEMMA FilterKeepsList ==
  ASSUME ListInv, ListTypes', AddFilter
  PROVE  ListInv'
<1>0. /\ ListTypes /\ addPc = "filter" /\ addPc' = "idle" /\ ~stuck
      /\ filtered' \subseteq filtered \cup {adding}
      /\ UNCHANGED <<srcNode, nextNode, adds, stuck>>
  BY DEF ListInv, AddFilter
<1>1. Listed' = Listed /\ AddedTwice' = AddedTwice
  BY <1>0 DEF Listed, AddedTwice
<1>2. Ends' = Ends
  BY <1>0, <1>1 DEF Ends
<1>3. EndInv' /\ AddedInv' /\ OnceInv'
  BY <1>0, <1>1, <1>2 DEF ListInv, EndInv, AddedInv, OnceInv
<1> QED
  BY <1>3 DEF ListInv

\* Every step keeps the list.
LEMMA ListGoesOn == ListInv /\ [CanNext]_canVars => ListInv'
<1> SUFFICES ASSUME ListInv, [CanNext]_canVars PROVE ListInv'
  OBVIOUS
<1>1. ListTypes'
  BY ListTypesNext DEF ListInv
<1>2. CASE AddNode
  BY <1>1, <1>2, LinkKeepsList, EndKeepsList, FilterKeepsList DEF AddNode
<1>3. CASE ~AddNode
  <2>1. UNCHANGED listVars
    BY <1>3 DEF CanNext, CanWrite, SendPiece, OnTheBus, LostOnTheBus, P_CAN_IRQHandler, canVars
  <2>2. AddedTwice = {} => ~stuck /\ Ends
    BY DEF ListInv, OnceInv
  <2>3. AddedTwice = {} => stuck' = FALSE
    BY <1>1, <1>3, <2>2
    DEF CanNext, CanWrite, SendPiece, OnTheBus, LostOnTheBus, P_CAN_IRQHandler, canVars, ListTypes
  <2> QED
    BY <1>1, <2>1, <2>3, OthersKeepList
<1> QED
  BY <1>2, <1>3

\* The invariant holds in every state.
LEMMA ListAlways == CanSpec => []ListInv
<1> QED
  BY ListStarts, ListGoesOn, PTL DEF CanSpec

\* Public_SoftCan.c:58-82: for any number of nodes, wherever the interrupt comes in
\* P_CAN_AddNode: as long as no node is added twice the list has an end and holds
\* every node added, and no interrupt is stuck; and whenever P_CAN_AddNode is
\* over, the list has an end again.
THEOREM ListStaysWhole == CanSpec => []ListIsWhole
<1>1. ListInv => ListIsWhole
  BY DEF ListInv, EndInv, OnceInv, ListIsWhole
<1> QED
  BY <1>1, ListAlways, PTL

-----------------------------------------------------------------------------

TrafficTypes ==
  /\ write \in 0..MaxWrites /\ from \in Nat /\ left \in Nat
  /\ mailboxes \in Runs(Piece) /\ Len(mailboxes) <= Mailboxes
  /\ rxFifo \in Runs(Piece) /\ Len(rxFifo) <= RxDepth
  /\ got \in [CanNodes -> Runs(Piece)]
  /\ sizes \in Seq(WriteLens) /\ Len(sizes) = write
  /\ lossy \in BOOLEAN /\ early \subseteq filtered \cap CanNodes
  /\ left > 0 => write > 0 /\ from + left = sizes[write]

\* The pieces node n has got and those that are on their way.
Stream(n) == Row(got[n], rxFifo, mailboxes)

Sorted(s) == \A u, v \in DOMAIN s : u < v => After(s[v], s[u])

\* The pieces of s come before byte f of write w.
Before(s, w, f) == \A u \in DOMAIN s : s[u].write < w \/ (s[u].write = w /\ s[u].from < f)

\* Byte f of write w is the next one behind piece q.
Linked(q, w, f) ==
  \/ w = q.write /\ f = q.from + q.len
  \/ w = q.write + 1 /\ f = 0 /\ q.from + q.len = sizes[q.write]

\* No piece is missing between those of s.
Chain(s) == \A u, v \in DOMAIN s : v = u + 1 => Linked(s[u], s[v].write, s[v].from)

\* Nor between the last of s and what is still to be sent.
Reaches(s) ==
  /\ s = <<>> => write = 0 \/ (write = 1 /\ from = 0 /\ left > 0)
  /\ s # <<>> => LET q == s[Len(s)]
                 IN  IF left > 0 THEN Linked(q, write, from)
                     ELSE q.write = write /\ q.from + q.len = sizes[write]

OrderInv == \A n \in CanNodes : Sorted(Stream(n)) /\ Before(Stream(n), write, from)

WholeInv ==
  ~lossy /\ AddedTwice = {} => \A n \in early : Chain(Stream(n)) /\ Reaches(Stream(n))

TrafficInv == TrafficTypes /\ OrderInv /\ WholeInv

-----------------------------------------------------------------------------

\* A part of what is sorted is sorted.
LEMMA SortedPart ==
  ASSUME NEW s, NEW t, PartOf(s, t)
  PROVE  /\ Sorted(t) => Sorted(s)
         /\ \A w, f : Before(t, w, f) => Before(s, w, f)
<1>1. PICK pos \in [DOMAIN s -> DOMAIN t] :
        /\ \A u, v \in DOMAIN s : u < v => pos[u] < pos[v]
        /\ \A u \in DOMAIN s : s[u] = t[pos[u]]
  BY DEF PartOf
<1>2. \A u \in DOMAIN s : pos[u] \in DOMAIN t
  BY <1>1
<1>3. Sorted(t) => Sorted(s)
  BY <1>1, <1>2 DEF Sorted
<1>4. \A w, f : Before(t, w, f) => Before(s, w, f)
  BY <1>1, <1>2 DEF Before
<1> QED
  BY <1>3, <1>4

\* What a node got is a part of all that was, or is, on its way to it; and all of it,
\* when nothing is on the way.
LEMMA StreamIs ==
  TrafficTypes => \A n \in CanNodes :
    /\ Stream(n) \in Runs(Piece) /\ got[n] \in Runs(Piece)
    /\ PartOf(got[n], Stream(n))
    /\ rxFifo = <<>> /\ mailboxes = <<>> => Stream(n) = got[n]
<1> SUFFICES ASSUME TrafficTypes, NEW n \in CanNodes
             PROVE  /\ Stream(n) \in Runs(Piece) /\ got[n] \in Runs(Piece)
                    /\ PartOf(got[n], Stream(n))
                    /\ rxFifo = <<>> /\ mailboxes = <<>> => Stream(n) = got[n]
  OBVIOUS
<1>1. got[n] \in Runs(Piece) /\ rxFifo \in Runs(Piece) /\ mailboxes \in Runs(Piece)
  BY DEF TrafficTypes
<1>2. PICK g, r, m \in Runs(Piece) : g = got[n] /\ r = rxFifo /\ m = mailboxes
  BY <1>1
<1>3. Row(g, r, m) \in Runs(Piece)
  BY ThenIsRun DEF Row
<1>4. PartOf(g, Row(g, r, m))
  BY RowCuts
<1>5. Row(g, <<>>, <<>>) = g
  BY ThenEmpty DEF Row
<1> QED
  BY <1>1, <1>2, <1>3, <1>4, <1>5 DEF Stream

\* What OnTheBus and LostOnTheBus do to the pieces of a node: none, or one that is
\* lost, is taken away.
LEMMA BusMoves ==
  ASSUME TrafficTypes, NEW n \in CanNodes, OnTheBus
  PROVE  /\ PartOf(Stream(n)', Stream(n))
         /\ filtered # {} /\ ~lossy' => Stream(n)' = Stream(n) /\ ~lossy
         /\ rxFifo' \in Runs(Piece) /\ Len(rxFifo') <= RxDepth
         /\ mailboxes' \in Runs(Piece) /\ Len(mailboxes') <= Mailboxes
<1>0. /\ got[n] \in Runs(Piece) /\ rxFifo \in Runs(Piece) /\ mailboxes \in Runs(Piece)
      /\ Len(rxFifo) \in Nat /\ Len(mailboxes) \in Nat /\ mailboxes # <<>> /\ mailboxes' = Tail(mailboxes)
      /\ got' = got
      /\ rxFifo' = IF filtered = {} THEN rxFifo ELSE Received(Head(mailboxes))
      /\ lossy' = (lossy \/ (filtered # {} /\ Len(rxFifo) = RxDepth))
      /\ Len(mailboxes) <= Mailboxes
  BY LenProperties DEF TrafficTypes, OnTheBus, Runs
<1>l. Len(rxFifo) \in Nat /\ Len(rxFifo) <= 3
  BY <1>0 DEF TrafficTypes, RxDepth
<1>1. PICK e \in Piece, m \in Runs(Piece) :
        /\ e = Head(mailboxes) /\ m = Tail(mailboxes) /\ <<e>> \in Runs(Piece)
        /\ mailboxes = Then(<<e>>, m) /\ Len(m) = Len(mailboxes) - 1
  BY <1>0, HeadAndTail
<1>2. PICK g, r \in Runs(Piece), h \in Runs(Piece) : g = got[n] /\ r = rxFifo /\ h = <<e>>
  BY <1>0, <1>1
<1>3. Stream(n) = Row(g, r, Then(h, m))
  BY <1>1, <1>2 DEF Stream
<1>4. Len(mailboxes') <= Mailboxes /\ mailboxes' \in Runs(Piece) /\ mailboxes' = m
  BY <1>0, <1>1 DEF Mailboxes
<1>5. CASE filtered = {}
  <2>1. Stream(n)' = Row(g, r, m) /\ rxFifo' = rxFifo
    BY <1>0, <1>2, <1>4, <1>5 DEF Stream
  <2>2. PartOf(Row(g, r, m), Row(g, r, Then(h, m)))
    BY RowCuts
  <2> QED
    BY <1>0, <1>l, <1>3, <1>4, <1>5, <2>1, <2>2 DEF RxDepth
<1>6. CASE filtered # {} /\ Len(rxFifo) < 3
  <2>1. rxFifo' = Then(r, h)
    BY <1>0, <1>1, <1>2, <1>6, ThenAppend DEF Received, RxDepth
  <2>2. Stream(n)' = Row(g, Then(r, h), m)
    BY <1>0, <1>2, <1>4, <2>1 DEF Stream
  <2>3. Row(g, Then(r, h), m) = Row(g, r, Then(h, m))
    <3> DEFINE front == Then(g, r)
    <3>1. front \in Runs(Piece) /\ Then(g, Then(r, h)) = Then(front, h)
      BY ThenIsRun, ThenAssociates
    <3> HIDE DEF front
    <3>2. Then(Then(front, h), m) = Then(front, Then(h, m))
      BY <3>1, ThenAssociates
    <3> QED
      BY <3>1, <3>2 DEF Row, front
  <2>4. rxFifo' \in Runs(Piece) /\ Len(rxFifo') <= RxDepth
    <3>1. Then(r, h) \in Runs(Piece) /\ Len(Then(r, h)) = Len(r) + Len(h)
      BY ThenIsRun, ThenLength
    <3>2. Len(h) = 1
      BY <1>2
    <3> QED
      BY <1>0, <1>2, <1>6, <2>1, <3>1, <3>2 DEF RxDepth
  <2>5. PartOf(Stream(n), Stream(n))
    BY WholeIsPart
  <2> QED
    BY <1>0, <1>3, <1>4, <2>2, <2>3, <2>4, <2>5
<1>7. CASE filtered # {} /\ ~(Len(rxFifo) < 3)
  <2>0. Len(rxFifo) = 3
    <3>1. \A k \in Nat : k <= 3 /\ ~(k < 3) => k = 3
      OBVIOUS
    <3> QED
      BY <1>l, <1>7, <3>1, Zenon
  <2>1. Len(r) = 3
    BY <1>2, <2>0, Zenon
  <2>n. r # <<>>
    BY <2>1
  <2>a. /\ \E f \in Runs(Piece), x \in Runs(Piece) :
             r = Then(f, x) /\ Replaced(r, Len(r), e) = Then(f, <<e>>)
        /\ Replaced(r, Len(r), e) \in Runs(Piece) /\ Len(Replaced(r, Len(r), e)) = Len(r)
    BY <2>n, LastReplaced
  <2>b. Replaced(r, 3, e) \in Runs(Piece) /\ Len(Replaced(r, 3, e)) = 3
    BY <2>1, <2>a, Zenon
  <2>2. PICK f \in Runs(Piece), x \in Runs(Piece) :
          r = Then(f, x) /\ Replaced(r, 3, e) = Then(f, <<e>>)
    BY <2>1, <2>a, Zenon
  <2>3. rxFifo' = Replaced(r, 3, e) /\ rxFifo' = Then(f, h)
    <3>1. rxFifo' = [r EXCEPT ![3] = e]
      BY <1>0, <1>1, <1>2, <1>7 DEF Received, RxDepth
    <3> QED
      BY <1>2, <2>2, <3>1 DEF Replaced
  <2>4. Stream(n)' = Row(g, Then(f, h), m) /\ Stream(n) = Row(g, Then(f, x), Then(h, m))
    BY <1>0, <1>2, <1>3, <1>4, <2>2, <2>3 DEF Stream
  <2>5. PartOf(Row(g, Then(f, h), m), Row(g, Then(f, x), Then(h, m)))
    BY RowCuts
  <2>6. rxFifo' \in Runs(Piece) /\ Len(rxFifo') <= RxDepth
    <3>1. Len(rxFifo') = 3
      BY <2>b, <2>3, Zenon
    <3>2. rxFifo' \in Runs(Piece)
      BY <2>b, <2>3, Zenon
    <3> QED
      BY <3>1, <3>2 DEF RxDepth
  <2>7. lossy'
    BY <1>0, <1>7, <2>0 DEF RxDepth
  <2> QED
    BY <1>4, <2>4, <2>5, <2>6, <2>7
<1> QED
  BY <1>0, <1>5, <1>6, <1>7

\* A frame that is lost on the bus leaves a part of the rest.
LEMMA LostMoves ==
  ASSUME TrafficTypes, NEW n \in CanNodes, LostOnTheBus
  PROVE  /\ PartOf(Stream(n)', Stream(n)) /\ lossy'
         /\ mailboxes' \in Runs(Piece) /\ Len(mailboxes') <= Mailboxes
<1>0. /\ got[n] \in Runs(Piece) /\ rxFifo \in Runs(Piece) /\ mailboxes \in Runs(Piece)
      /\ Len(mailboxes) \in Nat /\ mailboxes # <<>> /\ mailboxes' = Tail(mailboxes)
      /\ got' = got /\ rxFifo' = rxFifo /\ lossy'
      /\ Len(mailboxes) <= Mailboxes
  BY LenProperties DEF TrafficTypes, LostOnTheBus, Runs
<1>1. PICK h, m \in Runs(Piece) :
        m = Tail(mailboxes) /\ mailboxes = Then(h, m) /\ Len(m) = Len(mailboxes) - 1
  BY <1>0, HeadAndTail
<1>2. PICK g, r \in Runs(Piece) : g = got[n] /\ r = rxFifo
  BY <1>0
<1>3. Stream(n) = Row(g, r, Then(h, m)) /\ Stream(n)' = Row(g, r, m)
  BY <1>0, <1>1, <1>2 DEF Stream
<1>4. Len(mailboxes') <= Mailboxes /\ mailboxes' \in Runs(Piece)
  BY <1>0, <1>1 DEF Mailboxes
<1>5. PartOf(Row(g, r, m), Row(g, r, Then(h, m)))
  BY RowCuts
<1> QED
  BY <1>0, <1>3, <1>4, <1>5

\* The interrupt moves the first piece to what each node of the list has got.
LEMMA InterruptMoves ==
  ASSUME TrafficTypes, ListTypes, NEW n \in CanNodes, P_CAN_IRQHandler
  PROVE  /\ PartOf(Stream(n)', Stream(n))
         /\ n \in Listed \/ ~Ends => Stream(n)' = Stream(n)
         /\ got'[n] \in Runs(Piece)
         /\ rxFifo' \in Runs(Piece) /\ Len(rxFifo') <= RxDepth
<1>0. /\ got[n] \in Runs(Piece) /\ rxFifo \in Runs(Piece) /\ mailboxes \in Runs(Piece)
      /\ Len(rxFifo) \in Nat /\ rxFifo # <<>> /\ mailboxes' = mailboxes
      /\ Len(rxFifo) <= RxDepth
      /\ ~Ends => got' = got /\ rxFifo' = rxFifo
      /\ Ends => /\ rxFifo' = Tail(rxFifo)
                 /\ got'[n] = IF n \in Listed THEN Append(got[n], Head(rxFifo)) ELSE got[n]
  BY LenProperties DEF TrafficTypes, P_CAN_IRQHandler, Runs
<1>1. PICK e \in Piece, r \in Runs(Piece) :
        /\ e = Head(rxFifo) /\ r = Tail(rxFifo) /\ <<e>> \in Runs(Piece)
        /\ rxFifo = Then(<<e>>, r) /\ Len(r) = Len(rxFifo) - 1
  BY <1>0, HeadAndTail
<1>2. PICK g, m \in Runs(Piece), h \in Runs(Piece) : g = got[n] /\ m = mailboxes /\ h = <<e>>
  BY <1>0, <1>1
<1>3. Stream(n) = Row(g, Then(h, r), m)
  BY <1>1, <1>2 DEF Stream
<1>4. CASE ~Ends
  <2>1. Stream(n)' = Stream(n)
    BY <1>0, <1>4 DEF Stream
  <2> QED
    BY <1>0, <1>4, <2>1, WholeIsPart
<1>5. CASE Ends
  <2>1. rxFifo' = r /\ Len(rxFifo') <= RxDepth
    BY <1>0, <1>1, <1>5 DEF RxDepth
  <2>2. CASE n \in Listed
    <3>1. got'[n] = Then(g, h)
      BY <1>0, <1>1, <1>2, <1>5, <2>2, ThenAppend
    <3>2. Stream(n)' = Row(Then(g, h), r, m)
      BY <1>0, <1>2, <2>1, <3>1 DEF Stream
    <3>3. Stream(n)' = Stream(n)
      <4>1. Row(Then(g, h), r, m) = Row(g, Then(h, r), m)
        BY ThenAssociates DEF Row
      <4> QED
        BY <1>3, <3>2, <4>1
    <3>4. Then(g, h) \in Runs(Piece)
      BY ThenIsRun
    <3> QED
      BY <2>1, <3>1, <3>3, <3>4, WholeIsPart
  <2>3. CASE n \notin Listed
    <3>1. got'[n] = g
      BY <1>0, <1>2, <1>5, <2>3
    <3>2. Stream(n)' = Row(g, r, m)
      BY <1>0, <1>2, <2>1, <3>1 DEF Stream
    <3>3. PartOf(Row(g, r, m), Row(g, Then(h, r), m))
      BY RowCuts
    <3> QED
      BY <1>3, <1>5, <2>1, <2>3, <3>1, <3>2, <3>3
  <2> QED
    BY <2>2, <2>3
<1> QED
  BY <1>4, <1>5

\* What takes pieces away from the streams, but none that a node which was ready
\* waits for unless one is lost.
LEMMA PartKeepsTraffic ==
  ASSUME TrafficInv, TrafficTypes', UNCHANGED <<write, from, left, sizes, early>>,
         AddedTwice' = {} => AddedTwice = {},
         \A n \in CanNodes : PartOf(Stream(n)', Stream(n)),
         ~lossy' /\ AddedTwice' = {} => ~lossy /\ \A n \in early : Stream(n)' = Stream(n)
  PROVE  TrafficInv'
<1>1. OrderInv'
  BY SortedPart DEF TrafficInv, OrderInv
<1>2. WholeInv'
  <2> SUFFICES ASSUME ~lossy', AddedTwice' = {}, NEW n \in early'
               PROVE  Chain(Stream(n))' /\ Reaches(Stream(n))'
    BY DEF WholeInv
  <2>1. n \in early /\ Stream(n)' = Stream(n) /\ ~lossy /\ AddedTwice = {}
    OBVIOUS
  <2>2. Chain(Stream(n)) /\ Reaches(Stream(n))
    BY <2>1 DEF TrafficInv, WholeInv
  <2>3. Chain(Stream(n))'
    BY <2>1, <2>2 DEF Chain, Linked
  <2>4. Reaches(Stream(n))'
    BY <2>1, <2>2 DEF Reaches, Linked
  <2> QED
    BY <2>3, <2>4
<1> QED
  BY <1>1, <1>2 DEF TrafficInv

\* A piece behind all the others.
LEMMA PieceFollows ==
  ASSUME NEW s \in Runs(Piece), NEW p \in Piece, Sorted(s), Before(s, p.write, p.from),
         NEW f \in Nat, p.from < f
  PROVE  /\ Sorted(Append(s, p)) /\ Before(Append(s, p), p.write, f)
         /\ Append(s, p) # <<>> /\ Append(s, p)[Len(Append(s, p))] = p
<1> DEFINE t == Append(s, p)
<1>0. /\ t \in Seq(Piece) /\ t # <<>> /\ Len(t) = Len(s) + 1 /\ t[Len(s) + 1] = p
      /\ \A u \in 1 .. Len(s) : t[u] = s[u]
      /\ DOMAIN s = 1 .. Len(s) /\ DOMAIN t = 1 .. Len(t) /\ Len(s) \in Nat
  BY AppendProperties, LenProperties DEF Runs
<1> HIDE DEF t
<1>1. \A u \in DOMAIN t : u \in DOMAIN s \/ u = Len(s) + 1
  BY <1>0
<1>2. \A u, v \in DOMAIN t : u < v => u \in DOMAIN s
  BY <1>0
<1>3. Sorted(t)
  BY <1>0, <1>1, <1>2 DEF Sorted, Before, After
<1>4. Before(t, p.write, f)
  <2>1. \A u \in DOMAIN s : s[u].from \in Nat
    <3>1. \A u \in DOMAIN s : s[u] \in Piece
      BY <1>0, ElementOfSeq DEF Runs
    <3>2. \A q \in Piece : q.from \in Nat
      BY DEF Piece
    <3> QED
      BY <3>1, <3>2
  <2>2. p.from \in Nat
    BY DEF Piece
  <2>3. \A u \in DOMAIN s : s[u].from < p.from => s[u].from < f
    BY <2>1, <2>2
  <2> QED
    BY <1>0, <1>1, <2>3 DEF Before
<1> QED
  BY <1>0, <1>3, <1>4 DEF t

\* One more piece at the end of a chain.
LEMMA ChainGrows ==
  ASSUME NEW s \in Runs(Piece), NEW p \in Piece, Chain(s),
         s # <<>> => Linked(s[Len(s)], p.write, p.from)
  PROVE  Chain(Append(s, p))
<1> DEFINE t == Append(s, p)
<1>0. /\ Len(t) = Len(s) + 1 /\ t[Len(s) + 1] = p /\ t \in Seq(Piece)
      /\ \A u \in 1 .. Len(s) : t[u] = s[u]
      /\ DOMAIN s = 1 .. Len(s) /\ DOMAIN t = 1 .. Len(t) /\ Len(s) \in Nat
  BY AppendProperties, LenProperties DEF Runs
<1> HIDE DEF t
<1>1. ASSUME NEW u \in DOMAIN t, NEW v \in DOMAIN t, v = u + 1
      PROVE  Linked(t[u], t[v].write, t[v].from)
  <2>1. CASE v \in DOMAIN s
    <3>1. u \in DOMAIN s
      BY <1>0, <1>1, <2>1
    <3> QED
      BY <1>0, <1>1, <2>1, <3>1 DEF Chain
  <2>2. CASE v \notin DOMAIN s
    <3>1. v = Len(s) + 1 /\ u = Len(s) /\ u \in DOMAIN s
      BY <1>0, <1>1, <2>2
    <3>2. s # <<>>
      BY <3>1
    <3> QED
      BY <1>0, <3>1, <3>2
  <2> QED
    BY <2>1, <2>2
<1> QED
  BY <1>1 DEF Chain, t

\* SendPiece puts the next piece behind those of every stream, or loses it.
LEMMA SendMoves ==
  ASSUME TrafficTypes, SendPiece
  PROVE  LET p == [write |-> write, from |-> from, len |-> PieceSize]
         IN  /\ p \in Piece /\ mailboxes' \in Runs(Piece) /\ Len(mailboxes') <= Mailboxes
             /\ \/ lossy' /\ \A n \in CanNodes : Stream(n)' = Stream(n)
                \/ lossy' = lossy /\ \A n \in CanNodes : Stream(n)' = Append(Stream(n), p)
<1> DEFINE p == [write |-> write, from |-> from, len |-> PieceSize]
<1>1. PieceSize \in 1..PieceLen
  BY CanAssumption DEF TrafficTypes, SendPiece, PieceSize
<1>2. p \in Piece
  BY <1>1 DEF TrafficTypes, SendPiece, Piece
<1>3. mailboxes \in Runs(Piece) /\ Len(mailboxes) \in Nat /\ rxFifo \in Runs(Piece)
  BY LenProperties DEF TrafficTypes, Runs
<1>4. got' = got /\ rxFifo' = rxFifo
  BY DEF SendPiece
<1>5. CASE Len(mailboxes) < Mailboxes
  <2>1. mailboxes' = Append(mailboxes, p) /\ lossy' = lossy
    BY <1>5 DEF SendPiece
  <2> HIDE DEF p
  <2>2. mailboxes' = Then(mailboxes, <<p>>) /\ <<p>> \in Runs(Piece)
    BY <1>2, <1>3, <2>1, ThenAppend
  <2>3. Len(mailboxes') <= Mailboxes /\ mailboxes' \in Runs(Piece)
    <3>1. mailboxes' \in Seq(Piece) /\ Len(mailboxes') = Len(mailboxes) + 1
      BY <1>2, <1>3, <2>1, AppendProperties DEF Runs
    <3> QED
      BY <1>3, <1>5, <3>1 DEF Mailboxes, Runs
  <2>4. ASSUME NEW n \in CanNodes PROVE Stream(n)' = Append(Stream(n), p)
    <3>1. got[n] \in Runs(Piece) /\ Stream(n) \in Runs(Piece)
      BY StreamIs
    <3>2. Append(Stream(n), p) = Then(Stream(n), <<p>>)
      BY <1>2, <3>1, ThenAppend
    <3>3. PICK g, r, m, t \in Runs(Piece) : g = got[n] /\ r = rxFifo /\ m = mailboxes /\ t = <<p>>
      BY <1>3, <2>2, <3>1
    <3>4. Then(Row(g, r, m), t) = Row(g, r, Then(m, t))
      BY RowGrows
    <3> QED
      BY <1>4, <2>2, <3>2, <3>3, <3>4 DEF Stream
  <2> QED
    BY <1>2, <2>1, <2>3, <2>4 DEF p
<1>6. CASE ~(Len(mailboxes) < Mailboxes)
  <2>1. mailboxes' = mailboxes /\ lossy'
    BY <1>6 DEF SendPiece
  <2>2. Len(mailboxes') <= Mailboxes
    BY <2>1 DEF TrafficTypes
  <2> QED
    BY <1>2, <1>3, <1>4, <2>1, <2>2 DEF Stream
<1> QED
  BY <1>5, <1>6

\* A piece of a write goes into a mailbox.
LEMMA SendKeepsTraffic ==
  ASSUME TrafficInv, TrafficTypes', SendPiece
  PROVE  TrafficInv'
<1> DEFINE p == [write |-> write, from |-> from, len |-> PieceSize]
           f == from + PieceLen
<1>0. TrafficTypes /\ UNCHANGED <<write, sizes, early, adds>>
  BY DEF TrafficInv, SendPiece, listVars
<1>1. /\ from \in Nat /\ f \in Nat /\ from < f /\ from' = f /\ left \in Nat /\ left > 0
      /\ from + left = sizes[write] /\ PieceLen \in Nat
      /\ left' = IF left >= PieceLen THEN left - PieceLen ELSE 0
  BY <1>0, CanAssumption DEF TrafficTypes, SendPiece
<1>2. /\ p \in Piece
      /\ \/ lossy' /\ \A n \in CanNodes : Stream(n)' = Stream(n)
         \/ lossy' = lossy /\ \A n \in CanNodes : Stream(n)' = Append(Stream(n), p)
  BY <1>0, SendMoves
<1>3. p.write = write /\ p.from = from /\ p.len = PieceSize
  OBVIOUS
<1>4. left' = 0 => p.from + p.len = sizes[write]
  BY <1>1, <1>3 DEF PieceSize
<1>5. left' > 0 => f = p.from + p.len
  BY <1>1, <1>3 DEF PieceSize
<1> HIDE DEF p, f
<1>6. \A n \in CanNodes : Stream(n) \in Runs(Piece)
  BY <1>0, StreamIs
<1>7. \A n \in CanNodes : Sorted(Stream(n)) /\ Before(Stream(n), write, from)
  BY DEF TrafficInv, OrderInv
<1>8. ASSUME lossy', \A n \in CanNodes : Stream(n)' = Stream(n) PROVE TrafficInv'
  <2>1. ASSUME NEW n \in CanNodes PROVE Before(Stream(n), write, f)
    <3> DEFINE s == Stream(n)
    <3>1. s \in Runs(Piece) /\ Before(s, write, from)
      BY <1>6, <1>7
    <3> HIDE DEF s
    <3>2. \A u \in DOMAIN s : s[u] \in Piece
      BY <3>1, LenProperties, ElementOfSeq DEF Runs
    <3>3. \A q \in Piece : q.from < from => q.from < f
      BY <1>1 DEF Piece
    <3>4. Before(s, write, f)
      BY <3>1, <3>2, <3>3 DEF Before
    <3> QED
      BY <3>4 DEF s
  <2>2. OrderInv'
    BY <1>0, <1>1, <1>7, <1>8, <2>1 DEF OrderInv
  <2> QED
    BY <1>8, <2>2 DEF TrafficInv, WholeInv
<1>9. ASSUME lossy' = lossy, \A n \in CanNodes : Stream(n)' = Append(Stream(n), p)
      PROVE  TrafficInv'
  <2>1. ASSUME NEW n \in CanNodes
        PROVE  /\ Sorted(Append(Stream(n), p)) /\ Before(Append(Stream(n), p), write, f)
               /\ Append(Stream(n), p) # <<>> /\ Append(Stream(n), p)[Len(Append(Stream(n), p))] = p
    BY <1>1, <1>2, <1>3, <1>6, <1>7, PieceFollows
  <2>2. OrderInv'
    BY <1>0, <1>1, <1>9, <2>1 DEF OrderInv
  <2>3. ASSUME ~lossy', AddedTwice' = {}, NEW n \in early'
        PROVE  Chain(Stream(n))' /\ Reaches(Stream(n))'
    <3>1. n \in early /\ n \in CanNodes /\ ~lossy /\ AddedTwice = {} /\ sizes' = sizes /\ write' = write
      <4>1. early \subseteq CanNodes
        BY <1>0 DEF TrafficTypes
      <4> QED
        BY <1>0, <1>9, <2>3, <4>1 DEF AddedTwice
    <3>2. Chain(Stream(n)) /\ Reaches(Stream(n))
      BY <3>1 DEF TrafficInv, WholeInv
    <3> DEFINE s == Stream(n)
               t == Append(s, p)
    <3>3. s \in Runs(Piece) /\ Chain(s) /\ t # <<>> /\ t[Len(t)] = p /\ Stream(n)' = t
      BY <1>6, <1>9, <2>1, <3>1, <3>2
    <3>4. s # <<>> => Linked(s[Len(s)], p.write, p.from)
      BY <1>1, <1>3, <3>2 DEF Reaches
    <3> HIDE DEF s
    <3>5. Chain(t)
      BY <1>2, <3>3, <3>4, ChainGrows
    <3> HIDE DEF t
    <3>6. Chain(Stream(n))'
      BY <3>1, <3>3, <3>5 DEF Chain, Linked
    <3>7. IF left' > 0 THEN Linked(p, write, f)
          ELSE p.write = write /\ p.from + p.len = sizes[write]
      <4>1. left' > 0 \/ left' = 0
        BY <1>1
      <4> QED
        BY <1>3, <1>4, <1>5, <4>1 DEF Linked
    <3>8. Reaches(Stream(n))'
      BY <1>1, <3>1, <3>3, <3>7 DEF Reaches, Linked
    <3> QED
      BY <3>6, <3>8
  <2> QED
    BY <2>2, <2>3 DEF TrafficInv, WholeInv
<1> QED
  BY <1>2, <1>8, <1>9

\* A new call of S_CAN_write starts behind the end of the last.
LEMMA WriteKeepsTraffic ==
  ASSUME TrafficInv, TrafficTypes', NEW len \in WriteLens, CanWrite(len)
  PROVE  TrafficInv'
<1>0. /\ TrafficTypes /\ write \in Nat /\ write' = write + 1 /\ from' = 0 /\ left' = len /\ left = 0
      /\ sizes' = Append(sizes, len) /\ sizes \in Seq(WriteLens) /\ Len(sizes) = write
      /\ early' = IF write = 0 THEN filtered ELSE early
      /\ len \in Nat /\ len > 0 /\ from \in Nat
      /\ UNCHANGED <<adds, mailboxes, rxFifo, got, lossy>>
  BY CanAssumption DEF TrafficInv, TrafficTypes, CanWrite, listVars
<1>1. \A k \in 1 .. write : sizes'[k] = sizes[k]
  BY <1>0, AppendProperties
<1>2. \A n \in CanNodes : Stream(n)' = Stream(n) /\ Stream(n) \in Runs(Piece)
  BY <1>0, StreamIs DEF Stream
<1>3. ASSUME NEW n \in CanNodes
      PROVE  /\ Sorted(Stream(n)) /\ \A u \in DOMAIN Stream(n) : Stream(n)[u] \in Piece
             /\ \A u \in DOMAIN Stream(n) : Stream(n)[u].write \in 1 .. write
             /\ write = 0 => Stream(n) = <<>>
  <2> DEFINE s == Stream(n)
  <2>1. s \in Runs(Piece) /\ Before(s, write, from) /\ Sorted(s)
    BY <1>2 DEF TrafficInv, OrderInv
  <2> HIDE DEF s
  <2>2. \A u \in DOMAIN s : s[u] \in Piece
    BY <2>1, LenProperties, ElementOfSeq DEF Runs
  <2>3. \A q \in Piece : q.write \in Nat /\ q.write > 0
    BY CanAssumption DEF Piece
  <2>4. \A u \in DOMAIN s : s[u].write < write \/ s[u].write = write
    BY <2>1 DEF Before
  <2>5. \A u \in DOMAIN s : s[u].write \in 1 .. write
    BY <1>0, <2>2, <2>3, <2>4
  <2>6. write = 0 => s = <<>>
    <3>1. write = 0 => DOMAIN s = {}
      <4>1. \A k : k \notin 1 .. 0
        OBVIOUS
      <4> QED
        BY <2>5, <4>1
    <3>2. s \in Seq(Piece) /\ (s # <<>> => 1 \in DOMAIN s)
      BY <2>1, LenProperties, EmptySeq DEF Runs
    <3> QED
      BY <3>1, <3>2
  <2> QED
    BY <2>1, <2>2, <2>5, <2>6 DEF s
<1>4. OrderInv'
  <2>1. ASSUME NEW n \in CanNodes PROVE Before(Stream(n), write', 0)
    <3>1. \A k \in 1 .. write : k < write'
      BY <1>0
    <3> QED
      BY <1>3, <3>1 DEF Before
  <2> QED
    BY <1>0, <1>2, <1>3, <2>1 DEF OrderInv
<1>5. ASSUME ~lossy', AddedTwice' = {}, NEW n \in early'
      PROVE  Chain(Stream(n))' /\ Reaches(Stream(n))'
  <2> DEFINE s == Stream(n)
  <2>1. n \in CanNodes /\ ~lossy /\ AddedTwice = {} /\ (write # 0 => n \in early)
    <3>1. early' \subseteq CanNodes
      BY DEF TrafficTypes
    <3> QED
      BY <1>0, <1>5, <3>1 DEF AddedTwice
  <2>2. /\ s \in Runs(Piece) /\ s' = s /\ \A u \in DOMAIN s : s[u].write \in 1 .. write
        /\ write = 0 => s = <<>>
    BY <1>2, <1>3, <2>1
  <2>3. write # 0 => Chain(s) /\ Reaches(s)
    BY <2>1 DEF TrafficInv, WholeInv
  <2> HIDE DEF s
  <2>4. Chain(s)
    BY <2>2, <2>3 DEF Chain
  <2>5. Chain(s)'
    <3>1. \A u \in DOMAIN s : sizes'[s[u].write] = sizes[s[u].write]
      BY <1>1, <2>2
    <3> QED
      BY <2>2, <2>4, <3>1 DEF Chain, Linked
  <2>6. s = <<>> => write' = 1
    <3>1. s = <<>> => write = 0
      BY <1>0, <2>3 DEF Reaches
    <3> QED
      BY <1>0, <3>1
  <2>7. s # <<>> => Linked(s[Len(s)], write, from)' 
    <3> SUFFICES ASSUME s # <<>> PROVE Linked(s[Len(s)], write, from)'
      OBVIOUS
    <3>1. s[Len(s)].write = write /\ s[Len(s)].from + s[Len(s)].len = sizes[write]
      BY <1>0, <2>2, <2>3 DEF Reaches
    <3>2. write \in 1 .. write
      BY <1>0, <2>2
    <3> QED
      BY <1>0, <1>1, <2>2, <3>1, <3>2 DEF Linked
  <2>8. Reaches(s)'
    BY <1>0, <2>2, <2>6, <2>7 DEF Reaches
  <2> QED
    BY <2>5, <2>8 DEF s
<1> QED
  BY <1>4, <1>5 DEF TrafficInv, WholeInv

\* What TrafficTypes says of the two controllers.
LEMMA ControllersFit ==
  ASSUME TrafficTypes, ListTypes, OnTheBus \/ LostOnTheBus \/ P_CAN_IRQHandler
  PROVE  /\ mailboxes' \in Runs(Piece) /\ Len(mailboxes') <= Mailboxes
         /\ rxFifo' \in Runs(Piece) /\ Len(rxFifo') <= RxDepth
<1>0. /\ mailboxes \in Runs(Piece) /\ Len(mailboxes) \in Nat /\ Len(mailboxes) <= Mailboxes
      /\ rxFifo \in Runs(Piece) /\ Len(rxFifo) \in Nat /\ Len(rxFifo) <= RxDepth
  BY LenProperties DEF TrafficTypes, Runs
<1>1. CASE CanNodes # {}
  <2>1. PICK n : n \in CanNodes
    BY <1>1
  <2>2. LostOnTheBus => rxFifo' = rxFifo
    BY DEF LostOnTheBus
  <2>3. P_CAN_IRQHandler => mailboxes' = mailboxes
    BY DEF P_CAN_IRQHandler
  <2> QED
    BY <1>0, <2>1, <2>2, <2>3, BusMoves, LostMoves, InterruptMoves
<1>2. CASE CanNodes = {}
  <2>1. filtered = {}
    BY <1>2 DEF ListTypes
  <2>2. /\ mailboxes' = mailboxes \/ (mailboxes # <<>> /\ mailboxes' = Tail(mailboxes))
        /\ rxFifo' = rxFifo \/ (rxFifo # <<>> /\ rxFifo' = Tail(rxFifo))
    BY <2>1 DEF OnTheBus, LostOnTheBus, P_CAN_IRQHandler
  <2>3. \A s \in Runs(Piece) : s # <<>> => Tail(s) \in Runs(Piece) /\ Len(Tail(s)) = Len(s) - 1
    BY HeadTailProperties DEF Runs
  <2>4. Len(mailboxes') <= Mailboxes /\ Len(rxFifo') <= RxDepth
    BY <1>0, <2>2, <2>3 DEF Mailboxes, RxDepth
  <2> QED
    BY <1>0, <2>2, <2>3, <2>4
<1> QED
  BY <1>1, <1>2

\* Every step keeps the types.
LEMMA TrafficTypesNext == TrafficTypes /\ ListTypes /\ [CanNext]_canVars => TrafficTypes'
<1> SUFFICES ASSUME TrafficTypes, ListTypes, [CanNext]_canVars PROVE TrafficTypes'
  OBVIOUS
<1>1. CASE UNCHANGED trafficVars /\ filtered \subseteq filtered'
  <2>1. UNCHANGED <<write, from, left, mailboxes, rxFifo, got, sizes, lossy, early>>
    BY <1>1 DEF trafficVars, sendVars
  <2> QED
    BY <1>1, <2>1 DEF TrafficTypes
<1>2. CASE AddNode
  <2>1. UNCHANGED trafficVars /\ filtered \subseteq filtered'
    BY <1>2 DEF AddNode, AddLink, AddEnd, AddFilter
  <2> QED
    BY <1>1, <2>1
<1>3. ASSUME NEW len \in WriteLens, CanWrite(len) PROVE TrafficTypes'
  <2>1. write' \in 0..MaxWrites /\ from' = 0 /\ left' \in Nat /\ left' = len
    BY <1>3, CanAssumption DEF TrafficTypes, CanWrite
  <2>2. sizes' \in Seq(WriteLens) /\ Len(sizes') = write' /\ sizes'[write'] = len
    BY <1>3, AppendProperties DEF TrafficTypes, CanWrite
  <2>3. early' \subseteq filtered' \cap CanNodes
    BY <1>3 DEF TrafficTypes, ListTypes, CanWrite, listVars
  <2>4. left' > 0 => write' > 0 /\ from' + left' = sizes'[write']
    BY <1>3, <2>1, <2>2 DEF TrafficTypes, CanWrite
  <2> QED
    BY <1>3, <2>1, <2>2, <2>3, <2>4 DEF TrafficTypes, CanWrite
<1>4. CASE SendPiece
  <2>1. mailboxes' \in Runs(Piece) /\ Len(mailboxes') <= Mailboxes
    BY <1>4, SendMoves
  <2>2. /\ from \in Nat /\ left \in Nat /\ left > 0 /\ write > 0 /\ from + left = sizes[write]
        /\ from' = from + PieceLen /\ left' = IF left >= PieceLen THEN left - PieceLen ELSE 0
        /\ PieceLen \in Nat /\ write' = write /\ sizes' = sizes
    BY <1>4, CanAssumption DEF TrafficTypes, SendPiece
  <2>3. from' \in Nat /\ left' \in Nat /\ (left' > 0 => write' > 0 /\ from' + left' = sizes'[write'])
    <3>1. left >= PieceLen => left - PieceLen \in Nat /\ from' + (left - PieceLen) = from + left
      BY <2>2
    <3> QED
      BY <2>2, <3>1
  <2>4. lossy' \in BOOLEAN /\ UNCHANGED <<write, rxFifo, got, sizes, early, filtered>>
    BY <1>4 DEF SendPiece, TrafficTypes, listVars
  <2> QED
    BY <2>1, <2>3, <2>4 DEF TrafficTypes
<1>5. CASE OnTheBus \/ LostOnTheBus \/ P_CAN_IRQHandler
  <2>1. /\ mailboxes' \in Runs(Piece) /\ Len(mailboxes') <= Mailboxes
        /\ rxFifo' \in Runs(Piece) /\ Len(rxFifo') <= RxDepth
    BY <1>5, ControllersFit
  <2>2. UNCHANGED <<write, from, left, sizes, early, filtered>> /\ lossy' \in BOOLEAN
    BY <1>5 DEF OnTheBus, LostOnTheBus, P_CAN_IRQHandler, sendVars, listVars, TrafficTypes
  <2>3. got' \in [CanNodes -> Runs(Piece)]
    <3>1. CASE got' = got
      BY <3>1 DEF TrafficTypes
    <3>2. CASE P_CAN_IRQHandler
      <4>1. \A n \in CanNodes : got'[n] \in Runs(Piece)
        BY <3>2, InterruptMoves
      <4>2. got' = got \/ got' = [n \in CanNodes |->
               IF n \in Listed THEN Append(got[n], Head(rxFifo)) ELSE got[n]]
        BY <3>2 DEF P_CAN_IRQHandler
      <4>3. got' = [n \in CanNodes |-> got'[n]]
        BY <4>2 DEF TrafficTypes
      <4> QED
        BY <4>1, <4>3
    <3> QED
      BY <1>5, <3>1, <3>2 DEF OnTheBus, LostOnTheBus
  <2> QED
    BY <2>1, <2>2, <2>3 DEF TrafficTypes
<1>6. CASE UNCHANGED canVars
  <2>1. UNCHANGED trafficVars /\ UNCHANGED filtered
    BY <1>6 DEF canVars, listVars
  <2> QED
    BY <1>1, <2>1
<1> QED
  BY <1>2, <1>3, <1>4, <1>5, <1>6 DEF CanNext

\* The invariant holds before any write.
LEMMA TrafficStarts == CanInit => TrafficInv
<1> SUFFICES ASSUME CanInit PROVE TrafficInv
  OBVIOUS
<1>1. /\ <<>> \in Runs(Piece) /\ <<>> \in Seq(WriteLens) /\ Len(<<>>) = 0 /\ 0 \in 0..MaxWrites
  BY CanAssumption, EmptySeq DEF Runs
<1>2. TrafficTypes
  <2>1. got \in [CanNodes -> Runs(Piece)]
    BY <1>1 DEF CanInit
  <2>2. Len(mailboxes) <= Mailboxes /\ Len(rxFifo) <= RxDepth
    BY <1>1 DEF CanInit, Mailboxes, RxDepth
  <2>3. write \in 0..MaxWrites /\ from \in Nat /\ left \in Nat /\ ~(left > 0)
    BY <1>1 DEF CanInit
  <2>4. mailboxes \in Runs(Piece) /\ rxFifo \in Runs(Piece) /\ sizes \in Seq(WriteLens)
        /\ Len(sizes) = write /\ lossy \in BOOLEAN /\ early = {}
    BY <1>1 DEF CanInit
  <2> QED
    BY <2>1, <2>2, <2>3, <2>4 DEF TrafficTypes
<1>3. ASSUME NEW n \in CanNodes PROVE Stream(n) = <<>>
  <2>1. Row(<<>>, <<>>, <<>>) = <<>>
    BY <1>1, ThenEmpty DEF Row
  <2> QED
    BY <2>1 DEF CanInit, Stream
<1>4. DOMAIN <<>> = {}
  OBVIOUS
<1>5. Sorted(<<>>) /\ Before(<<>>, write, from)
  BY <1>4 DEF Sorted, Before
<1>6. OrderInv /\ WholeInv
  BY <1>3, <1>5 DEF CanInit, OrderInv, WholeInv
<1> QED
  BY <1>2, <1>6 DEF TrafficInv

\* Every step keeps the traffic's invariant.
LEMMA TrafficGoesOn == TrafficInv /\ ListInv /\ [CanNext]_canVars => TrafficInv'
<1> SUFFICES ASSUME TrafficInv, ListInv, [CanNext]_canVars PROVE TrafficInv'
  OBVIOUS
<1>0. TrafficTypes /\ ListTypes /\ TrafficTypes'
  BY TrafficTypesNext DEF TrafficInv, ListInv
<1>1. \A n \in CanNodes : Stream(n) \in Runs(Piece)
  BY <1>0, StreamIs
<1>2. early \subseteq filtered /\ early \subseteq CanNodes
  BY <1>0 DEF TrafficTypes
<1>3. CASE UNCHANGED trafficVars /\ (AddedTwice' = {} => AddedTwice = {})
  <2>1. UNCHANGED <<write, from, left, sizes, early, lossy, got, rxFifo, mailboxes>>
    BY <1>3 DEF trafficVars, sendVars
  <2>2. \A n \in CanNodes : Stream(n)' = Stream(n)
    BY <2>1 DEF Stream
  <2>3. \A n \in CanNodes : PartOf(Stream(n)', Stream(n))
    BY <1>1, <2>2, WholeIsPart
  <2> QED
    BY <1>0, <1>2, <1>3, <2>1, <2>2, <2>3, PartKeepsTraffic
<1>4. CASE AddNode
  <2>1. UNCHANGED trafficVars
    BY <1>4 DEF AddNode, AddLink, AddEnd, AddFilter
  <2>2. \A m \in CanNodes : adds[m] > 1 => adds'[m] > 1
    <3>1. adds' = adds \/ \E n \in CanNodes : adds' = [adds EXCEPT ![n] = @ + 1]
      BY <1>4 DEF AddNode, AddLink, AddEnd, AddFilter
    <3>2. adds \in [CanNodes -> Nat]
      BY <1>0, CanAssumption DEF ListTypes
    <3> QED
      BY <3>1, <3>2
  <2>3. AddedTwice' = {} => AddedTwice = {}
    BY <2>2 DEF AddedTwice
  <2> QED
    BY <1>3, <2>1, <2>3
<1>5. CASE OnTheBus
  <2>1. UNCHANGED <<write, from, left, sizes, early, adds>>
    BY <1>5 DEF OnTheBus, sendVars, listVars
  <2>2. \A n \in CanNodes : PartOf(Stream(n)', Stream(n))
    BY <1>0, <1>5, BusMoves
  <2>3. ASSUME ~lossy' PROVE ~lossy /\ \A n \in early : Stream(n)' = Stream(n)
    BY <1>0, <1>2, <1>5, <2>3, BusMoves DEF OnTheBus
  <2>4. AddedTwice' = AddedTwice
    BY <2>1 DEF AddedTwice
  <2> QED
    BY <1>0, <2>1, <2>2, <2>3, <2>4, PartKeepsTraffic
<1>6. CASE LostOnTheBus
  <2>1. UNCHANGED <<write, from, left, sizes, early, adds>> /\ lossy'
    BY <1>6 DEF LostOnTheBus, sendVars, listVars
  <2>2. \A n \in CanNodes : PartOf(Stream(n)', Stream(n))
    BY <1>0, <1>6, LostMoves
  <2>3. AddedTwice' = AddedTwice
    BY <2>1 DEF AddedTwice
  <2> QED
    BY <1>0, <2>1, <2>2, <2>3, PartKeepsTraffic
<1>7. CASE P_CAN_IRQHandler
  <2>1. UNCHANGED <<write, from, left, sizes, early, adds, lossy>>
    BY <1>7 DEF P_CAN_IRQHandler, sendVars, listVars
  <2>2. \A n \in CanNodes : PartOf(Stream(n)', Stream(n))
    BY <1>0, <1>7, InterruptMoves
  <2>3. AddedTwice' = AddedTwice
    BY <2>1 DEF AddedTwice
  <2>4. ASSUME AddedTwice = {}, NEW n \in early PROVE Stream(n)' = Stream(n)
    <3>1. n \in CanNodes /\ adds[n] > 0
      BY <1>2 DEF ListInv, AddedInv
    <3>2. n \in Listed
      BY <2>4, <3>1 DEF ListInv, OnceInv
    <3> QED
      BY <1>0, <1>7, <3>1, <3>2, InterruptMoves
  <2> QED
    BY <1>0, <2>1, <2>2, <2>3, <2>4, PartKeepsTraffic
<1>8. CASE UNCHANGED canVars
  BY <1>3, <1>8 DEF canVars, listVars, AddedTwice
<1> QED
  BY <1>0, <1>4, <1>5, <1>6, <1>7, <1>8, WriteKeepsTraffic, SendKeepsTraffic DEF CanNext

\* The invariant holds in every state.
LEMMA TrafficAlways == CanSpec => []TrafficInv
<1> QED
  BY TrafficStarts, TrafficGoesOn, ListAlways, PTL DEF CanSpec

\* The invariant says what the property does.
LEMMA TrafficMeans == TrafficInv => PiecesArrive
<1> SUFFICES ASSUME TrafficInv PROVE PiecesArrive
  OBVIOUS
<1>0. TrafficTypes
  BY DEF TrafficInv
<1>1. ASSUME NEW n \in CanNodes, NEW u \in 2..Len(got[n])
      PROVE  u \in DOMAIN got[n] /\ u - 1 \in DOMAIN got[n] /\ u - 1 < u /\ u = (u - 1) + 1
  <2>1. got[n] \in Seq(Piece)
    BY <1>0 DEF TrafficTypes, Runs
  <2> QED
    BY <2>1, LenProperties
<1>2. ASSUME NEW n \in CanNodes, NEW u \in 2..Len(got[n]) PROVE After(got[n][u], got[n][u - 1])
  <2>1. Sorted(got[n])
    BY <1>0, StreamIs, SortedPart DEF TrafficInv, OrderInv
  <2> QED
    BY <1>1, <2>1 DEF Sorted
<1>3. ASSUME ~lossy, AddedTwice = {}, left = 0, mailboxes = <<>>, rxFifo = <<>>, write > 0,
             NEW n \in early
      PROVE  /\ UpTo(n) = [write |-> write, next |-> sizes[write]]
             /\ \A u \in 2..Len(got[n]) :
                  LET p == got[n][u]
                      q == got[n][u - 1]
                  IN  \/ p.write = q.write /\ p.from = q.from + q.len
                      \/ p.write = q.write + 1 /\ p.from = 0 /\ q.from + q.len = sizes[q.write]
  <2>1. n \in CanNodes /\ Stream(n) = got[n]
    BY <1>0, <1>3, StreamIs DEF TrafficTypes
  <2>2. Chain(got[n]) /\ Reaches(got[n])
    BY <1>3, <2>1 DEF TrafficInv, WholeInv
  <2>3. UpTo(n) = [write |-> write, next |-> sizes[write]]
    <3>1. got[n] # <<>>
      BY <1>3, <2>2 DEF Reaches
    <3>2. got[n][Len(got[n])].write = write
          /\ got[n][Len(got[n])].from + got[n][Len(got[n])].len = sizes[write]
      BY <1>3, <2>2, <3>1 DEF Reaches
    <3> QED
      BY <3>1, <3>2 DEF UpTo
  <2>4. ASSUME NEW u \in 2..Len(got[n])
        PROVE  Linked(got[n][u - 1], got[n][u].write, got[n][u].from)
    BY <1>1, <2>1, <2>2 DEF Chain
  <2> QED
    BY <2>3, <2>4 DEF Linked
<1> QED
  BY <1>2, <1>3 DEF PiecesArrive

\* Public_SoftCan.c:41-53, 161-169: for any pieces, writes and nodes, whatever the
\* bus loses: every node gets the pieces in their order and none twice; and when
\* nothing was lost, no node was added twice and all has arrived, the nodes that
\* were ready for the first piece have got every write to its last byte.
THEOREM NodesGetTheWrites == CanSpec => []PiecesArrive
<1> QED
  BY TrafficMeans, TrafficAlways, PTL

\* The types of the adapter's list, the two controllers and the pieces.
THEOREM CanTypeCorrect == CanSpec => []CanTypeOK
<1>1. ListInv /\ TrafficInv => CanTypeOK
  BY DEF ListInv, ListTypes, TrafficInv, TrafficTypes, CanTypeOK, Runs
<1> QED
  BY <1>1, ListAlways, TrafficAlways, PTL
=============================================================================
