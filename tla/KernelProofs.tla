---------------------------- MODULE KernelProofs ----------------------------
(***************************************************************************)
(* Proofs about the kernel, for any number of tasks, semaphores and calls. *)
(***************************************************************************)
EXTENDS KernelProperties, RtListProofs

-----------------------------------------------------------------------------
(* No waiter is left behind.                                               *)

\* The number of waiters that a negative count accounts for.
Owed(s) == IF value[s] < 0 THEN -value[s] ELSE 0

\* The handler has still to compare the waiters of s with its count.
Evaluating(s) == hpc \in {"post", "load", "timeout", "wake"} /\ sem = s

\* The record of s will be processed by the running or by the next handler.
PostComing(s) ==
  \/ Contains(todo, s)
  \/ Contains(pending_syscalls, s) /\ (pend \/ hpc = "take")

\* The types the argument needs.
WakeType ==
  /\ value \in [Sems -> Int] /\ num_waiters \in [Sems -> Int]
  /\ post_pending \in [Sems -> BOOLEAN] /\ post_n \in [Sems -> Nat]
  /\ record \in [Tasks -> RecordType]
  /\ pending_syscalls \in Seq(Records) /\ todo \in Seq(Records)
  /\ pushing \in [Tasks -> Tasks] /\ last_wake \in [Tasks -> Nat]
  /\ hpc = "post" => current \in Tasks \cup Sems
  /\ hpc = "wake" /\ sem \in Sems => waiters \in Nat

\* Why no waiter is left behind.  More waiters than the count accounts for are
\* there only while the handler is about to evaluate them, or while the record
\* that makes it do so is pending; and what wake_sem_waiters has read from the
\* count is still right unless that record is pending again.
WakeInv ==
  /\ hpc \in {"idle", "take"} => todo = <<>>
  /\ \A s \in Sems :
       /\ post_pending[s] => PostComing(s)
       /\ num_waiters[s] > Owed(s) => post_pending[s] \/ Evaluating(s)
       /\ hpc = "wake" /\ sem = s => waiters <= Owed(s) \/ post_pending[s]

\* Adding to a count leaves an integer, and never owes anything to a waiter when
\* nothing was owed before.
LEMMA NewValueType ==
  ASSUME NEW v \in Int, NEW n \in Nat, NEW max \in Nat
  PROVE  /\ new_value(v, n, max) \in Int
         /\ v >= 0 => new_value(v, n, max) >= 0
  BY DEF new_value

\* What a count owes to its waiters is a natural number.
LEMMA OwedType ==
  ASSUME NEW v \in [Sems -> Int], NEW s \in Sems
  PROVE  (IF v[s] < 0 THEN -v[s] ELSE 0) \in Nat
  OBVIOUS

\* The invariant holds at first, when nobody waits.
LEMMA WakeInit == Init => WakeType /\ WakeInv
<1> SUFFICES ASSUME Init PROVE WakeType /\ WakeInv
  OBVIOUS
<1>1. \A t \in Tasks : Record("TASK_READY", Null, 0, 0) \in RecordType
  BY TickAssumption DEF Record, RecordType, Syscalls
<1>2. PushedInTurn(Created) \in Seq(Records)
  BY TasksAssumption DEF PushedInTurn, Records
<1>3. WakeType
  BY <1>1, <1>2, SemAssumption DEF Init, SemInit, TaskInit, WakeType
<1>4. WakeInv
  BY SemAssumption DEF Init, SemInit, WakeInv, Owed
<1> QED BY <1>3, <1>4

\* Interrupts: a post to a semaphore that owes something leaves its record
\* pending, and any other change of a count leaves nothing owed.
LEMMA WakeIsr == WakeType /\ WakeInv /\ Isr => WakeType' /\ WakeInv'
<1> SUFFICES ASSUME WakeType, WakeInv, Isr PROVE WakeType' /\ WakeInv'
  OBVIOUS
<1> USE DEF schedVars, sleepVars, handlerVars, localVars, taskVars, stackVars, postVars
<1>0. UNCHANGED <<num_waiters, record, hpc, todo, current, sem, waiters, pushing,
                  last_wake>>
  BY DEF Isr
<1>push. ASSUME NEW r \in Records, IsrSyscall(r)
         PROVE  /\ pending_syscalls' \in Seq(Records) /\ pend'
                /\ Contains(pending_syscalls', r)
                /\ \A s \in Sems : PostComing(s) => PostComing(s)'
  BY <1>0, <1>push, ContainsPush DEF IsrSyscall, PostComing, WakeType
<1>1. CASE rt_tick_advance
  <2>1. UNCHANGED <<value, post_pending, post_n>>
    BY <1>1 DEF rt_tick_advance
  <2>2. /\ pending_syscalls' \in Seq(Records)
        /\ \A s \in Sems : PostComing(s) => PostComing(s)'
    <3>1. CASE tick_pending
      BY <3>1, <1>1, <1>0 DEF rt_tick_advance, PostComing, WakeType
    <3>2. CASE ~tick_pending
      BY <3>2, <1>1, <1>push DEF rt_tick_advance, Records
    <3> QED BY <3>1, <3>2
  <2>3. WakeType'
    BY <2>1, <2>2, <1>0 DEF WakeType
  <2>4. WakeInv'
    BY <2>1, <2>2, <1>0 DEF WakeInv, Owed, Evaluating
  <2> QED BY <2>3, <2>4
<1>2. ASSUME NEW s \in Sems, isr_sem_trywait(s) PROVE WakeType' /\ WakeInv'
  <2>1. /\ UNCHANGED <<post_pending, post_n, pending_syscalls, pend>>
        /\ value[s] > 0 /\ value' = [value EXCEPT ![s] = @ - 1]
    BY <1>2 DEF isr_sem_trywait, CanTake
  <2>2. WakeType'
    BY <2>1, <1>0 DEF WakeType
  <2>3. \A x \in Sems : Owed(x)' = Owed(x)
    BY <2>1 DEF WakeType, Owed
  <2>4. WakeInv'
    BY <2>1, <2>3, <1>0 DEF WakeInv, Evaluating, PostComing
  <2> QED BY <2>2, <2>4
<1>3. ASSUME NEW s \in Sems, NEW n \in IsrPostCounts, isr_sem_post_n(s, n)
      PROVE  WakeType' /\ WakeInv'
  <2>n. n \in Nat /\ SemMax[s] \in Nat /\ value[s] \in Int
    BY CallAssumption, SemAssumption DEF WakeType
  <2>1. CASE value[s] < 0 /\ ~post_pending[s]
    <3>1. /\ post_pending' = [post_pending EXCEPT ![s] = TRUE]
          /\ post_n' = [post_n EXCEPT ![s] = n]
          /\ IsrSyscall(s) /\ UNCHANGED value
      BY <1>3, <2>1 DEF isr_sem_post_n, sem_post_syscall, PostRecordInUse
    <3>2. /\ pending_syscalls' \in Seq(Records) /\ PostComing(s)'
          /\ \A x \in Sems : PostComing(x) => PostComing(x)'
      BY <3>1, <1>push DEF Records, PostComing
    <3>3. WakeType'
      BY <3>1, <3>2, <2>n, <1>0, Zenon DEF WakeType
    <3>4. WakeInv'
      BY <3>1, <3>2, <1>0, Zenon DEF WakeInv, WakeType, Owed, Evaluating
    <3> QED BY <3>3, <3>4
  <2>2. CASE ~(value[s] < 0 /\ ~post_pending[s])
    <3>1. /\ UNCHANGED <<post_pending, post_n, pending_syscalls, pend>>
          /\ value' = [value EXCEPT ![s] = new_value(@, n, SemMax[s])]
      BY <1>3, <2>2 DEF isr_sem_post_n, sem_post_syscall, PostRecordInUse,
                        AddDirectly, rt_sem_add_n
    <3>2. WakeType'
      BY <3>1, <2>n, <1>0, NewValueType, Zenon DEF WakeType
    <3>3. \A x \in Sems : Owed(x)' = Owed(x) \/ post_pending[x]
      <4> DEFINE v == new_value(value[s], n, SemMax[s])
      <4>1. v \in Int /\ (value[s] < 0 \/ v >= 0)
        BY <2>n DEF new_value
      <4>2. value' = [value EXCEPT ![s] = v]
        BY <3>1
      <4> HIDE DEF v
      <4>3. value \in [Sems -> Int]
        BY Zenon DEF WakeType
      <4> QED BY <2>2, <2>n, <4>1, <4>2, <4>3 DEF Owed
    <3>4. \A x \in Sems : PostComing(x)' = PostComing(x)
      BY <3>1, <1>0, Zenon DEF PostComing
    <3>5. WakeInv'
      BY <3>1, <3>3, <3>4, <1>0, Zenon DEF WakeInv, Evaluating
    <3> QED BY <3>2, <3>5
  <2> QED BY <2>1, <2>2
<1> QED BY <1>1, <1>2, <1>3 DEF Isr

\* All that a call does as far as the invariant is concerned.
OwesNoLess ==
  /\ pend => pend'
  /\ value' \in [Sems -> Int]
  /\ \A s \in Sems : Owed(s)' >= Owed(s)
  /\ record' \in [Tasks -> RecordType]
  /\ pushing' \in [Tasks -> Tasks] /\ last_wake' \in [Tasks -> Nat]

\* Tasks: a call changes the count of a semaphore without the handler only by
\* taking a unit, or by a post when nothing is owed.
LEMMA WakeNewCall == WakeType /\ WakeInv /\ NewCall => WakeType' /\ WakeInv'
<1> SUFFICES ASSUME WakeType, WakeInv, NewCall PROVE WakeType' /\ WakeInv'
  OBVIOUS
<1> USE DEF schedVars, handlerVars, localVars, postVars
<1>0. UNCHANGED <<num_waiters, post_pending, post_n, pending_syscalls, hpc,
                  todo, current, sem, waiters>>
  BY DEF NewCall
<1>pend. SUFFICES OwesNoLess
  <2>1. WakeType'
    BY <1>0, <1>pend DEF WakeType, OwesNoLess
  <2>2. \A s \in Sems : Owed(s) \in Nat /\ Owed(s)' \in Nat
    BY <2>1, OwedType, Zenon DEF WakeType, Owed
  <2>3. \A s \in Sems : PostComing(s) => PostComing(s)'
    BY <1>0, <1>pend DEF PostComing, OwesNoLess
  <2>4. ASSUME NEW s \in Sems
        PROVE  /\ num_waiters[s] > Owed(s)' => num_waiters[s] > Owed(s)
               /\ hpc = "wake" /\ sem = s /\ waiters <= Owed(s) => waiters <= Owed(s)'
    <3>1. /\ Owed(s) \in Nat /\ Owed(s)' \in Nat /\ Owed(s)' >= Owed(s)
          /\ num_waiters[s] \in Int /\ (hpc = "wake" /\ sem = s => waiters \in Nat)
      BY <1>pend, <2>2, Zenon DEF WakeType, OwesNoLess
    <3> QED BY <3>1, SMT
  <2>5. \A s \in Sems : Evaluating(s)' = Evaluating(s)
    BY <1>0, Zenon DEF Evaluating
  <2>6. WakeInv'
    BY <1>0, <2>3, <2>4, <2>5, Zenon DEF WakeInv
  <2> QED BY <2>1, <2>6, Zenon
<1>rec. ASSUME NEW t \in Tasks, NEW syscall \in Syscalls, NEW s \in Sems \cup {Null},
               NEW n \in Nat, NEW last \in 0..TickMod-1, NEW wake,
               SleepSyscall(t, Record(syscall, s, n, last), wake)
        PROVE  record' \in [Tasks -> RecordType] /\ pushing' \in [Tasks -> Tasks]
  <2>1. Record(syscall, s, n, last) \in RecordType
    BY <1>rec DEF Record, RecordType
  <2> QED BY <2>1, <1>rec DEF SleepSyscall, WakeType
<1>ret. ASSUME Return
        PROVE  record' \in [Tasks -> RecordType] /\ pushing' \in [Tasks -> Tasks]
  BY <1>ret DEF Return, WakeType
<1>last. ASSUME UNCHANGED last_wake PROVE last_wake' \in [Tasks -> Nat]
  BY <1>last DEF WakeType
<1>same. ASSUME UNCHANGED value
         PROVE  value' \in [Sems -> Int] /\ \A s \in Sems : Owed(s)' >= Owed(s)
  BY <1>same DEF WakeType, Owed
<1>take. ASSUME NEW s \in Sems, TakeUnit(s)
         PROVE  value' \in [Sems -> Int] /\ \A x \in Sems : Owed(x)' >= Owed(x)
  <2>1. value \in [Sems -> Int]
    BY Zenon DEF WakeType
  <2> QED BY <1>take, <2>1 DEF TakeUnit, Owed
<1>arg. /\ 0 \in 0..TickMod-1 /\ Timeouts \subseteq Nat
        /\ SleepTicks \subseteq Nat /\ Periods \subseteq Nat
        /\ PostCounts \subseteq Nat
  BY TickAssumption, CallAssumption
<1>1. ASSUME NEW t \in Tasks, rt_task_yield(t) PROVE OwesNoLess
  BY <1>1, <1>ret, <1>same, <1>last DEF rt_task_yield, OwesNoLess
<1>2. ASSUME NEW t \in Tasks, rt_task_exit(t) PROVE OwesNoLess
  BY <1>2, <1>rec, <1>same, <1>last, <1>arg, Zenon
  DEF rt_task_exit, Syscall, Syscalls, OwesNoLess
<1>3. ASSUME NEW t \in Tasks, NEW n \in SleepTicks, rt_sleep(t, n)
      PROVE  OwesNoLess
  BY <1>3, <1>rec, <1>same, <1>last, <1>arg, Zenon DEF rt_sleep, Syscalls, OwesNoLess
<1>4. ASSUME NEW t \in Tasks, NEW n \in Periods, rt_sleep_periodic(t, n)
      PROVE  OwesNoLess
  <2>1. last_wake[t] % TickMod \in 0..TickMod-1
    BY TickAssumption DEF WakeType
  <2>2. n \in Nat /\ last_wake' = [last_wake EXCEPT ![t] = @ + n]
    BY <1>4, <1>arg DEF rt_sleep_periodic
  <2>3. last_wake' \in [Tasks -> Nat]
    BY <2>2 DEF WakeType
  <2> QED BY <2>1, <2>2, <2>3, <1>4, <1>rec, <1>same, Zenon
          DEF rt_sleep_periodic, Syscalls, OwesNoLess
<1>5. ASSUME NEW t \in Tasks, NEW s \in Sems, rt_sem_wait(t, s)
      PROVE  OwesNoLess
  BY <1>5, <1>rec, <1>ret, <1>last, <1>take, <1>arg, Zenon
  DEF rt_sem_wait, Syscall, Syscalls, OwesNoLess
<1>6. ASSUME NEW t \in Tasks, NEW s \in Sems, rt_sem_trywait(t, s)
      PROVE  OwesNoLess
  BY <1>6, <1>ret, <1>last, <1>take, Zenon DEF rt_sem_trywait, OwesNoLess
<1>7. ASSUME NEW t \in Tasks, NEW s \in Sems, NEW n \in Timeouts,
             rt_sem_timedwait(t, s, n)
      PROVE  OwesNoLess
  BY <1>7, <1>rec, <1>ret, <1>last, <1>take, <1>arg, Zenon
  DEF rt_sem_timedwait, Syscalls, OwesNoLess
<1>8. ASSUME NEW t \in Tasks, NEW s \in Sems, NEW n \in PostCounts,
             rt_sem_post_n(t, s, n)
      PROVE  OwesNoLess
  <2>1. CASE value[s] < 0
    BY <2>1, <1>8, <1>rec, <1>same, <1>last, <1>arg, Zenon
    DEF rt_sem_post_n, Syscall, Syscalls, OwesNoLess
  <2>2. CASE ~(value[s] < 0)
    <3>1. n \in Nat /\ SemMax[s] \in Nat /\ value[s] \in Int
      BY <1>arg, SemAssumption DEF WakeType
    <3>2. /\ value' = [value EXCEPT ![s] = new_value(@, n, SemMax[s])]
          /\ Return /\ UNCHANGED <<pend, last_wake>>
      BY <2>2, <1>8 DEF rt_sem_post_n, rt_sem_add_n
    <3>3. value' \in [Sems -> Int] /\ \A x \in Sems : Owed(x)' >= Owed(x)
      <4> DEFINE v == new_value(value[s], n, SemMax[s])
      <4>1. v \in Int /\ v >= 0
        BY <2>2, <3>1 DEF new_value
      <4>2. value' = [value EXCEPT ![s] = v]
        BY <3>2, Zenon
      <4> HIDE DEF v
      <4>3. value \in [Sems -> Int]
        BY Zenon DEF WakeType
      <4> QED BY <2>2, <3>1, <4>1, <4>2, <4>3 DEF Owed
    <3> QED BY <3>2, <3>3, <1>ret, <1>last, Zenon DEF OwesNoLess
  <2> QED BY <2>1, <2>2
<1>9. ASSUME NEW t \in Tasks, NEW u \in Tasks, rt_task_init(t, u)
      PROVE  OwesNoLess
  <2>1. Record("TASK_READY", Null, 0, 0) \in RecordType
    BY TickAssumption DEF Record, RecordType, Syscalls
  <2> QED BY <2>1, <1>9, <1>same, <1>last, Zenon DEF rt_task_init, WakeType, OwesNoLess
<1> QED BY <1>1, <1>2, <1>3, <1>4, <1>5, <1>6, <1>7, <1>8, <1>9, Zenon DEF NewCall

\* The steps of a task in the middle of a call keep it,
LEMMA WakeContinue == WakeType /\ WakeInv /\ Continue => WakeType' /\ WakeInv'
<1> SUFFICES ASSUME WakeType, WakeInv, Continue PROVE WakeType' /\ WakeInv'
  OBVIOUS
<1> USE DEF semVars, handlerVars, localVars, postVars
<1>0. UNCHANGED <<value, num_waiters, post_pending, post_n, record, hpc, todo,
                  current, sem, waiters, pushing, last_wake>>
  BY DEF Continue
<1>1. /\ pending_syscalls' \in Seq(Records)
      /\ \A s \in Sems : PostComing(s) => PostComing(s)'
  <2>1. ASSUME NEW t \in Tasks, rt_syscall(t) PROVE <1>1
    <3>1. pushing[t] \in Records
      BY DEF WakeType, Records
    <3>2. /\ pending_syscalls \in Seq(Records) /\ pend' = pend
          /\ pending_syscalls' = <<pushing[t]>> \o pending_syscalls
      BY <2>1, Zenon DEF rt_syscall, WakeType
    <3> QED BY <3>1, <3>2, <1>0, ContainsPush, Zenon DEF PostComing
  <2>2. ASSUME NEW t \in Tasks, rt_syscall_pend(t) PROVE <1>1
    BY <2>2, <1>0 DEF rt_syscall_pend, WakeType, PostComing
  <2> QED BY <2>1, <2>2, Zenon DEF Continue
<1>2. WakeType'
  BY <1>0, <1>1, Zenon DEF WakeType
<1>3. WakeInv'
  BY <1>0, <1>1 DEF WakeInv, Owed, Evaluating
<1> QED BY <1>2, <1>3

\* The steps of the handler that leave counts, waiters and flags alone.
LEMMA WakeQuiet ==
  ASSUME WakeType, WakeInv,
         UNCHANGED <<value, num_waiters, post_pending, post_n, pushing, last_wake>>,
         record' \in [Tasks -> RecordType],
         hpc' # "take", hpc' = "idle" => todo' = <<>>,
         pending_syscalls' \in Seq(Records), todo' \in Seq(Records),
         \A s \in Sems : PostComing(s) => PostComing(s)',
         \A s \in Sems : ~Evaluating(s) /\ ~Evaluating(s)',
         hpc' # "post"
  PROVE  WakeType' /\ WakeInv'
<1>1. WakeType'
  BY Zenon DEF WakeType, Evaluating
<1>2. WakeInv'
  BY Zenon DEF WakeInv, Owed, Evaluating
<1> QED BY <1>1, <1>2, Zenon

\* Taking a record from those the handler has still to look at.
LEMMA DispatchFacts ==
  ASSUME WakeType, NEW syscall, Dispatch(syscall)
  PROVE  /\ hpc = "next" /\ todo # <<>>
         /\ Head(todo) \in Records /\ todo' \in Seq(Records)
         /\ syscall # "SEM_POST" => Head(todo) \notin Sems
         /\ syscall # "TICK" => Head(todo) \in Tasks \cup Sems
         /\ \A s : Contains(todo, s) <=> s = Head(todo) \/ Contains(todo', s)
<1>1. hpc = "next" /\ todo # <<>> /\ todo' = Tail(todo) /\ todo \in Seq(Records)
  BY DEF Dispatch, WakeType
<1>2. \A s : Contains(todo, s) <=> s = Head(todo) \/ Contains(Tail(todo), s)
  BY <1>1, ContainsTail
<1>3. Head(todo) \in Records /\ Tail(todo) \in Seq(Records)
  BY <1>1
<1>4. SyscallOf(Head(todo)) = syscall
  BY DEF Dispatch
<1> QED BY <1>1, <1>2, <1>3, <1>4, TasksAssumption, Zenon DEF SyscallOf, Records

\* A waiter joins, or the handler reaches wake_sem_waiters in another way: what
\* wake_sem_waiters reads from the count is what is owed.
LEMMA WakeEvaluate ==
  ASSUME WakeType, WakeInv, NEW s, EvaluateWakes(s),
         UNCHANGED <<value, post_pending, post_n, record, pushing, last_wake,
                     pending_syscalls, pend>>,
         num_waiters' \in [Sems -> Int],
         \A x \in Sems \ {s} : num_waiters'[x] = num_waiters[x] /\ ~Evaluating(x),
         todo' \in Seq(Records),
         \A x \in Sems : Contains(todo, x) => Contains(todo', x),
         hpc # "take"
  PROVE  WakeType' /\ WakeInv'
<1>1. hpc' = "wake" /\ sem' = s /\ waiters' = IF value[s] < 0 THEN -value[s] ELSE 0
  BY Zenon DEF EvaluateWakes
<1>2. \A x \in Sems : PostComing(x) => PostComing(x)'
  BY <1>1, Zenon DEF PostComing
<1>3. \A x \in Sems : Owed(x)' = Owed(x)
  BY Zenon DEF Owed
<1>4. s \in Sems => waiters' = Owed(s) /\ waiters' \in Nat
  <2>1. s \in Sems => value[s] \in Int
    BY Zenon DEF WakeType
  <2> QED BY <1>1, <2>1, SMT DEF Owed
<1>5. WakeType'
  BY <1>1, <1>4, Zenon DEF WakeType
<1>6. ASSUME NEW x \in Sems
      PROVE  /\ post_pending'[x] => PostComing(x)'
             /\ num_waiters'[x] > Owed(x)' => post_pending'[x] \/ Evaluating(x)'
             /\ sem' = x => waiters' <= Owed(x)'
  <2>1. post_pending'[x] => PostComing(x)'
    BY <1>2, Zenon DEF WakeInv
  <2>2. CASE x = s
    <3>1. Evaluating(x)'
      BY <1>1, <2>2, Zenon DEF Evaluating
    <3>2. waiters' = Owed(x)' /\ waiters' \in Nat
      BY <1>3, <1>4, <2>2, Zenon
    <3>3. waiters' <= Owed(x)'
      BY <3>2, SMT
    <3> QED BY <2>1, <3>1, <3>3, Zenon
  <2>3. CASE x # s
    <3>1. num_waiters'[x] = num_waiters[x] /\ ~Evaluating(x) /\ sem' # x
      BY <1>1, <2>3, Zenon
    <3>2. num_waiters'[x] > Owed(x)' => post_pending'[x]
      BY <1>3, <3>1, Zenon DEF WakeInv
    <3> QED BY <2>1, <3>1, <3>2, Zenon
  <2> QED BY <2>2, <2>3, Zenon
<1>7. WakeInv'
  BY <1>1, <1>6, Zenon DEF WakeInv
<1> QED BY <1>5, <1>7, Zenon

\* An update outside the domain of a function changes nothing.
LEMMA ExceptOutside ==
  ASSUME NEW S, NEW T, NEW f \in [S -> T], NEW s, s \notin S, NEW e
  PROVE  [f EXCEPT ![s] = e] = f
  BY Zenon

\* those of the system call handler
LEMMA WakeHandler == WakeType /\ WakeInv /\ Handler => WakeType' /\ WakeInv'
<1> SUFFICES ASSUME WakeType, WakeInv, Handler PROVE WakeType' /\ WakeInv'
  OBVIOUS
<1> USE DEF schedVars, sleepVars, semVars, stackVars, localVars, handlerVars,
            taskVars, dataVars, sharedVars
<1>0. UNCHANGED <<post_n, pushing, last_wake>>
  BY DEF Handler
<1>1. CASE rt_syscall_handler
  <2>1. /\ UNCHANGED <<value, num_waiters, post_pending, record, todo,
                       pending_syscalls, sem, waiters>>
        /\ hpc = "idle" /\ hpc' = "take"
    BY <1>1 DEF rt_syscall_handler
  <2>2. WakeType'
    BY <2>1, <1>0, Zenon DEF WakeType
  <2>3. WakeInv'
    BY <2>1, Zenon DEF WakeInv, PostComing, Evaluating, Owed
  <2> QED BY <2>2, <2>3
<1>2. CASE rt_syscall_run
  <2>1. /\ UNCHANGED <<value, num_waiters, post_pending, record, sem, waiters>>
        /\ hpc = "take" /\ hpc' = "next"
        /\ todo' = pending_syscalls /\ pending_syscalls' = <<>>
    BY <1>2, Zenon DEF rt_syscall_run
  <2>2. \A s \in Sems : PostComing(s) => PostComing(s)'
    <3>1. \A s \in Sems : ~Contains(todo, s)
      BY <2>1, ContainsEmpty, Zenon DEF WakeInv
    <3> QED BY <2>1, <3>1, Zenon DEF PostComing
  <2> QED BY <2>1, <2>2, <1>0, WakeQuiet DEF WakeType, Evaluating
<1>3. ASSUME NEW syscall \in {"SLEEP", "SLEEP_PERIODIC", "EXIT", "TASK_READY", "TICK"},
             Dispatch(syscall), hpc' \in {"next", "tick"},
             UNCHANGED <<semVars, record, stackVars, post_pending>>
      PROVE  WakeType' /\ WakeInv'
  <2>1. \A s \in Sems : PostComing(s) => PostComing(s)'
    BY <1>3, DispatchFacts DEF PostComing
  <2> QED BY <2>1, <1>0, <1>3, DispatchFacts, WakeQuiet, Zenon DEF WakeType, Evaluating
<1>4. ASSUME syscall_sleep \/ syscall_sleep_periodic \/ syscall_exit
               \/ syscall_task_ready \/ syscall_tick
      PROVE  WakeType' /\ WakeInv'
  <2>1. CASE syscall_sleep
    BY <2>1, <1>3, DispatchFacts, ZenonT(40) DEF syscall_sleep
  <2>2. CASE syscall_sleep_periodic
    BY <2>2, <1>3, DispatchFacts, Zenon DEF syscall_sleep_periodic
  <2>3. CASE syscall_exit
    BY <2>3, <1>3, DispatchFacts, Zenon DEF syscall_exit
  <2>4. CASE syscall_task_ready
    BY <2>4, <1>3, DispatchFacts, Zenon DEF syscall_task_ready
  <2>5. CASE syscall_tick
    BY <2>5, <1>3, Zenon DEF syscall_tick
  <2> QED BY <1>4, <2>1, <2>2, <2>3, <2>4, <2>5, Zenon
<1>5. ASSUME NEW syscall \in {"SEM_WAIT", "SEM_TIMEDWAIT"}, Dispatch(syscall),
             NEW t, NEW s, JoinWaiters(t, s), EvaluateWakes(s),
             UNCHANGED <<value, record, sharedVars>>
      PROVE  WakeType' /\ WakeInv'
  <2>1. num_waiters' = [num_waiters EXCEPT ![s] = @ + 1]
    BY <1>5 DEF JoinWaiters
  <2>2. /\ num_waiters' \in [Sems -> Int]
        /\ \A x \in Sems \ {s} : num_waiters'[x] = num_waiters[x]
    <3>1. CASE s \in Sems
      BY <3>1, <2>1 DEF WakeType
    <3>2. CASE s \notin Sems
      BY <3>2, <2>1, ExceptOutside, ZenonT(40) DEF WakeType
    <3> QED BY <3>1, <3>2
  <2>3. /\ hpc = "next" /\ todo' \in Seq(Records)
        /\ \A x \in Sems : Contains(todo, x) => Contains(todo', x)
    BY <1>5, DispatchFacts
  <2>4. \A x \in Sems \ {s} : ~Evaluating(x)
    BY <2>3 DEF Evaluating
  <2>5. UNCHANGED <<value, post_pending, post_n, record, pushing, last_wake,
                    pending_syscalls, pend>>
    BY <1>0, <1>5
  <2> QED BY <2>2, <2>3, <2>4, <2>5, <1>5, WakeEvaluate, Zenon
<1>6. CASE syscall_sem_wait
  BY <1>6, <1>5, Zenon DEF syscall_sem_wait
<1>7. CASE syscall_sem_timedwait
  BY <1>7, <1>5, Zenon DEF syscall_sem_timedwait
<1>8. CASE syscall_sem_post
  <2>1. /\ Dispatch("SEM_POST")
        /\ post_pending' = [s \in Sems |-> post_pending[s] /\ s # Head(todo)]
        /\ sem' = SemOf(Head(todo)) /\ current' = Head(todo) /\ hpc' = "post"
        /\ UNCHANGED <<value, num_waiters, record, pending_syscalls, pend>>
    BY <1>8 DEF syscall_sem_post, Dispatch
  <2>2. /\ hpc = "next" /\ Head(todo) \in Tasks \cup Sems /\ todo' \in Seq(Records)
        /\ \A x \in Sems : Contains(todo, x) <=> x = Head(todo) \/ Contains(todo', x)
    BY <2>1, DispatchFacts
  <2>3. WakeType'
    BY <2>1, <2>2, <1>0, Zenon DEF WakeType
  <2>4. \A s \in Sems : PostComing(s) /\ s # Head(todo) => PostComing(s)'
    BY <2>1, <2>2 DEF PostComing
  <2>5. \A s \in Sems : s = Head(todo) => Evaluating(s)'
    BY <2>1 DEF Evaluating, SemOf
  <2>6. WakeInv'
    BY <2>1, <2>2, <2>4, <2>5, Zenon DEF WakeInv, WakeType, Owed, Evaluating
  <2> QED BY <2>3, <2>6
<1>9. CASE syscall_sem_post_add
  <2>1. /\ value' = [value EXCEPT ![sem] = new_value(@, PostCount(current), SemMax[sem])]
        /\ hpc = "post" /\ hpc' = "load"
        /\ UNCHANGED <<num_waiters, record, post_pending, pending_syscalls,
                       pend, todo, sem>>
    BY <1>9, Zenon DEF syscall_sem_post_add, rt_sem_add_n
  <2>2. PostCount(current) \in Nat
    BY <2>1, TasksAssumption, Zenon DEF WakeType, PostCount, RecordType
  <2>3. /\ value' \in [Sems -> Int]
        /\ \A s \in Sems \ {sem} : value'[s] = value[s]
    <3>1. CASE sem \in Sems
      BY <3>1, <2>1, <2>2, NewValueType, SemAssumption, Zenon DEF WakeType
    <3>2. CASE sem \notin Sems
      BY <3>2, <2>1, ExceptOutside, ZenonT(40) DEF WakeType
    <3> QED BY <3>1, <3>2
  <2>4. WakeType'
    BY <2>1, <2>3, <1>0 DEF WakeType
  <2>5. \A s \in Sems : PostComing(s)' = PostComing(s)
    BY <2>1, Zenon DEF PostComing
  <2>6. \A s \in Sems \ {sem} : Owed(s)' = Owed(s)
    BY <2>3, Zenon DEF Owed
  <2>7. /\ hpc' \notin {"idle", "take", "wake"}
        /\ \A s \in Sems : Evaluating(s)' <=> s = sem
        /\ \A s \in Sems : Evaluating(s) => s = sem
    BY <2>1, Zenon DEF Evaluating
  <2>8. ASSUME NEW s \in Sems
        PROVE  num_waiters'[s] > Owed(s)' => post_pending'[s] \/ Evaluating(s)'
    <3>1. CASE s = sem
      BY <3>1, <2>7, Zenon
    <3>2. CASE s # sem
      BY <3>2, <2>1, <2>6, <2>7, Zenon DEF WakeInv
    <3> QED BY <3>1, <3>2, Zenon
  <2>9. \A s \in Sems : post_pending'[s] => PostComing(s)'
    BY <2>1, <2>5, Zenon DEF WakeInv
  <2>10. WakeInv'
    BY <2>7, <2>8, <2>9, Zenon DEF WakeInv
  <2> QED BY <2>4, <2>10
<1>10. CASE syscall_sem_post_load
  <2>1. /\ hpc = "load" /\ EvaluateWakes(sem)
        /\ UNCHANGED <<value, num_waiters, record, post_pending,
                       pending_syscalls, pend, todo>>
    BY <1>10 DEF syscall_sem_post_load
  <2>2. \A x \in Sems \ {sem} : ~Evaluating(x)
    BY Zenon DEF Evaluating
  <2> QED BY <2>1, <2>2, <1>0, WakeEvaluate, Zenon DEF WakeType
<1>11. CASE wake_sem_waiters
  <2>1. /\ num_waiters' = [num_waiters EXCEPT ![sem] = @ - 1]
        /\ UNCHANGED <<value, record, post_pending, pending_syscalls, pend,
                       todo, hpc, current, sem, waiters>>
    BY <1>11 DEF wake_sem_waiters
  <2>2. /\ num_waiters' \in [Sems -> Int]
        /\ \A s \in Sems : num_waiters'[s] <= num_waiters[s]
    <3>0. num_waiters \in [Sems -> Int]
      BY Zenon DEF WakeType
    <3>1. CASE sem \in Sems
      BY <3>0, <3>1, <2>1
    <3>2. CASE sem \notin Sems
      <4>1. num_waiters' = num_waiters
        BY <3>0, <3>2, <2>1, ExceptOutside
      <4> QED BY <3>0, <4>1
    <3> QED BY <3>1, <3>2, Zenon
  <2>3. WakeType'
    BY <2>1, <2>2, <1>0, Zenon DEF WakeType
  <2>4. \A s \in Sems : /\ Owed(s)' = Owed(s) /\ PostComing(s)' = PostComing(s)
                        /\ Evaluating(s)' = Evaluating(s)
    BY <2>1, Zenon DEF Owed, PostComing, Evaluating
  <2>5. ASSUME NEW s \in Sems, num_waiters'[s] > Owed(s)
        PROVE  num_waiters[s] > Owed(s)
    <3>1. /\ num_waiters[s] \in Int /\ num_waiters'[s] \in Int /\ Owed(s) \in Nat
          /\ num_waiters'[s] <= num_waiters[s]
      BY <2>2, OwedType, Zenon DEF WakeType, Owed
    <3> QED BY <2>5, <3>1, SMT
  <2>6. WakeInv'
    BY <2>1, <2>4, <2>5, Zenon DEF WakeInv
  <2> QED BY <2>3, <2>6, Zenon
<1>12. CASE wake_sem_waiters_end
  <2>1. /\ hpc = "wake" /\ hpc' \in {"timedout", "next"}
        /\ num_waiters[sem] <= waiters
        /\ UNCHANGED <<value, num_waiters, record, post_pending,
                       pending_syscalls, pend, todo, sem>>
    BY <1>12, Zenon DEF wake_sem_waiters_end
  <2>2. WakeType'
    BY <2>1, <1>0, Zenon DEF WakeType
  <2>3. \A s \in Sems : /\ Owed(s)' = Owed(s) /\ Owed(s) \in Int
                        /\ PostComing(s) => PostComing(s)'
    BY <2>1 DEF Owed, PostComing, WakeType
  <2>4. ASSUME NEW s \in Sems, num_waiters[s] > Owed(s) PROVE post_pending[s]
    <3>1. CASE sem = s
      <4>1. /\ num_waiters[s] \in Int /\ Owed(s) \in Int /\ waiters \in Nat
            /\ num_waiters[s] <= waiters
            /\ waiters <= Owed(s) \/ post_pending[s]
        BY <2>1, <2>3, <3>1, Zenon DEF WakeInv, WakeType
      <4> QED BY <2>4, <4>1, SMT
    <3>2. CASE sem # s
      BY <2>4, <3>2, Zenon DEF WakeInv, Evaluating
    <3> QED BY <3>1, <3>2, Zenon
  <2>5. WakeInv'
    BY <2>1, <2>3, <2>4, Zenon DEF WakeInv
  <2> QED BY <2>2, <2>5
<1>13. ASSUME hpc \in {"tick", "expire", "timedout"},
              hpc' \in {"expire", "next"},
              UNCHANGED <<value, num_waiters, todo, sharedVars>>,
              record' \in [Tasks -> RecordType]
       PROVE  WakeType' /\ WakeInv'
  <2>1. \A s \in Sems : PostComing(s) => PostComing(s)'
    BY <1>13, Zenon DEF PostComing
  <2> QED BY <2>1, <1>0, <1>13, WakeQuiet, Zenon DEF WakeType, Evaluating
<1>14. CASE tick_syscall
  BY <1>14, <1>13, Zenon DEF tick_syscall, WakeType
<1>15. CASE tick_syscall_wake
  BY <1>15, <1>13, Zenon DEF tick_syscall_wake, WakeType
<1>16. CASE tick_syscall_timeout
  <2>0. PICK s : s = record[Sleeper].sem
    BY Zenon
  <2>1. /\ value' = [value EXCEPT ![s] = new_value(@, 1, SemMax[s])]
        /\ hpc = "expire" /\ hpc' = "timeout" /\ sem' = s
        /\ UNCHANGED <<num_waiters, record, post_pending, pending_syscalls,
                       pend, todo>>
    BY <2>0, <1>16, Zenon DEF tick_syscall_timeout, GiveBack, rt_sem_add_n
  <2>2. /\ value' \in [Sems -> Int]
        /\ \A x \in Sems \ {s} : value'[x] = value[x]
    <3>1. CASE s \in Sems
      BY <3>1, <2>1, NewValueType, SemAssumption, Zenon DEF WakeType
    <3>2. CASE s \notin Sems
      BY <3>2, <2>1, ExceptOutside, ZenonT(40) DEF WakeType
    <3> QED BY <3>1, <3>2, Zenon
  <2>3. WakeType'
    BY <2>1, <2>2, <1>0, Zenon DEF WakeType
  <2>4. \A x \in Sems : PostComing(x) => PostComing(x)'
    BY <2>1, Zenon DEF PostComing
  <2>5. \A x \in Sems \ {s} : Owed(x)' = Owed(x) /\ ~Evaluating(x)
    BY <2>1, <2>2, Zenon DEF Owed, Evaluating
  <2>6. Evaluating(s)' /\ hpc' \notin {"idle", "take", "wake"}
    BY <2>1, Zenon DEF Evaluating
  <2>7. ASSUME NEW x \in Sems
        PROVE  /\ post_pending'[x] => PostComing(x)'
               /\ num_waiters'[x] > Owed(x)' => post_pending'[x] \/ Evaluating(x)'
    <3>1. post_pending'[x] => PostComing(x)'
      BY <2>1, <2>4, Zenon DEF WakeInv
    <3>2. num_waiters'[x] > Owed(x)' => post_pending'[x] \/ Evaluating(x)'
      <4>1. CASE x = s
        BY <4>1, <2>6, Zenon
      <4>2. CASE x # s
        BY <4>2, <2>1, <2>5, Zenon DEF WakeInv
      <4> QED BY <4>1, <4>2, Zenon
    <3> QED BY <3>1, <3>2, Zenon
  <2>8. WakeInv'
    BY <2>6, <2>7, Zenon DEF WakeInv
  <2> QED BY <2>3, <2>8
<1>17. CASE tick_syscall_leave
  <2>1. /\ hpc = "timeout" /\ EvaluateWakes(sem)
        /\ num_waiters' = [num_waiters EXCEPT ![sem] = @ - 1]
        /\ UNCHANGED <<value, record, post_pending, pending_syscalls, pend, todo>>
    BY <1>17, Zenon DEF tick_syscall_leave
  <2>2. /\ num_waiters' \in [Sems -> Int]
        /\ \A x \in Sems \ {sem} : num_waiters'[x] = num_waiters[x]
    <3>1. CASE sem \in Sems
      BY <3>1, <2>1 DEF WakeType
    <3>2. CASE sem \notin Sems
      BY <3>2, <2>1, ExceptOutside, Zenon DEF WakeType
    <3> QED BY <3>1, <3>2
  <2>3. \A x \in Sems \ {sem} : ~Evaluating(x)
    BY DEF Evaluating
  <2> QED BY <2>1, <2>2, <2>3, <1>0, WakeEvaluate, Zenon DEF WakeType
<1>18. CASE tick_syscall_timedout
  <2>1. record' = [record EXCEPT ![task].sem = Null]
    BY <1>18 DEF tick_syscall_timedout
  <2>2. record' \in [Tasks -> RecordType]
    <3>1. CASE task \in Tasks
      BY <3>1, <2>1, ZenonT(40) DEF WakeType, RecordType
    <3>2. CASE task \notin Tasks
      BY <3>2, <2>1, ExceptOutside, ZenonT(40) DEF WakeType
    <3> QED BY <3>1, <3>2
  <2> QED BY <2>2, <1>18, <1>13 DEF tick_syscall_timedout
<1>19. CASE tick_syscall_end
  BY <1>19, <1>13, Zenon DEF tick_syscall_end, WakeType
<1>20. CASE sched
  <2>1. /\ hpc = "next" /\ hpc' = "idle" /\ todo = <<>>
        /\ UNCHANGED <<value, num_waiters, todo, record, sharedVars>>
    BY <1>20, Zenon DEF sched
  <2>2. \A s \in Sems : PostComing(s) => PostComing(s)'
    BY <2>1 DEF PostComing
  <2> QED BY <2>1, <2>2, <1>0, WakeQuiet, Zenon DEF WakeType, Evaluating
<1> QED BY <1>1, <1>2, <1>4, <1>6, <1>7, <1>8, <1>9, <1>10, <1>11, <1>12, <1>14,
           <1>15, <1>16, <1>17, <1>18, <1>19, <1>20, Zenon DEF Handler

\* and so every step of the kernel.
LEMMA WakeStep == WakeType /\ WakeInv /\ [Next]_vars => WakeType' /\ WakeInv'
<1> SUFFICES ASSUME WakeType, WakeInv, [Next]_vars PROVE WakeType' /\ WakeInv'
  BY Zenon
<1>1. CASE UNCHANGED vars
  BY <1>1, Zenon DEF vars, schedVars, sleepVars, semVars, postVars, stackVars, localVars,
              handlerVars, taskVars, WakeType, WakeInv, Owed, Evaluating, PostComing
<1> QED BY <1>1, WakeIsr, WakeNewCall, WakeContinue, WakeHandler, Zenon DEF Next

\* No task is left waiting for a semaphore that has a unit for it.
THEOREM NoWaiterLeftBehindHolds == Spec => []NoWaiterLeftBehind
<1>1. WakeType /\ WakeInv => NoWaiterLeftBehind
  <2> SUFFICES ASSUME WakeType, WakeInv, TaskLevel, NEW s \in Sems,
                      num_waiters[s] > 0
               PROVE  value[s] <= -num_waiters[s]
    BY Zenon DEF NoWaiterLeftBehind
  <2>1. ~PostComing(s) /\ ~Evaluating(s)
    BY ContainsEmpty, Zenon DEF TaskLevel, WakeInv, PostComing, Evaluating
  <2>2. num_waiters[s] <= Owed(s)
    BY <2>1 DEF WakeInv, WakeType, Owed
  <2>3. value[s] \in Int /\ num_waiters[s] \in Int
    BY Zenon DEF WakeType
  <2> QED BY <2>2, <2>3, SMT DEF Owed
<1>2. Spec => [](WakeType /\ WakeInv)
  BY WakeInit, WakeStep, PTL DEF Spec
<1> QED BY <1>1, <1>2, PTL

=============================================================================
