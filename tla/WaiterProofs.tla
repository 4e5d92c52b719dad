---------------------------- MODULE WaiterProofs ----------------------------
(***************************************************************************)
(* Proofs about the tasks that do not run: what keeps them from being      *)
(* forgotten, and how the counts of the semaphores account for them.       *)
(***************************************************************************)
EXTENDS SchedulerProofs, FiniteSetTheorems

\* The time limits of the provers include the time it takes to prepare an obligation,
\* which grows with the definitions and lemmas in scope.
USE ZenonT(40)

-----------------------------------------------------------------------------
(* No task is forgotten, but for one that was reawakened.                  *)

\* A task that could run, if the scheduler knew of it.
Lost(t) ==
  /\ t # active /\ Runnable(t) /\ ~Contains(ready_list, t)
  /\ pc[t] # "new" /\ record[t].syscall # "TASK_READY"

\* Since the lists match the states, these are the tasks that are not schedulable.
LEMMA LostIsUnschedulable ==
  ASSUME SchedulerInv, NEW t \in Tasks
  PROVE  Schedulable(t) <=> ~Lost(t)
<1>0. /\ state[t] \in TaskStates /\ WaitInv /\ HandlerInv /\ SleepListInv /\ WaitListInv
  BY DEF SchedulerInv, TypeOK, AllTasks
<1>1. state[t] \in {"ASLEEP", "BLOCKED_TIMEOUT"} <=> Contains(sleep_list, t)
  BY <1>0 DEF SleepListInv
<1>2. ASSUME NEW s \in Sems, Contains(wait_list[s], t)
      PROVE  state[t] \in {"BLOCKED", "BLOCKED_TIMEOUT"}
  BY <1>0, <1>2 DEF WaitListInv
<1>3. ASSUME state[t] = "BLOCKED"
      PROVE  \E s \in Sems : Contains(wait_list[s], t)
  <2>1. record[t].sem \in Sems /\ ~Leaving(t)
    BY <1>0, <1>3, TasksAssumption DEF WaitInv, HandlerInv, Leaving
  <2> QED BY <1>0, <1>3, <2>1 DEF WaitListInv
<1>4. \/ Runnable(t) \/ state[t] = "BLOCKED" \/ state[t] = "EXITED"
      \/ state[t] \in {"ASLEEP", "BLOCKED_TIMEOUT"}
  BY <1>0 DEF TaskStates, Runnable
<1>5. Runnable(t) => state[t] \notin {"ASLEEP", "BLOCKED_TIMEOUT", "BLOCKED", "EXITED"}
  BY DEF Runnable
<1> QED BY <1>1, <1>2, <1>3, <1>4, <1>5 DEF Schedulable, Lost

\* What a step must do to lose a task.
LEMMA NotLost ==
  ASSUME active' = active,
         \A x \in Tasks : Contains(ready_list, x) => Contains(ready_list', x),
         \A x \in Tasks : Runnable(x)' => Runnable(x) \/ Contains(ready_list', x),
         \A x \in Tasks : record'[x].syscall = "TASK_READY" \/
           (/\ pc[x] = "new" => pc'[x] = "new"
            /\ record'[x].syscall = record[x].syscall \/ x = active)
  PROVE  \A x \in Tasks : Lost(x)' => Lost(x)
  BY DEF Lost

\* Steps that leave the scheduler's variables and the records alone.
LEMMA NotLostUntouched ==
  ASSUME UNCHANGED <<active, state, ready_list, record>>,
         \A x \in Tasks : pc[x] = "new" => pc'[x] = "new"
  PROVE  \A x \in Tasks : Lost(x)' => Lost(x)
  BY NotLost DEF Runnable

\* Steps that suspend a task.
LEMMA NotLostSuspended ==
  ASSUME TypeOK, NEW t, NEW st \in {"ASLEEP", "BLOCKED", "BLOCKED_TIMEOUT", "EXITED"},
         state' = [state EXCEPT ![t] = st], UNCHANGED <<active, ready_list, record, pc>>
  PROVE  \A x \in Tasks : Lost(x)' => Lost(x)
<1>1. state \in [AllTasks -> TaskStates]
  BY DEF TypeOK
<1>2. \A x \in Tasks : state'[x] = st \/ state'[x] = state[x]
  BY <1>1 DEF AllTasks
<1>3. \A x \in Tasks : Runnable(x)' => Runnable(x)
  BY <1>2 DEF Runnable
<1> QED BY <1>3, NotLost

\* Steps that make a task ready.
LEMMA NotLostReady ==
  ASSUME SchedulerInv, NEW t \in Tasks, state[t] # "READY", task_ready(t),
         UNCHANGED <<active, pc>>,
         \A x \in Tasks : record'[x].syscall = record[x].syscall
  PROVE  \A x \in Tasks : Lost(x)' => Lost(x)
<1>1. /\ state' = [state EXCEPT ![t] = "READY"]
      /\ \A x : Contains(ready_list', x) <=> x = t \/ Contains(ready_list, x)
  BY MadeReady DEF SchedulerInv
<1>2. state \in [AllTasks -> TaskStates]
  BY DEF SchedulerInv, TypeOK
<1>3. \A x \in Tasks : x # t => state'[x] = state[x]
  BY <1>1, <1>2 DEF AllTasks
<1>4. \A x \in Tasks : Runnable(x)' => Runnable(x) \/ Contains(ready_list', x)
  BY <1>1, <1>3 DEF Runnable
<1> QED BY <1>1, <1>4, NotLost

\* sched loses a task only where it switches away from one that is ready.
LEMMA LostBySched ==
  ASSUME SchedulerInv, sched, UNCHANGED pc, NEW t \in Tasks, ~Lost(t), Lost(t)'
  PROVE  active = t /\ state[t] = "READY"
<1>0. UNCHANGED record
  BY DEF sched
<1>t. active \in AllTasks /\ state \in [AllTasks -> TaskStates] /\ t \in AllTasks
  BY DEF SchedulerInv, TypeOK, AllTasks
<1>1. CASE UNCHANGED <<active, state, ready_list>>
  BY <1>0, <1>1, NotLostUntouched
<1>2. CASE ~Keep /\ active = Head(ready_list) /\ Reawaken
  <2>1. ready_list # <<>> /\ ready_list' = Tail(ready_list) /\ UNCHANGED <<active, state>>
    BY <1>2 DEF Keep, Reawaken
  <2>2. Contains(ready_list, t) /\ t # Head(ready_list) => Contains(ready_list', t)
    BY <2>1, ReadyTasks
  <2> QED BY <1>0, <1>2, <2>1, <2>2 DEF Lost, Runnable
<1>3. CASE ~Keep /\ active # Head(ready_list) /\ Switch(Head(ready_list))
  <2>1. ready_list # <<>> /\ active' = Head(ready_list)
    BY <1>3 DEF Keep, Switch
  <2>2. /\ \A x : Contains(Tail(ready_list), x) <=>
                    x # Head(ready_list) /\ Contains(ready_list, x)
        /\ Tail(ready_list) \in Seq(AllTasks) /\ IsInjective(Tail(ready_list))
        /\ state[Head(ready_list)] = "READY" /\ Head(ready_list) \in AllTasks
        /\ \A x \in AllTasks : Contains(ready_list, x) => state[x] = "READY"
    BY <2>1, ReadyTasks
  <2>3. ~still_running => ready_list' = Tail(ready_list)
    BY <1>3 DEF Switch, Requeue
  <2>4. still_running =>
          \A x : Contains(ready_list', x) <=> x = active \/ Contains(Tail(ready_list), x)
    <3>1. ASSUME still_running PROVE ~Contains(Tail(ready_list), active)
      BY <2>2, <1>t, <3>1 DEF still_running
    <3> QED BY <1>3, <1>t, <2>2, <3>1, PriorityInsert DEF Switch, Requeue
  <2>5. \A x \in AllTasks : x # active /\ x # Head(ready_list) => state'[x] = state[x]
    BY <1>3, <1>t DEF Switch
  <2>6. t # Head(ready_list) /\ ~Contains(ready_list', t) /\ Runnable(t)' /\ pc[t] # "new"
        /\ record[t].syscall # "TASK_READY"
    BY <1>0, <2>1 DEF Lost
  <2>7. CASE t # active
    <3>1. Runnable(t) /\ ~Contains(ready_list, t)
      BY <1>t, <2>2, <2>3, <2>4, <2>5, <2>6, <2>7 DEF Runnable
    <3> QED BY <2>6, <2>7, <3>1 DEF Lost
  <2>8. CASE t = active
    <3>1. ~still_running
      BY <2>4, <2>6, <2>8
    <3>2. state'[t] = state[t]
      BY <1>3, <1>t, <2>2, <2>8, <3>1 DEF Switch
    <3> QED BY <2>6, <2>8, <3>1, <3>2 DEF Runnable, still_running
  <2> QED BY <2>7, <2>8
<1> QED BY <1>1, <1>2, <1>3 DEF sched, schedVars

\* The steps of the handler.
LEMMA LostByHandler ==
  ASSUME SchedulerInv, Handler, NEW t \in Tasks, ~Lost(t), Lost(t)'
  PROVE  active = t /\ state[t] = "READY"
<1>0. UNCHANGED pc /\ TypeOK
  BY DEF Handler, taskVars, SchedulerInv
<1>1. UNCHANGED pc /\ UNCHANGED <<active, state, ready_list, record>> =>
        \A x \in Tasks : Lost(x)' => Lost(x)
  BY NotLostUntouched
<1> USE DEF schedVars, dataVars
<1>2. \/ rt_syscall_handler \/ rt_syscall_run \/ syscall_sem_post \/ syscall_sem_post_add
      \/ syscall_sem_post_load \/ wake_sem_waiters_end \/ syscall_tick \/ tick_syscall
      \/ tick_syscall_timeout \/ tick_syscall_leave \/ tick_syscall_end
      => UNCHANGED <<active, state, ready_list, record>>
  BY DEF rt_syscall_handler, rt_syscall_run, syscall_sem_post, syscall_sem_post_add,
         syscall_sem_post_load, wake_sem_waiters_end, syscall_tick, tick_syscall,
         tick_syscall_timeout, tick_syscall_leave, tick_syscall_end
<1>3. CASE syscall_sleep \/ syscall_exit \/ syscall_sem_wait \/ syscall_sem_timedwait
  <2>1. PICK st \in {"ASLEEP", "BLOCKED", "BLOCKED_TIMEOUT", "EXITED"} :
          state' = [state EXCEPT ![Head(todo)] = st]
    BY <1>3 DEF syscall_sleep, syscall_exit, syscall_sem_wait, syscall_sem_timedwait
  <2>2. UNCHANGED <<active, ready_list, record>>
    BY <1>3 DEF syscall_sleep, syscall_exit, syscall_sem_wait, syscall_sem_timedwait
  <2> QED BY <1>0, <2>1, <2>2, NotLostSuspended
<1>4. CASE syscall_sleep_periodic
  <2>1. UNCHANGED <<active, ready_list, record>>
    BY <1>4 DEF syscall_sleep_periodic
  <2>2. state' = [state EXCEPT ![Head(todo)] = "ASLEEP"] \/ UNCHANGED state
    BY <1>4 DEF syscall_sleep_periodic
  <2> QED BY <1>0, <1>1, <2>1, <2>2, NotLostSuspended
<1>5. CASE syscall_task_ready
  <2>1. Dispatch("TASK_READY") /\ task_ready(Head(todo)) /\ UNCHANGED <<active, record>>
    BY <1>5 DEF syscall_task_ready
  <2>2. /\ Head(todo) \in Tasks /\ OnStack(Head(todo))
        /\ record[Head(todo)].syscall = "TASK_READY"
    BY <2>1, NextRecord, SMTT(40) DEF SchedulerInv
  <2>3. state[Head(todo)] # "READY"
    BY <2>2 DEF SchedulerInv, PhaseInv, InFlight
  <2> QED BY <1>0, <2>1, <2>2, <2>3, NotLostReady
<1>6. CASE wake_sem_waiters
  <2>1. /\ hpc = "wake" /\ num_waiters[sem] > waiters /\ task_ready(Head(wait_list[sem]))
        /\ UNCHANGED <<active, record>>
    BY <1>6 DEF wake_sem_waiters
  <2>2. /\ sem \in Sems /\ wait_list[sem] \in Seq(Tasks) /\ IsInjective(wait_list[sem])
        /\ num_waiters[sem] = Len(wait_list[sem]) /\ waiters \in Nat
    BY <2>1 DEF SchedulerInv, TypeOK, HandlerInv, WaitListInv
  <2>3. Head(wait_list[sem]) \in Tasks /\ Contains(wait_list[sem], Head(wait_list[sem]))
    BY <2>1, <2>2, FrontAndRest, SMTT(40)
  <2>4. state[Head(wait_list[sem])] # "READY"
    BY <2>2, <2>3 DEF SchedulerInv, WaitListInv
  <2> QED BY <1>0, <2>1, <2>3, <2>4, NotLostReady
<1>7. CASE tick_syscall_wake
  <2>1. sleep_list # <<>> /\ task_ready(Sleeper) /\ UNCHANGED <<active, record>>
    BY <1>7 DEF tick_syscall_wake, Expired
  <2>2. Sleeper \in Tasks /\ state[Sleeper] # "READY"
    BY <2>1, FirstSleeper
  <2> QED BY <1>0, <2>1, <2>2, NotLostReady
<1>8. CASE tick_syscall_timedout
  <2>1. /\ hpc = "timedout" /\ task_ready(task) /\ UNCHANGED active
        /\ record' = [record EXCEPT ![task].sem = Null]
    BY <1>8 DEF tick_syscall_timedout
  <2>2. task \in Tasks /\ state[task] # "READY" /\ record \in [Tasks -> RecordType]
    BY <2>1 DEF SchedulerInv, TypeOK, HandlerInv
  <2>3. \A x \in Tasks : record'[x].syscall = record[x].syscall
    BY <2>1, <2>2 DEF RecordType
  <2> QED BY <1>0, <2>1, <2>2, <2>3, NotLostReady
<1>9. CASE sched
  BY <1>0, <1>9, LostBySched
<1> QED BY <1>0, <1>1, <1>2, <1>3, <1>4, <1>5, <1>6, <1>7, <1>8, <1>9 DEF Handler

\* The steps of interrupts and tasks.
LEMMA LostByCall ==
  ASSUME TypeOK, Isr \/ NewCall \/ Continue
  PROVE  \A x \in Tasks : Lost(x)' => Lost(x)
<1>0. /\ UNCHANGED <<active, state, ready_list>>
      /\ pc \in [Tasks -> {"new", "user", "push", "pend"}] /\ record \in [Tasks -> RecordType]
  BY DEF Isr, NewCall, Continue, schedVars, TypeOK
<1>r. \A x \in Tasks : Runnable(x)' => Runnable(x)
  BY <1>0 DEF Runnable
<1>1. CASE Isr
  BY <1>0, <1>1, NotLostUntouched DEF Isr, taskVars
<1>2. CASE Continue
  <2>1. PICK t \in Tasks : pc[t] # "new" /\ \E v \in {"pend", "user"} : pc' = [pc EXCEPT ![t] = v]
    BY <1>2 DEF Continue, rt_syscall, rt_syscall_pend
  <2>2. \A x \in Tasks : pc[x] = "new" => pc'[x] = "new"
    BY <1>0, <2>1
  <2> QED BY <1>0, <1>2, <2>2, NotLostUntouched DEF Continue
<1>3. ASSUME NEW t \in Tasks, NEW u \in Tasks, rt_task_init(t, u)
      PROVE  \A x \in Tasks : Lost(x)' => Lost(x)
  <2>1. /\ active = t /\ pc[t] = "user"
        /\ record' = [record EXCEPT ![u] = Record("TASK_READY", Null, 0, 0)]
        /\ pc' = [pc EXCEPT ![t] = "push", ![u] = "user"]
    BY <1>3 DEF rt_task_init, Call
  <2>2. Record("TASK_READY", Null, 0, 0).syscall = "TASK_READY"
    BY DEF Record
  <2>3. \A x \in Tasks : \/ record'[x].syscall = "TASK_READY"
                         \/ record'[x] = record[x] /\ (pc[x] = "new" => pc'[x] = "new")
    BY <1>0, <2>1, <2>2
  <2> QED BY <1>0, <1>r, <2>3, NotLost
<1>4. ASSUME NEW t \in Tasks, active = t, pc[t] = "user",
             \/ Return
             \/ \E rec, wake : SleepSyscall(t, rec, wake)
      PROVE  \A x \in Tasks : Lost(x)' => Lost(x)
  <2>1. \A x \in Tasks : /\ x = active \/ record'[x] = record[x]
                         /\ pc[x] = "new" => pc'[x] = "new"
    BY <1>0, <1>4 DEF Return, SleepSyscall
  <2> QED BY <1>0, <1>r, <2>1, NotLost
<1>5. CASE NewCall
  <2>1. PICK t \in Tasks : \/ rt_task_yield(t) \/ rt_task_exit(t)
                           \/ \E n \in SleepTicks : rt_sleep(t, n)
                           \/ \E n \in Periods : rt_sleep_periodic(t, n)
                           \/ \E s \in Sems :
                                \/ rt_sem_wait(t, s) \/ rt_sem_trywait(t, s)
                                \/ \E n \in Timeouts : rt_sem_timedwait(t, s, n)
                                \/ \E n \in PostCounts : rt_sem_post_n(t, s, n)
                           \/ \E u \in Tasks \ {t} : rt_task_init(t, u)
    BY <1>5 DEF NewCall
  <2>2. CASE \E u \in Tasks \ {t} : rt_task_init(t, u)
    BY <2>2, <1>3
  <2>3. CASE rt_task_yield(t) \/ rt_task_exit(t)
    BY <2>3, <1>4 DEF rt_task_yield, rt_task_exit, Call, Syscall
  <2>4. CASE \/ \E n \in SleepTicks : rt_sleep(t, n)
             \/ \E n \in Periods : rt_sleep_periodic(t, n)
    BY <2>4, <1>4 DEF rt_sleep, rt_sleep_periodic, Call
  <2>5. CASE \E s \in Sems :
               \/ rt_sem_wait(t, s) \/ rt_sem_trywait(t, s)
               \/ \E n \in Timeouts : rt_sem_timedwait(t, s, n)
               \/ \E n \in PostCounts : rt_sem_post_n(t, s, n)
    BY <2>5, <1>4
       DEF rt_sem_wait, rt_sem_trywait, rt_sem_timedwait, rt_sem_post_n, Call, Syscall
  <2> QED BY <2>1, <2>2, <2>3, <2>4, <2>5
<1> QED BY <1>1, <1>2, <1>5

\* The one way a task is forgotten is a switch away from a task that sched let
\* continue after it had been suspended and reawakened (muntos.c:113-115).
THEOREM ForgottenOnlyIfReawakenedHolds == Spec => ForgottenOnlyIfReawakened
<1> DEFINE Step == \A t \in Tasks : Schedulable(t) /\ ~Schedulable(t)' =>
                                      active = t /\ state[t] = "READY"
           Known == \A t \in Tasks : Schedulable(t) <=> ~Lost(t)
<1>0. SchedulerInv => Known
  BY LostIsUnschedulable
<1>1. ASSUME SchedulerInv, Known, Known', [Next]_vars
      PROVE  [Step]_vars
  <2>1. CASE UNCHANGED vars
    BY <2>1
  <2>2. CASE Next
    <3> SUFFICES ASSUME NEW t \in Tasks, Schedulable(t), ~Schedulable(t)'
                 PROVE  active = t /\ state[t] = "READY"
      OBVIOUS
    <3>1. ~Lost(t) /\ Lost(t)'
      BY <1>1
    <3> QED BY <1>1, <2>2, <3>1, LostByHandler, LostByCall DEF Next, SchedulerInv
  <2> QED BY <1>1, <2>1, <2>2
<1> QED BY <1>0, <1>1, SchedulerInvariant, PTL DEF Spec, ForgottenOnlyIfReawakened

-----------------------------------------------------------------------------
(* The count of a semaphore and the tasks that wait for it.                *)

Blocked(t) == state[t] \in {"BLOCKED", "BLOCKED_TIMEOUT"}

\* The wait that task t has asked for is not over.
StillWaits(t) == record[t].syscall \in Waits /\ (InFlight(t) \/ Blocked(t))

\* The tasks that have taken the count of s below zero and still wait.
Waiting(s) == {t \in Tasks : StillWaits(t) /\ record[t].sem = s}

\* Every unit below zero is owed to a waiting task, and so is the unit that a timed
\* wait has given back as long as it is not over.  wake_sem_waiters leaves at least as
\* many tasks waiting as the count needs, even when it changes in the meantime.
BalanceInv ==
  \A s \in Sems :
    /\ value[s] <= SemMax[s]
    /\ value[s] + Cardinality(Waiting(s)) >= (IF GivenBack(s) THEN 1 ELSE 0)
    /\ hpc = "wake" /\ sem = s => value[s] + waiters >= 0

\* The waiting tasks are counted.
LEMMA WaitingCounted ==
  ASSUME NEW s
  PROVE  /\ IsFiniteSet(Waiting(s)) /\ Cardinality(Waiting(s)) \in Nat
         /\ Waiting(s) # {} => Cardinality(Waiting(s)) > 0
<1>1. IsFiniteSet(Waiting(s))
  BY FS_Subset, TasksAssumption DEF Waiting
<1> QED BY <1>1, FS_CardinalityType, FS_EmptySet, SMTT(40)

\* A timed wait that has given its unit back is one of them.
LEMMA GivenBackWaits ==
  ASSUME SchedulerInv, NEW s \in Sems, GivenBack(s)
  PROVE  task \in Waiting(s)
<1>1. /\ task \in Tasks /\ state[task] = "BLOCKED_TIMEOUT" /\ record[task].sem = s
  BY DEF GivenBack, SchedulerInv, HandlerInv, TypeOK
<1>2. record[task].syscall \in Waits
  BY <1>1 DEF SchedulerInv, WaitInv, Waits
<1> QED BY <1>1, <1>2 DEF Waiting, StillWaits, Blocked

\* A waiting task is one in the sense of NegativeMeansWaiters.
LEMMA WaitingWaits ==
  ASSUME SchedulerInv, NEW s \in Sems, NEW t \in Waiting(s)
  PROVE  t \in Tasks /\ WaitsFor(t, s)
<1>0. t \in Tasks /\ record[t].syscall \in Waits /\ record[t].sem = s /\ PushInv /\ WaitListInv
  BY DEF Waiting, StillWaits, SchedulerInv
<1>1. CASE OnStack(t)
  BY <1>0, <1>1 DEF OnStack, WaitsFor
<1>2. ASSUME NEW y \in Tasks, pc[y] = "push", pushing[y] = t
      PROVE  WaitsFor(t, s)
  <2>1. y = t
    BY <1>0, <1>2 DEF PushInv, Waits
  <2> QED BY <1>0, <1>2, <2>1 DEF WaitsFor
<1>3. CASE Blocked(t)
  BY <1>0, <1>3 DEF WaitListInv, Blocked, WaitsFor
<1> QED BY <1>0, <1>1, <1>2, <1>3 DEF Waiting, StillWaits, InFlight, AboutToPush

\* The tasks on the wait list are waiting, and so is the one whose timed wait is being
\* ended, which is no longer on it.
LEMMA ListedWaiters ==
  ASSUME SchedulerInv, hpc = "wake", sem \in Sems
  PROVE  num_waiters[sem] + (IF GivenBack(sem) THEN 1 ELSE 0) <= Cardinality(Waiting(sem))
<1> DEFINE q == wait_list[sem]
           Others == Waiting(sem) \ {task}
<1>1. q \in Seq(Tasks) /\ IsInjective(q) /\ num_waiters[sem] = Len(q)
  BY DEF SchedulerInv, TypeOK, WaitListInv
<1>2. ASSUME NEW t \in Tasks, Contains(q, t)
      PROVE  t \in Others
  <2>1. state[t] \in {"BLOCKED", "BLOCKED_TIMEOUT"} /\ record[t].sem = sem /\ ~Leaving(t)
    BY <1>2 DEF SchedulerInv, WaitListInv
  <2>2. record[t].syscall \in Waits
    BY <2>1 DEF SchedulerInv, WaitInv, Waits
  <2>3. t # task
    BY <2>1 DEF Leaving
  <2> QED BY <2>1, <2>2, <2>3 DEF Waiting, StillWaits, Blocked
<1>3. IsFiniteSet(Others)
  BY WaitingCounted, FS_RemoveElement
<1>4. Len(q) <= Cardinality(Others)
  <2> HIDE DEF Others, q
  <2>1. \A i \in 1..Len(q) : q[i] \in Others
    BY <1>1, <1>2, ElementOfSeq DEF Contains
  <2>2. q \in [1..Len(q) -> Others]
    BY <1>1, <2>1, LenProperties
  <2>3. q \in Injection(1..Len(q), Others)
    BY <1>1, <2>2 DEF Injection
  <2>4. Cardinality(1..Len(q)) <= Cardinality(Others)
    BY <1>3, <2>3, FS_Injection
  <2>5. Cardinality(1..Len(q)) = Len(q)
    <3>1. Len(q) \in Nat /\ 1 \in Int /\ Len(q) \in Int
      BY <1>1, LenProperties, SMTT(40)
    <3>2. Cardinality(1..Len(q)) = IF 1 > Len(q) THEN 0 ELSE Len(q) - 1 + 1
      BY <3>1, FS_Interval
    <3> QED BY <3>1, <3>2, SMTT(40)
  <2> QED BY <2>4, <2>5
<1>5. Cardinality(Others) = IF task \in Waiting(sem) THEN Cardinality(Waiting(sem)) - 1
                            ELSE Cardinality(Waiting(sem))
  BY WaitingCounted, FS_RemoveElement
<1>6. GivenBack(sem) => task \in Waiting(sem)
  BY GivenBackWaits
<1>7. Len(q) \in Nat /\ Cardinality(Waiting(sem)) \in Nat
  BY <1>1, LenProperties, WaitingCounted
<1> HIDE DEF Others, q
<1> QED BY <1>1, <1>4, <1>5, <1>6, <1>7, SMTT(40)

\* Steps after which the same tasks wait for the same semaphores.
LEMMA SameWaiting ==
  ASSUME \A x \in Tasks : /\ StillWaits(x)' <=> StillWaits(x)
                          /\ StillWaits(x) => record'[x].sem = record[x].sem
  PROVE  \A s : Waiting(s)' = Waiting(s)
<1>1. \A s, x : x \in Waiting(s)' <=> x \in Waiting(s)
  BY DEF Waiting
<1> QED BY <1>1, SMTT(40)

\* Steps that change neither the waiting tasks nor the counts.
LEMMA BalanceQuiet ==
  ASSUME TypeOK, BalanceInv, UNCHANGED value, \A s : Waiting(s)' = Waiting(s),
         \A s \in Sems : GivenBack(s)' => GivenBack(s),
         hpc' = "wake" => hpc = "wake" /\ UNCHANGED <<sem, waiters>>
  PROVE  BalanceInv'
<1>1. \A s \in Sems : value[s] \in Int /\ Cardinality(Waiting(s)) \in Nat
  BY WaitingCounted DEF TypeOK
<1> QED BY <1>1, SMTT(40) DEF BalanceInv

\* A post leaves room for every task that was waiting.
LEMMA PostRaises ==
  ASSUME NEW v \in Int, NEW n \in Nat, NEW max \in Nat, v <= max
  PROVE  /\ new_value(v, n, max) \in Int
         /\ new_value(v, n, max) >= v /\ new_value(v, n, max) <= max
         /\ v < max => new_value(v, 1, max) = v + 1
  BY SMTT(40) DEF new_value

\* Steps that add to a count.
LEMMA BalanceRaised ==
  ASSUME TypeOK, BalanceInv, NEW s \in Sems, NEW n \in Nat,
         value' = [value EXCEPT ![s] = new_value(@, n, SemMax[s])],
         \A x : Waiting(x)' = Waiting(x),
         \A x \in Sems : GivenBack(x)' => GivenBack(x),
         hpc' = "wake" => hpc = "wake" /\ UNCHANGED <<sem, waiters>>
  PROVE  BalanceInv'
<1>1. /\ value \in [Sems -> Int] /\ waiters \in Nat /\ SemMax \in [Sems -> Nat]
      /\ \A x \in Sems : Cardinality(Waiting(x)) \in Nat
  BY WaitingCounted, SemAssumption DEF TypeOK
<1>2. \A x \in Sems : value'[x] \in Int /\ value'[x] >= value[x] /\ value'[x] <= SemMax[x]
  <2>1. value'[s] \in Int /\ value'[s] >= value[s] /\ value'[s] <= SemMax[s]
    <3>1. value[s] \in Int /\ SemMax[s] \in Nat /\ value[s] <= SemMax[s]
      BY <1>1 DEF BalanceInv
    <3> QED BY <1>1, <3>1, PostRaises
  <2>2. \A x \in Sems : x # s => value'[x] = value[x]
    BY <1>1
  <2> QED BY <1>1, <2>1, <2>2, SMTT(40) DEF BalanceInv
<1> QED BY <1>1, <1>2, SMTT(40) DEF BalanceInv

\* Steps that take a unit that is there.
LEMMA BalanceTaken ==
  ASSUME SchedulerInv, BalanceInv, NEW s \in Sems, value[s] > 0,
         value' = [value EXCEPT ![s] = @ - 1],
         \A x : Waiting(x)' = Waiting(x),
         \A x \in Sems : GivenBack(x)' => GivenBack(x),
         hpc' = "wake" => hpc = "wake" /\ UNCHANGED <<sem, waiters>>
  PROVE  BalanceInv'
<1>1. /\ value \in [Sems -> Int] /\ waiters \in Nat /\ SemMax \in [Sems -> Nat]
      /\ \A x \in Sems : Cardinality(Waiting(x)) \in Nat
  BY WaitingCounted, SemAssumption DEF SchedulerInv, TypeOK
<1>2. GivenBack(s) => Cardinality(Waiting(s)) > 0
  BY GivenBackWaits, WaitingCounted
<1>3. value'[s] = value[s] - 1 /\ \A x \in Sems : x # s => value'[x] = value[x]
  BY <1>1
<1> QED BY <1>1, <1>2, <1>3, SMTT(40) DEF BalanceInv

\* Interrupts.
LEMMA BalanceIsr == SchedulerInv /\ BalanceInv /\ Isr => BalanceInv'
<1> SUFFICES ASSUME SchedulerInv, BalanceInv, Isr PROVE BalanceInv'
  OBVIOUS
<1>0. /\ UNCHANGED <<state, record, pc, pushing, hpc, todo, task, sem, waiters>>
      /\ TypeOK
  BY DEF Isr, schedVars, handlerVars, localVars, taskVars, SchedulerInv
<1>1. \/ UNCHANGED pending_syscalls
      \/ \E r \in Sems \cup {TickRecord} : pending_syscalls' = <<r>> \o pending_syscalls
  BY DEF Isr, rt_tick_advance, isr_sem_trywait, isr_sem_post_n, sem_post_syscall,
         IsrSyscall, stackVars
<1>2. \A x \in Tasks : Contains(pending_syscalls', x) <=> Contains(pending_syscalls, x)
  <2>1. ASSUME NEW r \in Sems \cup {TickRecord}, pending_syscalls' = <<r>> \o pending_syscalls
        PROVE  \A x \in Tasks : Contains(pending_syscalls', x) <=> Contains(pending_syscalls, x)
    <3>1. pending_syscalls \in Seq(Records) /\ r \in Records /\ r \notin Tasks
      BY <1>0, TasksAssumption DEF TypeOK, Records
    <3> QED BY <2>1, <3>1, ContainsPush
  <2> QED BY <1>1, <2>1
<1>3. \A x \in Tasks : StillWaits(x)' <=> StillWaits(x)
  BY <1>0, <1>2 DEF StillWaits, InFlight, OnStack, AboutToPush, Blocked
<1>4. \A s : Waiting(s)' = Waiting(s)
  BY <1>0, <1>3, SameWaiting
<1>5. \A s \in Sems : GivenBack(s)' => GivenBack(s)
  BY <1>0 DEF GivenBack
<1>6. CASE UNCHANGED value
  BY <1>0, <1>4, <1>5, <1>6, BalanceQuiet
<1>7. ASSUME NEW s \in Sems, isr_sem_trywait(s) PROVE BalanceInv'
  BY <1>0, <1>4, <1>5, <1>7, BalanceTaken DEF isr_sem_trywait, CanTake
<1>8. ASSUME NEW s \in Sems, NEW n \in IsrPostCounts, isr_sem_post_n(s, n)
      PROVE  BalanceInv'
  <2>1. n \in Nat
    BY CallAssumption
  <2>2. \/ UNCHANGED value
        \/ value' = [value EXCEPT ![s] = new_value(@, n, SemMax[s])]
    BY <1>8 DEF isr_sem_post_n, sem_post_syscall, AddDirectly, rt_sem_add_n
  <2> QED BY <1>0, <1>4, <1>5, <1>6, <2>1, <2>2, BalanceRaised
<1>9. CASE rt_tick_advance
  BY <1>6, <1>9 DEF rt_tick_advance
<1> QED BY <1>7, <1>8, <1>9 DEF Isr

\* No task waits before the first call.
LEMMA BalanceInit == Init => BalanceInv
<1> SUFFICES ASSUME Init PROVE BalanceInv
  OBVIOUS
<1>1. hpc = "idle" /\ value = SemCount
  BY DEF Init, SemInit
<1>2. \A s \in Sems : Cardinality(Waiting(s)) \in Nat /\ ~GivenBack(s)
  BY <1>1, WaitingCounted DEF GivenBack
<1> QED BY <1>1, <1>2, SemAssumption, SMTT(40) DEF BalanceInv

\* The task that makes a call waits for nothing yet.
LEMMA CallerFree ==
  ASSUME SchedulerInv, TaskLevel, NEW t \in Tasks, active = t, pc[t] = "user"
  PROVE  /\ hpc = "idle" /\ ~StillWaits(t) /\ \A x : ~OnStack(x)
         /\ \A s : ~GivenBack(s)
<1>1. /\ hpc = "idle" /\ Runnable(t) /\ \A x : ~OnStack(x)
      /\ \A y \in Tasks : pc[y] = "push" /\ pushing[y] = t => y = t
  BY StackEmpty
<1>2. ~InFlight(t)
  BY <1>1 DEF InFlight, AboutToPush
<1>3. ~Blocked(t)
  BY <1>1 DEF Blocked, Runnable
<1> QED BY <1>1, <1>2, <1>3 DEF StillWaits, GivenBack

\* A call that goes on to rt_syscall makes its task wait if it is a wait, and affects
\* no other task.
LEMMA CallerWaits ==
  ASSUME SchedulerInv, TaskLevel, NEW t \in Tasks, active = t, pc[t] = "user",
         NEW rec, NEW wake, SleepSyscall(t, rec, wake),
         UNCHANGED <<state, todo, pending_syscalls>>
  PROVE  /\ StillWaits(t)' <=> rec.syscall \in Waits
         /\ record'[t] = rec
         /\ \A x \in Tasks : x # t => /\ StillWaits(x)' <=> StillWaits(x)
                                      /\ record'[x] = record[x]
<1>1. /\ record \in [Tasks -> RecordType] /\ pushing \in [Tasks -> Tasks]
      /\ pc \in [Tasks -> {"new", "user", "push", "pend"}]
  BY DEF SchedulerInv, TypeOK
<1>2. /\ record'[t] = rec /\ pc'[t] = "push" /\ pushing'[t] = t
      /\ \A x \in Tasks : x # t => /\ record'[x] = record[x] /\ pc'[x] = pc[x]
                                   /\ pushing'[x] = pushing[x]
  BY <1>1 DEF SleepSyscall
<1>3. InFlight(t)'
  BY <1>2 DEF InFlight, AboutToPush
<1>4. \A x \in Tasks : x # t => (AboutToPush(x)' <=> AboutToPush(x))
  BY <1>2 DEF AboutToPush
<1>5. \A x \in Tasks : x # t => (StillWaits(x)' <=> StillWaits(x))
  BY <1>2, <1>4 DEF StillWaits, InFlight, OnStack, Blocked
<1> QED BY <1>2, <1>3, <1>5 DEF StillWaits

\* A call that does not wait.
LEMMA CallNoWait ==
  ASSUME SchedulerInv, TaskLevel, NEW t \in Tasks, active = t, pc[t] = "user",
         UNCHANGED <<state, todo, pending_syscalls>>,
         \/ Return
         \/ \E rec, wake : SleepSyscall(t, rec, wake) /\ rec.syscall \notin Waits
  PROVE  \A s : Waiting(s)' = Waiting(s)
<1>1. CASE Return
  <2>1. UNCHANGED <<record, pc, pushing>>
    BY <1>1 DEF Return
  <2>2. \A x \in Tasks : StillWaits(x)' <=> StillWaits(x)
    BY <2>1 DEF StillWaits, InFlight, OnStack, AboutToPush, Blocked
  <2> QED BY <2>1, <2>2, SameWaiting
<1>2. ASSUME NEW rec, NEW wake, SleepSyscall(t, rec, wake), rec.syscall \notin Waits
      PROVE  \A s : Waiting(s)' = Waiting(s)
  <2>1. ~StillWaits(t)
    BY CallerFree
  <2>2. /\ StillWaits(t)' <=> rec.syscall \in Waits
        /\ \A x \in Tasks : x # t => /\ StillWaits(x)' <=> StillWaits(x)
                                     /\ record'[x] = record[x]
    BY <1>2, CallerWaits
  <2> QED BY <1>2, <2>1, <2>2, SameWaiting
<1> QED BY <1>1, <1>2

\* A wait that does not find a unit.
LEMMA BalanceWait ==
  ASSUME SchedulerInv, BalanceInv, TaskLevel, NEW t \in Tasks, active = t, pc[t] = "user",
         NEW s \in Sems, NEW rec, rec.syscall \in Waits, rec.sem = s,
         NEW wake, SleepSyscall(t, rec, wake), value' = [value EXCEPT ![s] = @ - 1],
         value[s] <= 0, UNCHANGED <<state, todo, pending_syscalls, hpc>>
  PROVE  BalanceInv'
<1>1. hpc' = "idle" /\ ~StillWaits(t) /\ \A x : ~GivenBack(x)
  BY CallerFree
<1>2. /\ StillWaits(t)' /\ record'[t] = rec
      /\ \A x \in Tasks : x # t => /\ StillWaits(x)' <=> StillWaits(x)
                                   /\ record'[x] = record[x]
  BY CallerWaits
<1>3. Waiting(s)' = Waiting(s) \cup {t} /\ t \notin Waiting(s)
  <2>1. \A x : x \in Waiting(s)' <=> x \in Waiting(s) \/ x = t
    BY <1>1, <1>2 DEF Waiting
  <2> QED BY <2>1, <1>1 DEF Waiting
<1>4. \A x \in Sems : x # s => Waiting(x)' = Waiting(x)
  <2>1. \A x \in Sems : \A y : x # s => (y \in Waiting(x)' <=> y \in Waiting(x))
    BY <1>1, <1>2 DEF Waiting
  <2> QED BY <2>1
<1>5. Cardinality(Waiting(s) \cup {t}) = Cardinality(Waiting(s)) + 1
  BY <1>3, WaitingCounted, FS_AddElement
<1>6. /\ value \in [Sems -> Int] /\ SemMax \in [Sems -> Nat]
      /\ \A x \in Sems : Cardinality(Waiting(x)) \in Nat
  BY WaitingCounted, SemAssumption DEF SchedulerInv, TypeOK
<1>7. value'[s] = value[s] - 1 /\ \A x \in Sems : x # s => value'[x] = value[x]
  BY <1>6
<1>8. \A x \in Sems : ~GivenBack(x)'
  BY <1>1 DEF GivenBack
<1>b. \A x \in Sems : value[x] <= SemMax[x] /\ value[x] + Cardinality(Waiting(x)) >= 0
  BY <1>1 DEF BalanceInv
<1>c. value'[s] <= SemMax[s] /\ value'[s] + Cardinality(Waiting(s)') >= 0
  BY <1>3, <1>5, <1>6, <1>7, <1>b, SMTT(40)
<1>9. \A x \in Sems : value'[x] <= SemMax[x] /\ value'[x] + Cardinality(Waiting(x)') >= 0
  BY <1>4, <1>7, <1>b, <1>c
<1> QED BY <1>1, <1>8, <1>9 DEF BalanceInv

\* Calls.  A timed wait with a timeout of zero that finds no unit returns without
\* giving back what it has taken, so there must be none.
LEMMA BalanceNewCall ==
  ASSUME 0 \notin Timeouts, SchedulerInv, BalanceInv, NewCall
  PROVE  BalanceInv'
<1>0. UNCHANGED <<state, hpc, todo, pending_syscalls, sem, waiters, task>>
  BY DEF NewCall, schedVars, handlerVars, localVars
<1>1. PICK t \in Tasks : \/ rt_task_yield(t) \/ rt_task_exit(t)
                         \/ \E n \in SleepTicks : rt_sleep(t, n)
                         \/ \E n \in Periods : rt_sleep_periodic(t, n)
                         \/ \E s \in Sems :
                              \/ rt_sem_wait(t, s) \/ rt_sem_trywait(t, s)
                              \/ \E n \in Timeouts : rt_sem_timedwait(t, s, n)
                              \/ \E n \in PostCounts : rt_sem_post_n(t, s, n)
                         \/ \E u \in Tasks \ {t} : rt_task_init(t, u)
  BY DEF NewCall
<1>2. TaskLevel /\ active = t /\ pc[t] = "user"
  BY <1>1
     DEF rt_task_yield, rt_task_exit, rt_sleep, rt_sleep_periodic, rt_sem_wait,
         rt_sem_trywait, rt_sem_timedwait, rt_sem_post_n, rt_task_init, Call
<1>3. hpc = "idle" /\ ~StillWaits(t) /\ \A x : ~OnStack(x)
  BY <1>2, CallerFree
<1>4. /\ \A s \in Sems : GivenBack(s)' => GivenBack(s)
      /\ hpc' = "wake" => hpc = "wake" /\ UNCHANGED <<sem, waiters>>
      /\ TypeOK
  BY <1>0 DEF GivenBack, SchedulerInv
<1>5. ASSUME UNCHANGED value,
             Return \/ \E rec, wake : SleepSyscall(t, rec, wake) /\ rec.syscall \notin Waits
      PROVE  BalanceInv'
  <2>1. \A s : Waiting(s)' = Waiting(s)
    BY <1>0, <1>2, <1>5, CallNoWait
  <2> QED BY <1>4, <1>5, <2>1, BalanceQuiet
<1>r. \A c \in {"EXIT", "SLEEP", "SLEEP_PERIODIC", "SEM_POST"} : \A s, n, last :
        Record(c, s, n, last).syscall \notin Waits
  BY DEF Record, Waits
<1>6. CASE rt_task_yield(t)
  BY <1>5, <1>6 DEF rt_task_yield
<1>7. CASE rt_task_exit(t)
  <2>1. Record("EXIT", Null, 0, 0).syscall \notin Waits
    BY <1>r
  <2> QED BY <1>5, <1>7, <2>1 DEF rt_task_exit, Syscall
<1>8. CASE \/ \E n \in SleepTicks : rt_sleep(t, n)
           \/ \E n \in Periods : rt_sleep_periodic(t, n)
  <2>1. \A n : Record("SLEEP", Null, n, 0).syscall \notin Waits
    BY <1>r
  <2>2. \A n, last : Record("SLEEP_PERIODIC", Null, n, last).syscall \notin Waits
    BY <1>r
  <2> QED BY <1>5, <1>8, <2>1, <2>2 DEF rt_sleep, rt_sleep_periodic
<1>9. ASSUME NEW s \in Sems, TakeUnit(s), Return, value[s] > 0
      PROVE  BalanceInv'
  <2>1. \A x : Waiting(x)' = Waiting(x)
    BY <1>0, <1>2, <1>9, CallNoWait
  <2>2. value' = [value EXCEPT ![s] = @ - 1]
    BY <1>9 DEF TakeUnit
  <2> QED BY <1>4, <1>9, <2>1, <2>2, BalanceTaken
<1>10. ASSUME NEW s \in Sems, TakeUnit(s), ~(value[s] > 0),
              NEW c \in Waits, NEW n, NEW wake, SleepSyscall(t, Record(c, s, n, 0), wake)
       PROVE  BalanceInv'
  <2>2. Record(c, s, n, 0).syscall = c /\ Record(c, s, n, 0).sem = s
    BY DEF Record
  <2>3. value' = [value EXCEPT ![s] = @ - 1]
    BY <1>10 DEF TakeUnit
  <2>4. value[s] <= 0
    <3>1. value[s] \in Int
      BY <1>4, <1>10, Zenon DEF TypeOK
    <3> QED BY <1>10, <3>1, SMTT(40)
  <2> QED BY <1>0, <1>2, <1>10, <2>2, <2>3, <2>4, BalanceWait
<1>11. ASSUME NEW s \in Sems, rt_sem_wait(t, s) PROVE BalanceInv'
  <2>1. "SEM_WAIT" \in Waits
    BY DEF Waits
  <2> QED BY <1>9, <1>10, <1>11, <2>1 DEF rt_sem_wait, Syscall
<1>12. ASSUME NEW s \in Sems, rt_sem_trywait(t, s) PROVE BalanceInv'
  BY <1>9, <1>12 DEF rt_sem_trywait, CanTake
<1>13. ASSUME NEW s \in Sems, NEW n \in Timeouts, rt_sem_timedwait(t, s, n)
       PROVE  BalanceInv'
  <2>1. "SEM_TIMEDWAIT" \in Waits /\ n # 0
    BY DEF Waits
  <2> QED BY <1>9, <1>10, <1>13, <2>1 DEF rt_sem_timedwait
<1>14. ASSUME NEW s \in Sems, NEW n \in PostCounts, rt_sem_post_n(t, s, n)
       PROVE  BalanceInv'
  <2>1. Record("SEM_POST", s, n, 0).syscall \notin Waits /\ n \in Nat
    BY <1>r, CallAssumption
  <2>2. CASE value[s] < 0
    BY <1>5, <1>14, <2>1, <2>2 DEF rt_sem_post_n, Syscall
  <2>3. CASE ~(value[s] < 0)
    <3>1. value' = [value EXCEPT ![s] = new_value(@, n, SemMax[s])] /\ Return
      BY <1>14, <2>3 DEF rt_sem_post_n, rt_sem_add_n
    <3>2. \A x : Waiting(x)' = Waiting(x)
      BY <1>0, <1>2, <3>1, CallNoWait
    <3> QED BY <1>4, <2>1, <3>1, <3>2, BalanceRaised
  <2> QED BY <2>2, <2>3
<1>15. ASSUME NEW u \in Tasks \ {t}, rt_task_init(t, u) PROVE BalanceInv'
  <2>1. /\ pc[u] = "new" \/ (state[u] = "EXITED" /\ record[u].syscall = "EXIT")
        /\ record' = [record EXCEPT ![u] = Record("TASK_READY", Null, 0, 0)]
        /\ pc' = [pc EXCEPT ![t] = "push", ![u] = "user"]
        /\ pushing' = [pushing EXCEPT ![t] = u] /\ UNCHANGED value
    BY <1>15 DEF rt_task_init
  <2>2. /\ record \in [Tasks -> RecordType] /\ pushing \in [Tasks -> Tasks]
        /\ pc \in [Tasks -> {"new", "user", "push", "pend"}] /\ u \in Tasks /\ u # t
    BY <1>4 DEF TypeOK
  <2>3. "TASK_READY" \notin Waits /\ "EXIT" \notin Waits
    BY DEF Waits
  <2>4. record'[u].syscall = "TASK_READY" /\ \A x \in Tasks : x # u => record'[x] = record[x]
    BY <2>1, <2>2 DEF Record
  <2>5. ~StillWaits(u) /\ ~StillWaits(u)'
    <3>1. record[u].syscall \notin Waits
      BY <2>1, <2>2, <2>3 DEF SchedulerInv, PhaseInv
    <3> QED BY <2>3, <2>4, <3>1 DEF StillWaits
  <2>6. pc[u] # "push"
    BY <2>1, <2>2 DEF SchedulerInv, PushInv, Runnable
  <2>7. /\ pc'[t] = "push" /\ pushing'[t] = u /\ pc'[u] = "user"
        /\ \A x \in Tasks : x \notin {t, u} => pc'[x] = pc[x] /\ pushing'[x] = pushing[x]
    BY <2>1, <2>2
  <2>8. \A x \in Tasks : x # u => (AboutToPush(x)' <=> AboutToPush(x))
    BY <1>2, <2>6, <2>7 DEF AboutToPush
  <2>9. \A x \in Tasks : x # u => (StillWaits(x)' <=> StillWaits(x))
    BY <1>0, <2>4, <2>8 DEF StillWaits, InFlight, OnStack, Blocked
  <2>10. \A s : Waiting(s)' = Waiting(s)
    BY <2>4, <2>5, <2>9, SameWaiting
  <2> QED BY <1>4, <2>1, <2>10, BalanceQuiet
<1> QED BY <1>1, <1>6, <1>7, <1>8, <1>11, <1>12, <1>13, <1>14, <1>15

\* A record that a task pushes was about to be pushed.
LEMMA BalanceContinue == SchedulerInv /\ BalanceInv /\ Continue => BalanceInv'
<1> SUFFICES ASSUME SchedulerInv, BalanceInv, Continue PROVE BalanceInv'
  OBVIOUS
<1>0. /\ UNCHANGED <<state, record, value, hpc, todo, task, sem, waiters, pushing>>
      /\ TypeOK
  BY DEF Continue, schedVars, semVars, handlerVars, localVars, SchedulerInv
<1>1. /\ pushing \in [Tasks -> Tasks] /\ pc \in [Tasks -> {"new", "user", "push", "pend"}]
      /\ pending_syscalls \in Seq(Records) /\ \A x \in Tasks : pushing[x] \in Records
  BY <1>0 DEF TypeOK, Records
<1>2. ASSUME NEW t \in Tasks, rt_syscall(t)
      PROVE  \A x \in Tasks : InFlight(x)' <=> InFlight(x)
  <2>1. /\ pc[t] = "push" /\ pc'[t] = "pend"
        /\ pending_syscalls' = <<pushing[t]>> \o pending_syscalls
        /\ \A x \in Tasks : x # t => pc'[x] = pc[x]
    BY <1>1, <1>2 DEF rt_syscall
  <2>2. \A x : Contains(pending_syscalls', x) <=>
                 x = pushing[t] \/ Contains(pending_syscalls, x)
    BY <1>1, <2>1, ContainsPush, SMTT(40)
  <2>3. \A x : OnStack(x)' <=> x = pushing[t] \/ OnStack(x)
    BY <1>0, <2>2 DEF OnStack
  <2>4. \A x \in Tasks : x # pushing[t] => (AboutToPush(x)' <=> AboutToPush(x))
    BY <1>0, <2>1 DEF AboutToPush
  <2>5. AboutToPush(pushing[t])
    BY <2>1 DEF AboutToPush
  <2> QED BY <2>3, <2>4, <2>5 DEF InFlight
<1>3. ASSUME NEW t \in Tasks, rt_syscall_pend(t)
      PROVE  \A x \in Tasks : InFlight(x)' <=> InFlight(x)
  <2>1. /\ pc[t] = "pend" /\ pc'[t] = "user" /\ UNCHANGED pending_syscalls
        /\ \A x \in Tasks : x # t => pc'[x] = pc[x]
    BY <1>1, <1>3 DEF rt_syscall_pend
  <2> QED BY <1>0, <2>1 DEF InFlight, OnStack, AboutToPush
<1>4. \A x \in Tasks : InFlight(x)' <=> InFlight(x)
  BY <1>2, <1>3 DEF Continue
<1>5. \A x \in Tasks : StillWaits(x)' <=> StillWaits(x)
  BY <1>0, <1>4 DEF StillWaits, Blocked
<1>6. \A s : Waiting(s)' = Waiting(s)
  BY <1>0, <1>5, SameWaiting
<1>7. /\ \A s \in Sems : GivenBack(s)' => GivenBack(s)
      /\ hpc' = "wake" => hpc = "wake" /\ UNCHANGED <<sem, waiters>>
  BY <1>0 DEF GivenBack
<1> QED BY <1>0, <1>6, <1>7, BalanceQuiet

\* The record of a blocked task is not in flight.
LEMMA BlockedLanded ==
  ASSUME SchedulerInv, NEW t \in Tasks, Blocked(t)
  PROVE  ~InFlight(t)
<1>1. record[t].syscall # "TASK_READY" /\ ~Runnable(t)
  BY DEF Blocked, Runnable, SchedulerInv, WaitInv
<1>2. ~OnStack(t)
  BY <1>1 DEF SchedulerInv, PhaseInv
<1>3. ASSUME NEW y \in Tasks, pc[y] = "push", pushing[y] = t PROVE FALSE
  BY <1>1, <1>3 DEF SchedulerInv, PushInv
<1> QED BY <1>2, <1>3 DEF InFlight, AboutToPush

\* Steps of the handler that change the state of one task and take at most its record.
LEMMA HandlerWaiting ==
  ASSUME NEW t, UNCHANGED <<record, pending_syscalls, pc, pushing>>,
         \A x \in Tasks : x # t => /\ state'[x] = state[x]
                                   /\ Contains(todo', x) <=> Contains(todo, x),
         t \in Tasks => (StillWaits(t)' <=> StillWaits(t))
  PROVE  \A s : Waiting(s)' = Waiting(s)
<1>1. \A x \in Tasks : x # t => (StillWaits(x)' <=> StillWaits(x))
  BY DEF StillWaits, InFlight, OnStack, AboutToPush, Blocked
<1>2. \A x \in Tasks : StillWaits(x)' <=> StillWaits(x)
  BY <1>1
<1> QED BY <1>2, SameWaiting

\* The first statement of wake_sem_waiters.
LEMMA BalanceEvaluated ==
  ASSUME TypeOK, BalanceInv, NEW s \in Sems, EvaluateWakes(s), UNCHANGED value,
         \A x : Waiting(x)' = Waiting(x),
         \A x \in Sems : GivenBack(x)' => GivenBack(x)
  PROVE  BalanceInv'
<1>1. /\ \A x \in Sems : value[x] \in Int /\ Cardinality(Waiting(x)) \in Nat
      /\ sem' = s /\ waiters' = IF value[s] < 0 THEN -value[s] ELSE 0
  BY WaitingCounted DEF TypeOK, EvaluateWakes
<1>2. value[s] + waiters' >= 0
  BY <1>1, SMTT(40)
<1> QED BY <1>1, <1>2, SMTT(40) DEF BalanceInv

\* A task stops waiting for s.
LEMMA BalanceLeft ==
  ASSUME SchedulerInv, BalanceInv, NEW s \in Sems, NEW t \in Waiting(s), UNCHANGED value,
         \A x \in Tasks : x # t => /\ StillWaits(x)' <=> StillWaits(x)
                                   /\ record'[x].sem = record[x].sem,
         ~StillWaits(t)',
         \A x \in Sems : x # s => (GivenBack(x)' => GivenBack(x)),
         value[s] + Cardinality(Waiting(s)) > (IF GivenBack(s)' THEN 1 ELSE 0),
         hpc' = "wake" => hpc = "wake" /\ UNCHANGED <<sem, waiters>>
  PROVE  BalanceInv'
<1>1. Waiting(s)' = Waiting(s) \ {t}
  <2>1. \A x : x \in Waiting(s)' <=> x \in Waiting(s) /\ x # t
    BY DEF Waiting
  <2> QED BY <2>1
<1>2. ASSUME NEW x \in Sems, x # s PROVE Waiting(x)' = Waiting(x)
  <2>1. \A y : y \in Waiting(x)' <=> y \in Waiting(x)
    BY <1>2 DEF Waiting
  <2> QED BY <2>1
<1>3. Cardinality(Waiting(s) \ {t}) = Cardinality(Waiting(s)) - 1
  BY WaitingCounted, FS_RemoveElement
<1>4. \A x \in Sems : value[x] \in Int /\ Cardinality(Waiting(x)) \in Nat
  BY WaitingCounted DEF SchedulerInv, TypeOK
<1>5. value[s] + Cardinality(Waiting(s)') >= (IF GivenBack(s)' THEN 1 ELSE 0)
  BY <1>1, <1>3, <1>4, SMTT(40)
<1>6. ASSUME NEW x \in Sems, x # s
      PROVE  value[x] + Cardinality(Waiting(x)') >= (IF GivenBack(x)' THEN 1 ELSE 0)
  <2>1. /\ value[x] + Cardinality(Waiting(x)) >= (IF GivenBack(x) THEN 1 ELSE 0)
        /\ Waiting(x)' = Waiting(x) /\ (GivenBack(x)' => GivenBack(x))
    BY <1>2, <1>6 DEF BalanceInv
  <2> QED BY <1>4, <2>1, SMTT(40)
<1>7. \A x \in Sems : value'[x] <= SemMax[x] /\ (hpc' = "wake" /\ sem' = x => value'[x] + waiters' >= 0)
  BY DEF BalanceInv
<1>8. \A x \in Sems : value'[x] + Cardinality(Waiting(x)') >= (IF GivenBack(x)' THEN 1 ELSE 0)
  BY <1>5, <1>6
<1> QED BY <1>7, <1>8 DEF BalanceInv

\* The handler looks at a record that is not a wait.
LEMMA NoWaitTaken ==
  ASSUME SchedulerInv, NEW syscall, syscall \notin Waits, Dispatch(syscall),
         UNCHANGED <<record, pending_syscalls, pc, pushing>>,
         \A x \in Tasks : x # Head(todo) => state'[x] = state[x]
  PROVE  \A s : Waiting(s)' = Waiting(s)
<1>1. /\ \A r : Contains(todo', r) <=> r # Head(todo) /\ Contains(todo, r)
      /\ Head(todo) \in Tasks => record[Head(todo)].syscall = syscall
  BY NextRecord DEF SchedulerInv
<1>2. Head(todo) \in Tasks => ~StillWaits(Head(todo)) /\ record'[Head(todo)].syscall \notin Waits
  BY <1>1 DEF StillWaits
<1>3. \A x \in Tasks : StillWaits(x)' <=> StillWaits(x)
  BY <1>1, <1>2 DEF StillWaits, InFlight, OnStack, AboutToPush, Blocked
<1> QED BY <1>3, SameWaiting

\* The handler looks at a wait, whose task it blocks.
LEMMA BalanceBlocks ==
  ASSUME SchedulerInv, BalanceInv, NEW syscall \in Waits, Dispatch(syscall),
         NEW st \in {"BLOCKED", "BLOCKED_TIMEOUT"},
         state' = [state EXCEPT ![Head(todo)] = st],
         EvaluateWakes(record[Head(todo)].sem),
         UNCHANGED <<value, record, pending_syscalls, pc, pushing, task>>
  PROVE  BalanceInv'
<1>1. /\ Head(todo) \in Tasks /\ record[Head(todo)].syscall = syscall /\ OnStack(Head(todo))
      /\ \A r : Contains(todo', r) <=> r # Head(todo) /\ Contains(todo, r)
      /\ hpc = "next"
  BY NextRecord DEF SchedulerInv, Waits, Dispatch
<1>p. PICK t \in Tasks : t = Head(todo)
  BY <1>1
<1>2. record[t].sem \in Sems
  BY <1>1, <1>p DEF SchedulerInv, PhaseInv, InFlight, Asks, Waits
<1>3. state'[t] = st /\ \A x \in Tasks : x # t => state'[x] = state[x]
  BY <1>1, <1>p DEF SchedulerInv, TypeOK, AllTasks
<1>4. Blocked(t)'
  BY <1>3 DEF Blocked
<1>5. StillWaits(t) /\ StillWaits(t)'
  BY <1>1, <1>p, <1>4 DEF StillWaits, InFlight
<1>6. \A x \in Tasks : x # t => (Contains(todo', x) <=> Contains(todo, x))
  BY <1>1, <1>p
<1>7. \A s : Waiting(s)' = Waiting(s)
  BY <1>3, <1>5, <1>6, HandlerWaiting
<1>8. \A s \in Sems : ~GivenBack(s)'
  BY <1>1, BetweenRecords DEF GivenBack
<1> QED BY <1>2, <1>7, <1>8, <1>p, BalanceEvaluated DEF SchedulerInv

\* One turn of wake_sem_waiters: there are more waiters than the count needs.
LEMMA BalanceWake ==
  ASSUME SchedulerInv, BalanceInv, wake_sem_waiters, UNCHANGED <<pc, pushing>>
  PROVE  BalanceInv'
<1>0. /\ hpc = "wake" /\ num_waiters[sem] > waiters /\ task_ready(Head(wait_list[sem]))
      /\ UNCHANGED <<value, record, pending_syscalls, hpc, todo, sem, task, waiters>>
  BY DEF wake_sem_waiters, sharedVars, stackVars, handlerVars, localVars
<1>1. /\ sem \in Sems /\ wait_list[sem] \in Seq(Tasks) /\ IsInjective(wait_list[sem])
      /\ num_waiters[sem] = Len(wait_list[sem]) /\ waiters \in Nat
      /\ state \in [AllTasks -> TaskStates] /\ value[sem] \in Int
  BY <1>0 DEF SchedulerInv, TypeOK, HandlerInv, WaitListInv
<1>2. Head(wait_list[sem]) \in Tasks /\ Contains(wait_list[sem], Head(wait_list[sem]))
  <2>1. wait_list[sem] # <<>>
    BY <1>0, <1>1, SMTT(40)
  <2> QED BY <1>1, <2>1, FrontAndRest
<1>p. PICK t \in Tasks : t = Head(wait_list[sem])
  BY <1>2
<1>3. Blocked(t) /\ record[t].sem = sem
  BY <1>1, <1>2, <1>p DEF SchedulerInv, WaitListInv, Blocked
<1>4. record[t].syscall \in Waits
  BY <1>2, <1>3 DEF SchedulerInv, WaitInv, Blocked, Waits
<1>5. state'[t] = "READY" /\ \A x \in Tasks : x # t => state'[x] = state[x]
  BY <1>0, <1>1, <1>2, <1>p DEF task_ready, AllTasks
<1>6. t \in Waiting(sem)
  BY <1>2, <1>3, <1>4 DEF Waiting, StillWaits
<1>7. \A x \in Tasks : InFlight(x)' <=> InFlight(x)
  BY <1>0 DEF InFlight, OnStack, AboutToPush
<1>8. ~StillWaits(t)'
  <2>1. ~Blocked(t)'
    BY <1>5 DEF Blocked
  <2> QED BY <1>2, <1>3, <1>7, <2>1, BlockedLanded DEF StillWaits
<1>9. \A x \in Tasks : x # t => /\ StillWaits(x)' <=> StillWaits(x)
                                /\ record'[x].sem = record[x].sem
  BY <1>0, <1>5, <1>7 DEF StillWaits, Blocked
<1>10. \A x \in Sems : GivenBack(x)' <=> GivenBack(x)
  BY <1>0 DEF GivenBack
<1>11. num_waiters[sem] + (IF GivenBack(sem) THEN 1 ELSE 0) <= Cardinality(Waiting(sem))
  BY <1>0, <1>1, ListedWaiters
<1>12. value[sem] + waiters >= 0
  BY <1>0, <1>1 DEF BalanceInv
<1>13. Cardinality(Waiting(sem)) \in Nat /\ num_waiters[sem] \in Nat
  BY <1>1, WaitingCounted, LenProperties
<1>14. value[sem] + Cardinality(Waiting(sem)) > (IF GivenBack(sem) THEN 1 ELSE 0)
  <2>1. PICK back \in {0, 1} : back = IF GivenBack(sem) THEN 1 ELSE 0
    OBVIOUS
  <2> HIDE <2>1
  <2>2. num_waiters[sem] + back <= Cardinality(Waiting(sem))
    BY <1>11, <2>1
  <2>3. value[sem] + Cardinality(Waiting(sem)) > back
    BY <1>0, <1>1, <1>12, <1>13, <2>2, SMTT(40)
  <2> QED BY <2>1, <2>3
<1> QED BY <1>0, <1>1, <1>6, <1>8, <1>9, <1>10, <1>14, BalanceLeft

\* A timed wait has run out and gives its unit back.
LEMMA BalanceTimeout ==
  ASSUME SchedulerInv, BalanceInv, tick_syscall_timeout, UNCHANGED <<pc, pushing>>
  PROVE  BalanceInv'
<1>0. /\ hpc = "expire" /\ sleep_list # <<>> /\ TimedWaiter
      /\ task' = Sleeper /\ sem' = record[Sleeper].sem /\ hpc' = "timeout"
      /\ value' = [value EXCEPT ![record[Sleeper].sem] =
                      new_value(@, 1, SemMax[record[Sleeper].sem])]
      /\ UNCHANGED <<state, record, pending_syscalls, todo>>
  BY DEF tick_syscall_timeout, Expired, GiveBack, rt_sem_add_n, schedVars, sharedVars, stackVars
<1>1. /\ Sleeper \in Tasks /\ state[Sleeper] = "BLOCKED_TIMEOUT"
      /\ record[Sleeper].sem \in Sems
  BY <1>0, FirstSleeper
<1>p. PICK s \in Sems : s = record[Sleeper].sem
  BY <1>1
<1>2. record[Sleeper].syscall \in Waits
  BY <1>0 DEF TimedWaiter, Waits
<1>3. Sleeper \in Waiting(s)
  BY <1>1, <1>2, <1>p DEF Waiting, StillWaits, Blocked
<1>4. \A x \in Tasks : StillWaits(x)' <=> StillWaits(x)
  BY <1>0 DEF StillWaits, InFlight, OnStack, AboutToPush, Blocked
<1>5. \A x : Waiting(x)' = Waiting(x)
  BY <1>0, <1>4, SameWaiting
<1>6. /\ value \in [Sems -> Int] /\ \A x \in Sems : SemMax[x] \in Nat /\ value[x] \in Int
      /\ \A x \in Sems : Cardinality(Waiting(x)) \in Nat
  BY WaitingCounted, SemAssumption DEF SchedulerInv, TypeOK
<1>7. value'[s] = new_value(value[s], 1, SemMax[s]) /\ \A x \in Sems : x # s => value'[x] = value[x]
  BY <1>0, <1>1, <1>6, <1>p
<1>8. value[s] <= SemMax[s] /\ value[s] + Cardinality(Waiting(s)) >= 0
  BY <1>1, <1>6, SMTT(40) DEF BalanceInv
<1>9. Cardinality(Waiting(s)) >= 1
  BY <1>1, <1>3, <1>6, WaitingCounted, SMTT(40)
<1>10. value'[s] <= SemMax[s] /\ value'[s] + Cardinality(Waiting(s)) >= 1
  <2>1. value[s] \in Int /\ SemMax[s] \in Nat /\ Cardinality(Waiting(s)) \in Nat
    BY <1>1, <1>6
  <2> QED BY <2>1, <1>7, <1>8, <1>9, SMTT(40) DEF new_value
<1>11. ASSUME NEW x \in Sems, x # s
       PROVE  /\ value'[x] <= SemMax[x] /\ value'[x] + Cardinality(Waiting(x)) >= 0
              /\ ~GivenBack(x)'
  BY <1>0, <1>p, <1>6, <1>7, <1>11 DEF BalanceInv, GivenBack
<1>12. \A x \in Sems : /\ value'[x] <= SemMax[x]
                       /\ value'[x] + Cardinality(Waiting(x)) >= (IF GivenBack(x)' THEN 1 ELSE 0)
  <2>1. /\ value'[s] + Cardinality(Waiting(s)) >= (IF GivenBack(s)' THEN 1 ELSE 0)
    <3>1. value'[s] \in Int /\ Cardinality(Waiting(s)) \in Nat
      BY <1>1, <1>6, <1>7, SMTT(40) DEF new_value
    <3> QED BY <3>1, <1>10, SMTT(40)
  <2> QED BY <2>1, <1>10, <1>11
<1> QED BY <1>0, <1>5, <1>12 DEF BalanceInv

\* A timed wait is over.
LEMMA BalanceTimedout ==
  ASSUME SchedulerInv, BalanceInv, tick_syscall_timedout, UNCHANGED <<pc, pushing>>
  PROVE  BalanceInv'
<1>0. /\ hpc = "timedout" /\ hpc' = "expire" /\ task_ready(task)
      /\ record' = [record EXCEPT ![task].sem = Null]
      /\ UNCHANGED <<value, pending_syscalls, todo>>
  BY DEF tick_syscall_timedout, semVars, sharedVars, stackVars
<1>1. task \in Tasks /\ sem \in Sems
  BY <1>0 DEF SchedulerInv, HandlerInv, TypeOK
<1>p. PICK t \in Tasks, s \in Sems : t = task /\ s = sem
  BY <1>1
<1>2. GivenBack(s) /\ t \in Waiting(s) /\ Blocked(t)
  <2>1. GivenBack(s)
    BY <1>0, <1>1, <1>p, TasksAssumption DEF GivenBack, SchedulerInv, HandlerInv
  <2>2. task \in Waiting(s)
    BY <1>1, <2>1, GivenBackWaits DEF SchedulerInv
  <2>3. state[t] = "BLOCKED_TIMEOUT"
    BY <1>0, <1>p DEF SchedulerInv, HandlerInv
  <2> QED BY <1>p, <2>1, <2>2, <2>3 DEF Blocked
<1>3. /\ state \in [AllTasks -> TaskStates] /\ record \in [Tasks -> RecordType]
      /\ value[s] \in Int
  BY <1>1 DEF SchedulerInv, TypeOK
<1>4. state'[t] = "READY" /\ \A x \in Tasks : x # t => state'[x] = state[x]
  BY <1>0, <1>3, <1>p, Zenon DEF task_ready, AllTasks
<1>5. \A x \in Tasks : x # t => record'[x] = record[x]
  BY <1>0, <1>3, <1>p, Zenon
<1>6. \A x \in Tasks : InFlight(x)' <=> InFlight(x)
  BY <1>0 DEF InFlight, OnStack, AboutToPush
<1>7. ~StillWaits(t)'
  <2>1. ~Blocked(t)'
    BY <1>4 DEF Blocked
  <2> QED BY <1>2, <1>6, <2>1, BlockedLanded DEF StillWaits
<1>8. \A x \in Tasks : x # t => /\ StillWaits(x)' <=> StillWaits(x)
                                /\ record'[x].sem = record[x].sem
  BY <1>4, <1>5, <1>6 DEF StillWaits, Blocked
<1>9. \A x \in Sems : ~GivenBack(x)'
  BY <1>0, Zenon DEF GivenBack
<1>10. value[s] + Cardinality(Waiting(s)) > 0
  <2>1. value[s] + Cardinality(Waiting(s)) >= 1
    BY <1>1, <1>2 DEF BalanceInv
  <2> QED BY <1>3, <2>1, WaitingCounted, SMTT(40)
<1>11. value[s] + Cardinality(Waiting(s)) > (IF GivenBack(s)' THEN 1 ELSE 0)
  BY <1>0, <1>10, Zenon DEF GivenBack
<1> QED BY <1>0, <1>1, <1>2, <1>7, <1>8, <1>9, <1>11, BalanceLeft

\* The scheduler neither blocks a task nor wakes one.
LEMMA BalanceSched ==
  ASSUME SchedulerInv, BalanceInv, sched, UNCHANGED <<pc, pushing>>
  PROVE  BalanceInv'
<1>0. hpc' = "idle" /\ UNCHANGED <<value, record, pending_syscalls, todo>>
  BY DEF sched, semVars, sharedVars, stackVars
<1>1. \A x \in Tasks : Blocked(x)' <=> Blocked(x)
  <2>1. CASE UNCHANGED state
    BY <2>1 DEF Blocked
  <2>2. CASE ~Keep /\ active # Head(ready_list) /\ Switch(Head(ready_list))
    <3>1. ready_list # <<>> /\ active' = Head(ready_list)
      BY <2>2 DEF Keep, Switch
    <3>2. state[active'] = "READY" /\ active' \in AllTasks
      BY <3>1, ReadyTasks
    <3>3. /\ state'[active'] = "RUNNING"
          /\ \A x \in AllTasks : /\ x # active' /\ Runnable(x) => Runnable(x)'
                                 /\ x # active' /\ ~Runnable(x) => state'[x] = state[x]
      BY <2>2, <3>1, SchedSwitches
    <3>4. ASSUME NEW x \in Tasks PROVE Blocked(x)' <=> Blocked(x)
      <4>1. CASE x = active'
        BY <4>1, <3>2, <3>3, Zenon DEF Blocked
      <4>2. CASE x # active' /\ Runnable(x)
        <5>1. Runnable(x)'
          BY <4>2, <3>3 DEF AllTasks
        <5> QED BY <4>2, <5>1, Zenon DEF Blocked, Runnable
      <4>3. CASE x # active' /\ ~Runnable(x)
        BY <4>3, <3>3 DEF Blocked, AllTasks
      <4> QED BY <4>1, <4>2, <4>3
    <3> QED BY <3>4
  <2> QED BY <2>1, <2>2 DEF sched, schedVars, Reawaken
<1>2. \A x \in Tasks : StillWaits(x)' <=> StillWaits(x)
  BY <1>0, <1>1 DEF StillWaits, InFlight, OnStack, AboutToPush
<1>3. \A s : Waiting(s)' = Waiting(s)
  BY <1>0, <1>2, SameWaiting
<1>4. \A s \in Sems : ~GivenBack(s)'
  BY <1>0, Zenon DEF GivenBack
<1> QED BY <1>0, <1>3, <1>4, BalanceQuiet, Zenon DEF SchedulerInv

\* The steps of the handler that leave the counts alone and no task waiting more or less.
LEMMA BalanceRests ==
  ASSUME SchedulerInv, BalanceInv, UNCHANGED value, \A s : Waiting(s)' = Waiting(s),
         hpc' \notin {"timeout", "wake", "timedout"}
  PROVE  BalanceInv'
<1>1. hpc' # "wake" /\ \A s \in Sems : ~GivenBack(s)'
  BY Zenon DEF GivenBack
<1> QED BY <1>1, BalanceQuiet DEF SchedulerInv

\* The system call handler keeps the balance.
LEMMA BalanceHandler == SchedulerInv /\ BalanceInv /\ Handler => BalanceInv'
<1> SUFFICES ASSUME SchedulerInv, BalanceInv, Handler PROVE BalanceInv'
  OBVIOUS
<1>0. UNCHANGED <<pc, pushing>> /\ TypeOK /\ state \in [AllTasks -> TaskStates]
  BY DEF Handler, taskVars, SchedulerInv, TypeOK
<1> USE DEF schedVars, semVars, dataVars, sharedVars, stackVars, localVars
<1>1. UNCHANGED <<state, record, todo, pending_syscalls>> => \A s : Waiting(s)' = Waiting(s)
  BY <1>0, SameWaiting DEF StillWaits, InFlight, OnStack, AboutToPush, Blocked
<1>2. CASE rt_syscall_handler \/ tick_syscall \/ tick_syscall_end
  <2>1. /\ hpc' \in {"take", "expire", "next"}
        /\ UNCHANGED <<state, record, todo, pending_syscalls, value>>
    BY <1>2 DEF rt_syscall_handler, tick_syscall, tick_syscall_end
  <2>2. hpc' \notin {"timeout", "wake", "timedout"}
    BY <2>1, Zenon
  <2> QED BY <1>1, <2>1, <2>2, BalanceRests
<1>3. CASE rt_syscall_run
  <2>1. /\ hpc = "take" /\ hpc' = "next" /\ todo' = pending_syscalls /\ pending_syscalls' = <<>>
        /\ UNCHANGED <<state, record, value>>
    BY <1>3 DEF rt_syscall_run
  <2>2. todo = <<>> /\ hpc' \notin {"timeout", "wake", "timedout"}
    BY <2>1, Zenon DEF SchedulerInv, StackInv
  <2>3. \A r : OnStack(r)' <=> OnStack(r)
    BY <2>1, <2>2, ContainsEmpty DEF OnStack
  <2>4. \A s : Waiting(s)' = Waiting(s)
    BY <1>0, <2>1, <2>3, SameWaiting DEF StillWaits, InFlight, AboutToPush, Blocked
  <2> QED BY <2>1, <2>2, <2>4, BalanceRests
<1>4. CASE \/ syscall_sleep \/ syscall_sleep_periodic \/ syscall_exit \/ syscall_task_ready
           \/ syscall_sem_post \/ syscall_tick
  <2>1. PICK syscall \in {"SLEEP", "SLEEP_PERIODIC", "EXIT", "TASK_READY", "SEM_POST", "TICK"} :
          Dispatch(syscall)
    BY <1>4 DEF syscall_sleep, syscall_sleep_periodic, syscall_exit,
                       syscall_task_ready, syscall_sem_post, syscall_tick
  <2>2. /\ UNCHANGED <<record, pending_syscalls, value>>
        /\ hpc' = hpc \/ hpc' \in {"post", "tick"}
    BY <1>4 DEF syscall_sleep, syscall_sleep_periodic, syscall_exit,
                       syscall_task_ready, syscall_sem_post, syscall_tick
  <2>3. \A x \in Tasks : x # Head(todo) => state'[x] = state[x]
    <3>1. \/ UNCHANGED state
          \/ \E st \in TaskStates : state' = [state EXCEPT ![Head(todo)] = st]
      <4>1. {"ASLEEP", "EXITED", "READY"} \subseteq TaskStates
        BY DEF TaskStates
      <4>2. CASE syscall_sleep
        BY <4>1, <4>2, Zenon DEF syscall_sleep
      <4>3. CASE syscall_sleep_periodic
        BY <4>1, <4>3, Zenon DEF syscall_sleep_periodic
      <4>4. CASE syscall_exit
        BY <4>1, <4>4, Zenon DEF syscall_exit
      <4>5. CASE syscall_task_ready
        BY <4>1, <4>5, Zenon DEF syscall_task_ready, task_ready
      <4>6. CASE syscall_sem_post \/ syscall_tick
        BY <4>6, Zenon DEF syscall_sem_post, syscall_tick
      <4> QED BY <1>4, <4>2, <4>3, <4>4, <4>5, <4>6, Zenon
    <3> QED BY <1>0, <3>1, Zenon DEF AllTasks
  <2>4. syscall \notin Waits /\ hpc' \notin {"timeout", "wake", "timedout"}
    BY <2>1, <2>2, Zenon DEF Dispatch, Waits
  <2>5. \A s : Waiting(s)' = Waiting(s)
    BY <1>0, <2>1, <2>2, <2>3, <2>4, NoWaitTaken
  <2> QED BY <2>2, <2>4, <2>5, BalanceRests
<1>5. CASE syscall_sem_wait
  <2>1. /\ Dispatch("SEM_WAIT") /\ EvaluateWakes(record[Head(todo)].sem)
        /\ state' = [state EXCEPT ![Head(todo)] = "BLOCKED"]
        /\ UNCHANGED <<value, record, pending_syscalls, task>>
    BY <1>5 DEF syscall_sem_wait
  <2> QED BY <1>0, <2>1, BalanceBlocks DEF Waits
<1>6. CASE syscall_sem_timedwait
  <2>1. /\ Dispatch("SEM_TIMEDWAIT") /\ EvaluateWakes(record[Head(todo)].sem)
        /\ state' = [state EXCEPT ![Head(todo)] = "BLOCKED_TIMEOUT"]
        /\ UNCHANGED <<value, record, pending_syscalls, task>>
    BY <1>6 DEF syscall_sem_timedwait
  <2> QED BY <1>0, <2>1, BalanceBlocks DEF Waits
<1>7. CASE syscall_sem_post_add
  <2>1. /\ hpc = "post" /\ hpc' = "load" /\ rt_sem_add_n(sem, PostCount(current))
        /\ UNCHANGED <<state, record, todo, pending_syscalls>>
    BY <1>7 DEF syscall_sem_post_add
  <2>2. sem \in Sems /\ current \in Tasks \cup Sems
    BY <2>1, Zenon DEF SchedulerInv, HandlerInv
  <2>3. PostCount(current) \in Nat
    <3>1. post_n \in [Sems -> Nat] /\ record \in [Tasks -> RecordType]
      BY <1>0, Zenon DEF TypeOK
    <3> QED BY <2>2, <3>1 DEF PostCount, RecordType
  <2>4. hpc' # "wake" /\ \A s \in Sems : ~GivenBack(s)'
    BY <2>1, Zenon DEF GivenBack
  <2> QED BY <1>0, <1>1, <2>1, <2>2, <2>3, <2>4, BalanceRaised DEF rt_sem_add_n
<1>8. CASE syscall_sem_post_load \/ tick_syscall_leave
  <2>1. /\ hpc \in {"load", "timeout"} /\ EvaluateWakes(sem)
        /\ UNCHANGED <<value, state, record, todo, pending_syscalls, task>>
    BY <1>8 DEF syscall_sem_post_load, tick_syscall_leave
  <2>2. sem \in Sems /\ (task # Null => hpc = "timeout")
    BY <2>1, Zenon DEF SchedulerInv, HandlerInv
  <2>3. sem' = sem
    BY <2>1 DEF EvaluateWakes
  <2>4. \A s \in Sems : GivenBack(s)' => GivenBack(s)
    BY <2>1, <2>2, <2>3 DEF GivenBack
  <2> QED BY <1>0, <1>1, <2>1, <2>2, <2>4, BalanceEvaluated
<1>9. CASE wake_sem_waiters_end
  <2>1. /\ hpc = "wake" /\ hpc' \in {"timedout", "next"}
        /\ UNCHANGED <<value, state, record, todo, pending_syscalls, task, sem>>
    BY <1>9 DEF wake_sem_waiters_end
  <2>2. hpc' # "wake" /\ \A s \in Sems : GivenBack(s)' => GivenBack(s)
    BY <2>1, Zenon DEF GivenBack
  <2> QED BY <1>0, <1>1, <2>1, <2>2, BalanceQuiet
<1>10. CASE tick_syscall_wake
  <2>1. /\ hpc = "expire" /\ sleep_list # <<>> /\ ~TimedWaiter /\ task_ready(Sleeper)
        /\ UNCHANGED <<value, record, pending_syscalls, hpc, todo>>
    BY <1>10 DEF tick_syscall_wake, Expired, handlerVars
  <2>2. Sleeper \in Tasks /\ state[Sleeper] = "ASLEEP"
    BY <2>1, FirstSleeper
  <2>p. PICK t \in Tasks : t = Sleeper
    BY <2>2
  <2>3. record[t].syscall \notin Waits
    BY <2>2, <2>p, Zenon DEF SchedulerInv, WaitInv, Waits
  <2>4. \A x \in Tasks : x # t => state'[x] = state[x]
    BY <1>0, <2>1, <2>2, <2>p, Zenon DEF task_ready, AllTasks
  <2>5. ~StillWaits(t) /\ ~StillWaits(t)'
    BY <2>1, <2>3 DEF StillWaits
  <2>6. \A s : Waiting(s)' = Waiting(s)
    BY <1>0, <2>1, <2>4, <2>5, HandlerWaiting
  <2>7. hpc' \notin {"timeout", "wake", "timedout"}
    BY <2>1, Zenon
  <2> QED BY <2>1, <2>6, <2>7, BalanceRests
<1> QED BY <1>0, <1>2, <1>3, <1>4, <1>5, <1>6, <1>7, <1>8, <1>9, <1>10, BalanceWake,
           BalanceTimeout, BalanceTimedout, BalanceSched DEF Handler

\* A negative count has a waiter: a post that finds the count negative goes through a
\* system call "because there are waiters" (sem.c:84).  The theorem is about programs
\* that never pass a timeout of zero to rt_sem_timedwait, which gives up without giving
\* the unit it has taken back.
THEOREM NegativeMeansWaitersHolds ==
  ASSUME 0 \notin Timeouts
  PROVE  Spec => []NegativeMeansWaiters
<1>1. SchedulerInv /\ BalanceInv /\ [Next]_vars => BalanceInv'
  <2>1. ASSUME SchedulerInv, BalanceInv, UNCHANGED vars PROVE BalanceInv'
    <3>1. UNCHANGED <<value, state, record, todo, pending_syscalls, pc, pushing, hpc, task,
                      sem, waiters>>
      BY <2>1 DEF vars, schedVars, semVars, stackVars, handlerVars, localVars, taskVars
    <3>2. \A s : Waiting(s)' = Waiting(s)
      BY <3>1, SameWaiting DEF StillWaits, InFlight, OnStack, AboutToPush, Blocked
    <3>3. \A s \in Sems : GivenBack(s)' => GivenBack(s)
      BY <3>1 DEF GivenBack
    <3> QED BY <2>1, <3>1, <3>2, <3>3, BalanceQuiet DEF SchedulerInv
  <2> QED BY <2>1, BalanceIsr, BalanceNewCall, BalanceContinue, BalanceHandler
          DEF Next
<1>2. SchedulerInv /\ BalanceInv => NegativeMeansWaiters
  <2> SUFFICES ASSUME SchedulerInv, BalanceInv, NEW s \in Sems, value[s] < 0
               PROVE  \E t \in Tasks : WaitsFor(t, s)
    BY DEF NegativeMeansWaiters
  <2>1. value[s] \in Int /\ Cardinality(Waiting(s)) \in Nat
    BY WaitingCounted, Zenon DEF SchedulerInv, TypeOK
  <2>2. Cardinality(Waiting(s)) > 0
    BY <2>1, SMTT(40) DEF BalanceInv
  <2>3. PICK t : t \in Waiting(s)
    BY <2>2, FS_EmptySet, SMTT(40)
  <2> QED BY <2>3, WaitingWaits DEF Waiting
<1> QED BY <1>1, <1>2, BalanceInit, SchedulerInvariant, PTL DEF Spec


=============================================================================
