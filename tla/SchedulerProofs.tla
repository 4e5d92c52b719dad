-------------------------- MODULE SchedulerProofs ---------------------------
(***************************************************************************)
(* Proofs that the kernel keeps its lists, its records and its scheduling  *)
(* decisions in order, for any number of tasks, semaphores and calls.      *)
(***************************************************************************)
EXTENDS KernelProperties, RtListProofs

\* The time limits of the provers include the time it takes to prepare an obligation,
\* which grows with the definitions and lemmas in scope.
USE ZenonT(40)

\* The record r is waiting for the handler, or a task is about to push it.
OnStack(r) == Contains(todo, r) \/ Contains(pending_syscalls, r)
AboutToPush(r) == \E t \in Tasks : pc[t] = "push" /\ pushing[t] = r
InFlight(r) == OnStack(r) \/ AboutToPush(r)

Runnable(t) == state[t] \in {"RUNNING", "READY"}

\* The stack: no record is on it twice, the records of interrupts are on it only while
\* they are marked as in use, and what is on it will be taken by the handler, which
\* has been pended or is about to be by the active task.
StackInv ==
  /\ IsInjective(todo) /\ IsInjective(pending_syscalls)
  /\ \A r \in Records : ~(Contains(todo, r) /\ Contains(pending_syscalls, r))
  /\ hpc \in {"idle", "take"} => todo = <<>>
  /\ OnStack(TickRecord) => tick_pending
  /\ \A s \in Sems : OnStack(s) => post_pending[s]
  /\ \/ pending_syscalls = <<>> \/ pend \/ hpc = "take"
     \/ hpc = "idle" /\ active \in Tasks /\ pc[active] = "pend"
  /\ hpc \notin {"idle", "take"} => \A t \in Tasks : ~Contains(pending_syscalls, t)

\* What a task is about to push is not on the stack and is its own record, or that of
\* a task it creates.
PushInv ==
  /\ \A t \in Tasks : pc[t] = "push" =>
       /\ ~OnStack(pushing[t]) /\ Runnable(t)
       /\ record[pushing[t]].syscall = "TASK_READY" <=> pushing[t] # t
  /\ \A t, u \in Tasks :
       pc[t] = "push" /\ pc[u] = "push" /\ pushing[t] = pushing[u] => t = u

\* A call names a semaphore where it needs one, until it has been carried out.
Asks(t) == record[t].syscall \in {"SEM_WAIT", "SEM_TIMEDWAIT", "SEM_POST"}

\* A task that has not been created, one that is being created, and one whose call the
\* handler has still to look at.
PhaseInv ==
  \A t \in Tasks :
    /\ pc[t] = "new" => /\ t # active /\ state[t] = "RUNNING" /\ ~InFlight(t)
                        /\ record[t].syscall = "TASK_READY"
    /\ InFlight(t) /\ record[t].syscall = "TASK_READY" =>
         t # active /\ pc[t] = "user" /\ state[t] \in {"RUNNING", "EXITED"}
    /\ InFlight(t) /\ Asks(t) => record[t].sem \in Sems
    /\ OnStack(t) /\ record[t].syscall # "TASK_READY" =>
         /\ t = active /\ Runnable(t) /\ ~Contains(ready_list, t)
         /\ pc[t] \in {"user", "pend"}

\* The record of a suspended task says what it is suspended for.
WaitInv ==
  \A t \in Tasks :
    /\ state[t] = "ASLEEP" => record[t].syscall \in {"SLEEP", "SLEEP_PERIODIC"}
    /\ state[t] = "BLOCKED" =>
         record[t].syscall = "SEM_WAIT" /\ record[t].sem \in Sems
    /\ state[t] = "BLOCKED_TIMEOUT" =>
         record[t].syscall = "SEM_TIMEDWAIT" /\ record[t].sem \in Sems

\* The handler's local variables.
HandlerInv ==
  /\ hpc = "post" => current \in Tasks \cup Sems
  /\ hpc = "load" => current # TickRecord
  /\ hpc \in {"tick", "expire", "timeout", "timedout"} => current = TickRecord
  /\ hpc \in {"post", "load", "wake", "timeout", "timedout"} => sem \in Sems
  /\ hpc \in {"timeout", "timedout"} => task # Null
  /\ hpc = "wake" /\ current = TickRecord => task # Null
  /\ task # Null => /\ hpc \in {"timeout", "wake", "timedout"} /\ current = TickRecord
                    /\ state[task] = "BLOCKED_TIMEOUT" /\ record[task].sem = sem

\* The ready list: ready tasks, in the order of their priorities.  The idle task is on
\* it unless it is the active task.
ReadyInv ==
  /\ IsInjective(ready_list) /\ Descending(Priority, ready_list)
  /\ \A t \in AllTasks : Contains(ready_list, t) => state[t] = "READY"
  /\ IF active = Idle THEN state[Idle] = "RUNNING" ELSE Contains(ready_list, Idle)

\* Unless the handler is at work, the active task can run and nothing goes before it.
RunInv ==
  hpc \in {"idle", "take"} =>
    /\ Runnable(active) /\ ~Contains(ready_list, active)
    /\ \A t \in AllTasks : Contains(ready_list, t) => Priority[t] <= Priority[active]

SleepListInv ==
  /\ IsInjective(sleep_list)
  /\ \A t \in Tasks :
       Contains(sleep_list, t) <=> state[t] \in {"ASLEEP", "BLOCKED_TIMEOUT"}

WaitListInv ==
  \A s \in Sems :
    /\ IsInjective(wait_list[s]) /\ num_waiters[s] = Len(wait_list[s])
    /\ \A t \in Tasks :
         Contains(wait_list[s], t) <=>
           /\ state[t] \in {"BLOCKED", "BLOCKED_TIMEOUT"}
           /\ record[t].sem = s /\ ~Leaving(t)

\* What the handler and the tasks rely on, all of it together: each part is needed to
\* show that a step preserves another.
SchedulerInv ==
  /\ TypeOK /\ StackInv /\ PushInv /\ PhaseInv /\ WaitInv /\ HandlerInv
  /\ ReadyInv /\ RunInv /\ SleepListInv /\ WaitListInv

-----------------------------------------------------------------------------
(* Lemmas about the operators the steps are made of.                       *)

\* Adding to a count leaves an integer.
LEMMA NewValueInt ==
  ASSUME NEW v \in Int, NEW n \in Nat, NEW max \in Nat
  PROVE  new_value(v, n, max) \in Int
  BY SMTT(40) DEF new_value

\* A tick is reduced to the width of unsigned long.
LEMMA ModType == ASSUME NEW x \in Int PROVE x % TickMod \in 0..TickMod-1
  BY TickAssumption, SMTT(40)

\* The ticks until w, seen from woken_tick, are a tick value.
LEMMA TicksToType ==
  ASSUME NEW w \in Int, woken_tick \in 0..TickMod-1
  PROVE  TicksTo(w) \in 0..TickMod-1
<1>1. w - woken_tick \in Int
  BY TickAssumption, SMTT(40)
<1> QED BY <1>1, ModType DEF TicksTo

\* insert_by_priority puts a task on a list once, behind the tasks of its priority.
LEMMA PriorityInsert ==
  ASSUME NEW S, NEW list \in Seq(S), IsInjective(list), NEW t \in S,
         ~Contains(list, t)
  PROVE  LET new == insert_by_priority(list, t)
         IN /\ new \in Seq(S) /\ IsInjective(new) /\ Len(new) = Len(list) + 1
            /\ \A x : Contains(new, x) <=> x = t \/ Contains(list, x)
  BY InsertedBy DEF insert_by_priority

\* A list in the order of priorities stays in it.
LEMMA PriorityOrder ==
  ASSUME NEW list \in Seq(AllTasks), Descending(Priority, list), NEW t \in AllTasks
  PROVE  Descending(Priority, insert_by_priority(list, t))
<1> DEFINE later == {u \in AllTasks : task_priority_greater_than(t, u)}
<1>1. Priority \in [AllTasks -> Int]
  BY PriorityAssumption, SMTT(40)
<1>2. \A x \in AllTasks : x \in later <=> Priority[t] > Priority[x]
  BY DEF task_priority_greater_than
<1> HIDE DEF later
<1>3. Descending(Priority, rt_list_insert_by(list, t, later))
  BY <1>1, <1>2, InsertedInOrder
<1> QED BY <1>3 DEF insert_by_priority, later

\* A task that is not on the ready list is made ready.
LEMMA MadeReady ==
  ASSUME TypeOK, ReadyInv, NEW t \in Tasks, state[t] # "READY", task_ready(t),
         active' = active
  PROVE  /\ state' = [state EXCEPT ![t] = "READY"]
         /\ state' \in [AllTasks -> TaskStates] /\ ready_list' \in Seq(AllTasks)
         /\ \A x : Contains(ready_list', x) <=> x = t \/ Contains(ready_list, x)
         /\ ReadyInv'
<1>1. t \in AllTasks /\ ~Contains(ready_list, t) /\ t # Idle
  BY TasksAssumption DEF ReadyInv, AllTasks
<1>2. state' = [state EXCEPT ![t] = "READY"] /\ state' \in [AllTasks -> TaskStates]
  BY <1>1 DEF task_ready, TypeOK, TaskStates
<1>3. /\ ready_list' \in Seq(AllTasks) /\ IsInjective(ready_list')
      /\ \A x : Contains(ready_list', x) <=> x = t \/ Contains(ready_list, x)
  BY <1>1, PriorityInsert DEF task_ready, ReadyInv, TypeOK
<1>4. Descending(Priority, ready_list')
  BY <1>1, PriorityOrder DEF task_ready, ReadyInv, TypeOK
<1>5. ReadyInv'
  BY <1>1, <1>2, <1>3, <1>4 DEF ReadyInv, TypeOK, AllTasks
<1> QED BY <1>2, <1>3, <1>5

\* A task that is not on the sleep list is put on it.
LEMMA PutToSleep ==
  ASSUME TypeOK, SleepListInv, NEW t \in Tasks, ~Contains(sleep_list, t),
         NEW w \in 0..TickMod-1, sleep_until(t, w)
  PROVE  /\ sleep_list' \in Seq(Tasks) /\ wake_tick' \in [Tasks -> 0..TickMod-1]
         /\ IsInjective(sleep_list')
         /\ \A x : Contains(sleep_list', x) <=> x = t \/ Contains(sleep_list, x)
<1> DEFINE later == {u \in Tasks : wake_tick_less_than(w, wake_tick[u])}
<1>1. wake_tick' \in [Tasks -> 0..TickMod-1]
  BY DEF sleep_until, TypeOK
<1>2. sleep_list' = rt_list_insert_by(sleep_list, t, later)
  BY DEF sleep_until
<1>3. sleep_list \in Seq(Tasks) /\ IsInjective(sleep_list)
  BY DEF TypeOK, SleepListInv
<1> HIDE DEF later
<1> QED BY <1>1, <1>2, <1>3, InsertedBy

\* A task leaves the sleep list, whether it is on it or not.
LEMMA TakenFromSleep ==
  ASSUME TypeOK, SleepListInv, NEW t \in Tasks, LeaveSleepList(t)
  PROVE  /\ sleep_list' \in Seq(Tasks) /\ IsInjective(sleep_list')
         /\ \A x : Contains(sleep_list', x) <=> x # t /\ Contains(sleep_list, x)
  BY Removed DEF LeaveSleepList, TypeOK, SleepListInv

-----------------------------------------------------------------------------
(* The stack of records and the tasks' progress through their calls.       *)

\* The record that the handler looks at next.
LEMMA NextRecord ==
  ASSUME TypeOK, StackInv, NEW syscall, Dispatch(syscall)
  PROVE  /\ Head(todo) \in Records /\ OnStack(Head(todo))
         /\ ~Contains(pending_syscalls, Head(todo))
         /\ todo' \in Seq(Records) /\ IsInjective(todo') /\ current' = Head(todo)
         /\ \A r : Contains(todo', r) <=> r # Head(todo) /\ Contains(todo, r)
         /\ syscall \notin {"TICK", "SEM_POST"} => Head(todo) \in Tasks
         /\ Head(todo) \in Tasks => record[Head(todo)].syscall = syscall
         /\ syscall = "SEM_POST" => Head(todo) \in Tasks \cup Sems
         /\ syscall = "TICK" => Head(todo) = TickRecord
<1>1. todo \in Seq(Records) /\ IsInjective(todo) /\ todo # <<>> /\ todo' = Tail(todo)
  BY DEF TypeOK, StackInv, Dispatch
<1>2. /\ Head(todo) \in Records /\ Contains(todo, Head(todo))
      /\ Tail(todo) \in Seq(Records) /\ IsInjective(Tail(todo))
      /\ \A r : Contains(Tail(todo), r) <=> r # Head(todo) /\ Contains(todo, r)
  BY <1>1, FrontAndRest
<1>3. SyscallOf(Head(todo)) = syscall /\ current' = Head(todo)
  BY DEF Dispatch
<1>4. \A t \in Tasks : record[t].syscall \in Syscalls
  BY DEF TypeOK, RecordType
<1>5. /\ syscall \notin {"TICK", "SEM_POST"} => Head(todo) \in Tasks
      /\ Head(todo) \in Tasks => record[Head(todo)].syscall = syscall
      /\ syscall = "SEM_POST" => Head(todo) \in Tasks \cup Sems
      /\ syscall = "TICK" => Head(todo) = TickRecord
  BY <1>2, <1>3, <1>4, TasksAssumption DEF SyscallOf, Records, Syscalls
<1>6. ~Contains(pending_syscalls, Head(todo)) /\ OnStack(Head(todo))
  BY <1>2 DEF StackInv, OnStack
<1> QED BY <1>1, <1>2, <1>3, <1>5, <1>6

\* A record on the stack is not about to be pushed.
LEMMA NotPushedTwice ==
  ASSUME PushInv, NEW r, OnStack(r)
  PROVE  ~AboutToPush(r)
  BY DEF PushInv, AboutToPush

\* The handler looks at the record of task t.  Whatever becomes of the task, its
\* record is no longer in flight.
LEMMA RecordTaken ==
  ASSUME TypeOK, StackInv, PushInv, PhaseInv, NEW syscall, Dispatch(syscall),
         NEW t \in Tasks, t = Head(todo),
         NEW st, state' = [state EXCEPT ![t] = st], hpc' \notin {"idle", "take"},
         \A x \in Tasks : Contains(ready_list', x) => x = t \/ Contains(ready_list, x),
         UNCHANGED <<active, record, tick_pending, post_pending, pending_syscalls,
                     pend, pc, pushing>>
  PROVE  StackInv' /\ PushInv' /\ PhaseInv'
<1>1. /\ OnStack(t) /\ ~Contains(pending_syscalls, t)
      /\ IsInjective(todo')
      /\ \A r : Contains(todo', r) <=> r # t /\ Contains(todo, r)
  BY NextRecord
<1>2. ~AboutToPush(t)
  BY <1>1, NotPushedTwice
<1>3. \A r : OnStack(r)' => r # t /\ OnStack(r)
  BY <1>1 DEF OnStack
<1>4. \A r : AboutToPush(r)' <=> AboutToPush(r)
  BY DEF AboutToPush
<1>5. \A r : InFlight(r)' => r # t /\ InFlight(r)
  BY <1>2, <1>3, <1>4 DEF InFlight
<1>6. pc[t] \in {"user", "pend"}
  BY <1>1 DEF PhaseInv, InFlight
<1>7. \A x \in Tasks : x # t => state'[x] = state[x]
  BY SMTT(40) DEF TypeOK
<1>8. hpc \notin {"idle", "take"}
  BY DEF Dispatch
<1>9. StackInv'
  BY <1>1, <1>3, <1>8 DEF StackInv, Records
<1>10. PushInv'
  BY <1>3, <1>6, <1>7 DEF PushInv, Runnable
<1>11. PhaseInv'
  <2> SUFFICES ASSUME NEW x \in Tasks
               PROVE  /\ pc[x] = "new" => /\ x # active /\ state'[x] = "RUNNING"
                                          /\ ~InFlight(x)' /\ record[x].syscall = "TASK_READY"
                      /\ InFlight(x)' /\ record[x].syscall = "TASK_READY" =>
                           /\ x # active /\ pc[x] = "user"
                           /\ state'[x] \in {"RUNNING", "EXITED"}
                      /\ InFlight(x)' /\ Asks(x) => record[x].sem \in Sems
                      /\ OnStack(x)' /\ record[x].syscall # "TASK_READY" =>
                           /\ x = active /\ state'[x] \in {"RUNNING", "READY"}
                           /\ ~Contains(ready_list', x) /\ pc[x] \in {"user", "pend"}
    BY DEF PhaseInv, Asks, Runnable
  <2>1. CASE x = t
    BY <2>1, <1>3, <1>5, <1>6
  <2>2. CASE x # t
    BY <2>2, <1>3, <1>5, <1>7 DEF PhaseInv, Runnable
  <2> QED BY <2>1, <2>2
<1> QED BY <1>9, <1>10, <1>11

Suspended == {"BLOCKED", "BLOCKED_TIMEOUT", "ASLEEP"}

\* A step of the handler that takes no record: it may wake suspended tasks and change
\* their records, which are not in flight.
LEMMA RecordsKept ==
  ASSUME TypeOK, StackInv, PushInv, PhaseInv,
         hpc \notin {"idle", "take"}, hpc' \notin {"idle", "take"},
         UNCHANGED <<active, todo, pending_syscalls, pend, tick_pending, post_pending,
                     pc, pushing>>,
         \A x \in Tasks :
           \/ state[x] \in Suspended /\ record'[x].syscall = record[x].syscall
           \/ /\ state'[x] = state[x] /\ record'[x] = record[x]
              /\ Contains(ready_list', x) => Contains(ready_list, x)
  PROVE  StackInv' /\ PushInv' /\ PhaseInv'
<1>1. \A r : (OnStack(r)' <=> OnStack(r)) /\ (AboutToPush(r)' <=> AboutToPush(r))
  BY DEF OnStack, AboutToPush
<1>2. \A r : InFlight(r)' <=> InFlight(r)
  BY <1>1 DEF InFlight
<1>3. ASSUME NEW x \in Tasks, state[x] \in Suspended
      PROVE  ~InFlight(x) /\ pc[x] \notin {"push", "new"}
  <2>1. pc[x] \notin {"push", "new"}
    BY <1>3 DEF PushInv, PhaseInv, Runnable, Suspended
  <2>2. ~OnStack(x)
    BY <1>3 DEF PhaseInv, Runnable, Suspended, InFlight
  <2>3. ASSUME NEW y \in Tasks, pc[y] = "push", pushing[y] = x
        PROVE  FALSE
    <3>1. y # x
      BY <2>1, <2>3
    <3>2. record[x].syscall = "TASK_READY"
      BY <2>3, <3>1 DEF PushInv
    <3>3. InFlight(x)
      BY <2>3 DEF InFlight, AboutToPush
    <3> QED BY <1>3, <3>2, <3>3 DEF PhaseInv, Suspended
  <2> QED BY <2>1, <2>2, <2>3 DEF InFlight, AboutToPush
<1>4. StackInv'
  BY <1>1 DEF StackInv
<1>5. PushInv'
  <2>1. \A x \in Tasks : record'[x].syscall = record[x].syscall
    OBVIOUS
  <2>2. \A x \in Tasks : pc[x] = "push" => state'[x] = state[x] /\ pushing[x] \in Tasks
    BY <1>3 DEF TypeOK
  <2> QED BY <1>1, <2>1, <2>2 DEF PushInv, Runnable
<1>6. PhaseInv'
  <2> SUFFICES ASSUME NEW x \in Tasks
               PROVE  /\ pc[x] = "new" => /\ x # active /\ state'[x] = "RUNNING"
                                          /\ ~InFlight(x)
                                          /\ record'[x].syscall = "TASK_READY"
                      /\ InFlight(x) /\ record'[x].syscall = "TASK_READY" =>
                           /\ x # active /\ pc[x] = "user"
                           /\ state'[x] \in {"RUNNING", "EXITED"}
                      /\ InFlight(x) /\ Asks(x)' => record'[x].sem \in Sems
                      /\ OnStack(x) /\ record'[x].syscall # "TASK_READY" =>
                           /\ x = active /\ state'[x] \in {"RUNNING", "READY"}
                           /\ ~Contains(ready_list', x) /\ pc[x] \in {"user", "pend"}
    BY <1>1, <1>2 DEF PhaseInv, Runnable
  <2>1. CASE state[x] \in Suspended
    BY <2>1, <1>3 DEF InFlight
  <2>2. CASE state[x] \notin Suspended
    BY <2>2 DEF PhaseInv, Runnable, Asks
  <2> QED BY <2>1, <2>2
<1> QED BY <1>4, <1>5, <1>6

\* The handler looks at a record of an interrupt, or one that only makes a post.
LEMMA InterruptRecordTaken ==
  ASSUME TypeOK, StackInv, PushInv, PhaseInv, NEW syscall, Dispatch(syscall),
         hpc' \notin {"idle", "take"},
         UNCHANGED <<active, state, ready_list, record, pending_syscalls, pend, pc,
                     pushing>>,
         tick_pending' = tick_pending \/ Head(todo) = TickRecord,
         \A s \in Sems : post_pending[s] => post_pending'[s] \/ s = Head(todo)
  PROVE  StackInv' /\ PushInv' /\ PhaseInv'
<1>1. /\ OnStack(Head(todo)) /\ ~Contains(pending_syscalls, Head(todo))
      /\ IsInjective(todo') /\ Head(todo) \in Records
      /\ \A r : Contains(todo', r) <=> r # Head(todo) /\ Contains(todo, r)
  BY NextRecord
<1>2. \A r : OnStack(r)' => r # Head(todo) /\ OnStack(r)
  BY <1>1 DEF OnStack
<1>3. \A r : AboutToPush(r)' <=> AboutToPush(r)
  BY DEF AboutToPush
<1>4. \A r : InFlight(r)' => InFlight(r)
  BY <1>2, <1>3 DEF InFlight
<1>5. hpc \notin {"idle", "take"}
  BY DEF Dispatch
<1>6. StackInv'
  BY <1>1, <1>2, <1>5 DEF StackInv, Records
<1>7. PushInv'
  BY <1>2 DEF PushInv, Runnable
<1>8. PhaseInv'
  BY <1>2, <1>4 DEF PhaseInv, Runnable, Asks
<1> QED BY <1>6, <1>7, <1>8

-----------------------------------------------------------------------------
(* Interrupts.                                                             *)

\* The invariant of everything that interrupts leave alone.
LEMMA SchedulingUntouched ==
  ASSUME WaitInv, HandlerInv, ReadyInv, RunInv, SleepListInv, WaitListInv,
         UNCHANGED <<active, state, ready_list, sleep_list, wait_list, num_waiters,
                     record, hpc, current, task, sem>>
  PROVE  WaitInv' /\ HandlerInv' /\ ReadyInv' /\ RunInv' /\ SleepListInv' /\ WaitListInv'
<1>1. WaitInv' /\ HandlerInv'
  BY DEF WaitInv, HandlerInv
<1>2. ReadyInv' /\ RunInv' /\ SleepListInv'
  BY DEF ReadyInv, RunInv, SleepListInv, Runnable
<1>3. WaitListInv'
  BY DEF WaitListInv, Leaving
<1> QED BY <1>1, <1>2, <1>3

\* An interrupt pushes its own record, which is marked as in use, or none.
LEMMA InterruptPushes ==
  ASSUME TypeOK, StackInv, PushInv, PhaseInv,
         UNCHANGED <<active, state, ready_list, record, todo, hpc, pc, pushing>>,
         tick_pending => tick_pending',
         \A s \in Sems : post_pending[s] => post_pending'[s],
         \/ UNCHANGED <<pending_syscalls, pend>>
         \/ \E r \in Sems \cup {TickRecord} :
              /\ IsrSyscall(r)
              /\ IF r = TickRecord THEN ~tick_pending /\ tick_pending'
                 ELSE ~post_pending[r] /\ post_pending'[r]
  PROVE  /\ StackInv' /\ PushInv' /\ PhaseInv'
         /\ pending_syscalls' \in Seq(Records) /\ pend' \in BOOLEAN
<1>1. CASE UNCHANGED <<pending_syscalls, pend>>
  <2>1. \A r : /\ OnStack(r)' <=> OnStack(r)
               /\ AboutToPush(r)' <=> AboutToPush(r)
               /\ InFlight(r)' <=> InFlight(r)
    BY <1>1 DEF OnStack, AboutToPush, InFlight
  <2>2. StackInv'
    BY <2>1, <1>1 DEF StackInv
  <2>3. PushInv'
    BY <2>1 DEF PushInv, Runnable
  <2>4. PhaseInv'
    BY <2>1 DEF PhaseInv, Runnable, Asks
  <2> QED BY <2>2, <2>3, <2>4, <1>1 DEF TypeOK
<1>2. ASSUME NEW r \in Sems \cup {TickRecord}, IsrSyscall(r),
             IF r = TickRecord THEN ~tick_pending /\ tick_pending'
             ELSE ~post_pending[r] /\ post_pending'[r]
      PROVE  /\ StackInv' /\ PushInv' /\ PhaseInv'
             /\ pending_syscalls' \in Seq(Records) /\ pend' \in BOOLEAN
  <2>1. r \in Records /\ r \notin Tasks
    BY TasksAssumption DEF Records
  <2>2. ~OnStack(r)
    BY <1>2 DEF StackInv
  <2>3. /\ pending_syscalls' \in Seq(Records) /\ pend' = TRUE
        /\ \A x : Contains(pending_syscalls', x) <=> x = r \/ Contains(pending_syscalls, x)
    BY <1>2, <2>1, ContainsPush DEF IsrSyscall, TypeOK
  <2>4. IsInjective(pending_syscalls')
    BY <1>2, <2>1, <2>2, InjectivePush DEF IsrSyscall, TypeOK, StackInv, OnStack
  <2>5. \A x : OnStack(x)' <=> x = r \/ OnStack(x)
    BY <2>3 DEF OnStack
  <2>6. \A x \in Tasks : /\ x # r
                         /\ AboutToPush(x)' <=> AboutToPush(x)
                         /\ InFlight(x)' <=> InFlight(x)
    BY <2>1, <2>5 DEF AboutToPush, InFlight
  <2>7. StackInv'
    <3>1. /\ OnStack(TickRecord)' => tick_pending'
          /\ \A s \in Sems : OnStack(s)' => post_pending'[s]
      BY <1>2, <2>5, TasksAssumption DEF StackInv
    <3>2. /\ IsInjective(todo')
          /\ \A x \in Records : ~(Contains(todo', x) /\ Contains(pending_syscalls', x))
      BY <2>2, <2>3 DEF StackInv, OnStack
    <3>3. hpc \notin {"idle", "take"} => \A t \in Tasks : ~Contains(pending_syscalls', t)
      BY <2>1, <2>3 DEF StackInv
    <3> QED BY <2>3, <2>4, <3>1, <3>2, <3>3 DEF StackInv
  <2>8. PushInv'
    BY <2>5, <2>6 DEF PushInv, Runnable, TypeOK
  <2>9. PhaseInv'
    BY <2>5, <2>6 DEF PhaseInv, Runnable, Asks
  <2> QED BY <2>3, <2>7, <2>8, <2>9
<1> QED BY <1>1, <1>2

\* Interrupts keep the invariant.
LEMMA SchedulerIsr == SchedulerInv /\ Isr => SchedulerInv'
<1> SUFFICES ASSUME SchedulerInv, Isr PROVE SchedulerInv'
  OBVIOUS
<1> USE DEF schedVars, sleepVars, handlerVars, localVars, taskVars, stackVars, postVars
<1>0. UNCHANGED <<active, state, ready_list, sleep_list, wake_tick, woken_tick, due,
                  num_waiters, wait_list, record, hpc, todo, current, task, sem,
                  waiters, advance, pc, pushing, last_wake, asked, calls>>
  BY DEF Isr
<1>1. WaitInv' /\ HandlerInv' /\ ReadyInv' /\ RunInv' /\ SleepListInv' /\ WaitListInv'
  BY <1>0, SchedulingUntouched DEF SchedulerInv
<1>t. TypeOK
  BY DEF SchedulerInv
<1>v. value \in [Sems -> Int] /\ credit \in [Sems -> Int] /\ isrs \in Nat
  BY <1>t DEF TypeOK
<1>2. CASE rt_tick_advance
  <2>1. /\ StackInv' /\ PushInv' /\ PhaseInv'
        /\ pending_syscalls' \in Seq(Records) /\ pend' \in BOOLEAN
    BY <1>0, <1>2, InterruptPushes DEF rt_tick_advance, SchedulerInv
  <2>2. tick' \in Nat /\ tick_pending' = TRUE
    BY <1>2, <1>t, SMTT(40) DEF rt_tick_advance, TypeOK
  <2>3. UNCHANGED <<value, credit, post_pending, post_n, isrs>>
    BY <1>2 DEF rt_tick_advance
  <2>4. TypeOK'
    BY <1>0, <1>t, <2>1, <2>2, <2>3 DEF TypeOK
  <2> QED BY <1>1, <2>1, <2>4 DEF SchedulerInv
<1>3. ASSUME NEW s \in Sems, isr_sem_trywait(s)
      PROVE  SchedulerInv'
  <2>1. UNCHANGED <<tick, tick_pending, post_pending, post_n, pending_syscalls, pend>>
    BY <1>3 DEF isr_sem_trywait
  <2>2. StackInv' /\ PushInv' /\ PhaseInv'
    BY <1>0, <2>1, InterruptPushes DEF SchedulerInv
  <2>3. value' \in [Sems -> Int] /\ credit' \in [Sems -> Int] /\ isrs' \in Nat
    BY <1>3, <1>v, SMTT(40) DEF isr_sem_trywait
  <2>4. TypeOK'
    BY <1>0, <1>t, <2>1, <2>3 DEF TypeOK
  <2> QED BY <1>1, <2>2, <2>4 DEF SchedulerInv
<1>4. ASSUME NEW s \in Sems, NEW n \in IsrPostCounts, isr_sem_post_n(s, n)
      PROVE  SchedulerInv'
  <2>n. n \in Nat /\ SemMax[s] \in Nat /\ value[s] \in Int
    BY <1>t, CallAssumption, SemAssumption DEF TypeOK
  <2>1. isrs' \in Nat /\ credit' \in [Sems -> Int] /\ UNCHANGED <<tick, tick_pending>>
    BY <1>4, <1>v, <2>n, SMTT(40) DEF isr_sem_post_n
  <2>2. CASE value[s] < 0 /\ ~post_pending[s]
    <3>1. /\ post_pending' = [post_pending EXCEPT ![s] = TRUE]
          /\ post_n' = [post_n EXCEPT ![s] = n]
          /\ IsrSyscall(s) /\ UNCHANGED value
      BY <1>4, <2>2 DEF isr_sem_post_n, sem_post_syscall, PostRecordInUse
    <3>2. /\ \A x \in Sems : post_pending[x] => post_pending'[x]
          /\ post_pending'[s] /\ s # TickRecord
      BY <3>1, <1>t, TasksAssumption DEF TypeOK
    <3>3. /\ StackInv' /\ PushInv' /\ PhaseInv'
          /\ pending_syscalls' \in Seq(Records) /\ pend' \in BOOLEAN
      BY <1>0, <2>1, <2>2, <3>1, <3>2, InterruptPushes DEF SchedulerInv
    <3>4. TypeOK'
      BY <1>0, <1>t, <2>1, <2>n, <3>1, <3>3 DEF TypeOK
    <3> QED BY <1>1, <3>3, <3>4 DEF SchedulerInv
  <2>3. CASE ~(value[s] < 0 /\ ~post_pending[s])
    <3>1. /\ UNCHANGED <<post_pending, post_n, pending_syscalls, pend>>
          /\ value' = [value EXCEPT ![s] = new_value(@, n, SemMax[s])]
      BY <1>4, <2>3 DEF isr_sem_post_n, sem_post_syscall, PostRecordInUse,
                        AddDirectly, rt_sem_add_n
    <3>2. StackInv' /\ PushInv' /\ PhaseInv'
      BY <1>0, <2>1, <3>1, InterruptPushes DEF SchedulerInv
    <3>3. value' \in [Sems -> Int]
      BY <3>1, <1>t, <2>n, NewValueInt DEF TypeOK
    <3>4. TypeOK'
      BY <1>0, <1>t, <2>1, <3>1, <3>3 DEF TypeOK
    <3> QED BY <1>1, <3>2, <3>4 DEF SchedulerInv
  <2> QED BY <2>2, <2>3
<1> QED BY <1>2, <1>3, <1>4 DEF Isr

-----------------------------------------------------------------------------
(* Calls of tasks.                                                         *)

\* While the active task has no record on the stack, the stack is empty; and nobody
\* creates the active task.
LEMMA StackEmpty ==
  ASSUME SchedulerInv, TaskLevel, NEW t \in Tasks, active = t, pc[t] \in {"user", "push"}
  PROVE  /\ todo = <<>> /\ pending_syscalls = <<>> /\ hpc = "idle" /\ task = Null
         /\ \A r : ~OnStack(r)
         /\ Runnable(t) /\ \A y \in Tasks : pc[y] = "push" /\ pushing[y] = t => y = t
<1>1. hpc = "idle" /\ todo = <<>> /\ task = Null /\ pending_syscalls = <<>>
  BY DEF SchedulerInv, TaskLevel, StackInv, HandlerInv
<1>2. \A r : ~OnStack(r)
  BY <1>1, ContainsEmpty DEF OnStack
<1>3. Runnable(t)
  BY <1>1 DEF SchedulerInv, RunInv
<1>4. ASSUME NEW y \in Tasks, pc[y] = "push", pushing[y] = t, y # t
      PROVE  FALSE
  <2>1. record[t].syscall = "TASK_READY"
    BY <1>4 DEF SchedulerInv, PushInv
  <2>2. InFlight(t)
    BY <1>4 DEF InFlight, AboutToPush
  <2> QED BY <2>1, <2>2 DEF SchedulerInv, PhaseInv
<1> QED BY <1>1, <1>2, <1>3, <1>4

\* What a call leaves alone as long as it does not touch the record of a suspended
\* task.
LEMMA ListsUntouched ==
  ASSUME WaitInv, HandlerInv, ReadyInv, RunInv, SleepListInv, WaitListInv, task = Null,
         UNCHANGED <<active, state, ready_list, sleep_list, wait_list, num_waiters,
                     hpc, current, task, sem>>,
         \A x \in Tasks : state[x] \in Suspended => record'[x] = record[x]
  PROVE  WaitInv' /\ HandlerInv' /\ ReadyInv' /\ RunInv' /\ SleepListInv' /\ WaitListInv'
<1>1. WaitInv'
  BY DEF WaitInv, Suspended
<1>2. HandlerInv'
  BY DEF HandlerInv
<1>3. ReadyInv' /\ RunInv' /\ SleepListInv'
  BY DEF ReadyInv, RunInv, SleepListInv, Runnable
<1>4. WaitListInv'
  BY DEF WaitListInv, Leaving, Suspended
<1> QED BY <1>1, <1>2, <1>3, <1>4

\* The parts of the invariant that a call can disturb.
CallPart == StackInv' /\ PushInv' /\ PhaseInv'

\* A call that ends without a system call.
LEMMA CallReturns ==
  ASSUME SchedulerInv, TaskLevel, NEW t \in Tasks, active = t, pc[t] = "user", Return,
         UNCHANGED <<active, state, ready_list, todo, pending_syscalls, hpc,
                     tick_pending, post_pending>>
  PROVE  CallPart
<1>1. todo = <<>> /\ pending_syscalls = <<>>
  BY StackEmpty
<1>2. UNCHANGED <<record, pc, pushing>>
  BY DEF Return
<1>3. \A r : /\ OnStack(r)' <=> OnStack(r)
             /\ AboutToPush(r)' <=> AboutToPush(r)
             /\ InFlight(r)' <=> InFlight(r)
  BY <1>2 DEF OnStack, AboutToPush, InFlight
<1>4. StackInv'
  BY <1>1, <1>3 DEF SchedulerInv, StackInv
<1>i. PushInv /\ PhaseInv
  BY DEF SchedulerInv
<1>5. PushInv'
  BY <1>2, <1>3, <1>i DEF PushInv, Runnable
<1>6. PhaseInv'
  BY <1>2, <1>3, <1>i DEF PhaseInv, Runnable, Asks
<1> QED BY <1>4, <1>5, <1>6 DEF CallPart

\* A call that goes on to push the caller's record.
LEMMA CallBegins ==
  ASSUME SchedulerInv, TaskLevel, NEW t \in Tasks, active = t, pc[t] = "user",
         NEW rec \in RecordType, rec.syscall # "TASK_READY",
         rec.syscall \in {"SEM_WAIT", "SEM_TIMEDWAIT", "SEM_POST"} => rec.sem \in Sems,
         NEW wake, SleepSyscall(t, rec, wake),
         UNCHANGED <<active, state, ready_list, todo, pending_syscalls, pend, hpc,
                     tick_pending, post_pending>>
  PROVE  /\ CallPart
         /\ \A x \in Tasks : state[x] \in Suspended => record'[x] = record[x]
<1>1. /\ todo = <<>> /\ pending_syscalls = <<>> /\ \A r : ~OnStack(r)
      /\ Runnable(t) /\ \A y \in Tasks : pc[y] = "push" /\ pushing[y] = t => y = t
  BY StackEmpty
<1>2. /\ record' = [record EXCEPT ![t] = rec] /\ pc' = [pc EXCEPT ![t] = "push"]
      /\ pushing' = [pushing EXCEPT ![t] = t]
  BY DEF SleepSyscall
<1>3. record \in [Tasks -> RecordType] /\ DOMAIN pc = Tasks /\ pushing \in [Tasks -> Tasks]
  BY DEF SchedulerInv, TypeOK
<1>4. /\ record'[t] = rec /\ pc'[t] = "push" /\ pushing'[t] = t
      /\ \A x \in Tasks : x # t => /\ record'[x] = record[x] /\ pc'[x] = pc[x]
                                   /\ pushing'[x] = pushing[x]
  BY <1>2, <1>3
<1>5. \A r : ~OnStack(r)'
  BY <1>1 DEF OnStack
<1>6. \A x \in Tasks : x # t => (InFlight(x)' <=> InFlight(x))
  BY <1>1, <1>4, <1>5 DEF InFlight, AboutToPush
<1>7. StackInv'
  BY <1>1, <1>5 DEF SchedulerInv, StackInv
<1>8. \A y \in Tasks : y # t /\ pc[y] = "push" => pushing[y] # t
  BY <1>1
<1>i. PushInv /\ PhaseInv
  BY DEF SchedulerInv
<1>p. \A x \in Tasks : pc'[x] = "push" =>
        x = t \/ (x # t /\ pc[x] = "push" /\ pushing'[x] = pushing[x] /\ pushing[x] # t)
  BY <1>4, <1>8
<1>9. PushInv'
  <2>1. ASSUME NEW x \in Tasks, pc'[x] = "push"
        PROVE  /\ ~OnStack(pushing[x])' /\ Runnable(x)'
               /\ record'[pushing'[x]].syscall = "TASK_READY" <=> pushing'[x] # x
    <3>1. CASE x = t
      BY <3>1, <1>1, <1>4, <1>5 DEF Runnable
    <3>2. CASE x # t
      <4>1. /\ pc[x] = "push" /\ pushing'[x] = pushing[x] /\ pushing[x] # t
            /\ pushing[x] \in Tasks
        BY <2>1, <3>2, <1>3, <1>p
      <4>2. record'[pushing[x]] = record[pushing[x]]
        BY <4>1, <1>4
      <4>3. /\ ~OnStack(pushing[x]) /\ Runnable(x)
            /\ record[pushing[x]].syscall = "TASK_READY" <=> pushing[x] # x
        BY <4>1, <1>i DEF PushInv
      <4>4. Runnable(x)'
        BY <4>3 DEF Runnable
      <4> QED BY <4>1, <4>2, <4>3, <4>4, <1>5
    <3> QED BY <3>1, <3>2
  <2>2. ASSUME NEW x \in Tasks, NEW y \in Tasks, pc'[x] = "push", pc'[y] = "push",
               pushing'[x] = pushing'[y]
        PROVE  x = y
    <3>1. \A a, b \in Tasks :
            pc[a] = "push" /\ pc[b] = "push" /\ pushing[a] = pushing[b] => a = b
      BY <1>i DEF PushInv
    <3>2. \A z \in Tasks : pc'[z] = "push" =>
            \/ z = t /\ pushing'[z] = t
            \/ pc[z] = "push" /\ pushing'[z] = pushing[z] /\ pushing[z] # t
      BY <1>4, <1>p
    <3> QED BY <2>2, <3>1, <3>2
  <2> QED BY <2>1, <2>2 DEF PushInv
<1>10. PhaseInv'
  BY <1>4, <1>5, <1>6, <1>i DEF PhaseInv, Asks
<1>11. \A x \in Tasks : state[x] \in Suspended => record'[x] = record[x]
  BY <1>1, <1>4 DEF Runnable, Suspended
<1> QED BY <1>7, <1>9, <1>10, <1>11 DEF CallPart

\* rt_task_init: the caller is about to push the record of the task it creates.
LEMMA CallCreates ==
  ASSUME SchedulerInv, NEW t \in Tasks, NEW u \in Tasks \ {t}, rt_task_init(t, u),
         UNCHANGED <<active, state, ready_list, todo, pending_syscalls, hpc,
                     tick_pending, post_pending>>
  PROVE  /\ CallPart
         /\ \A x \in Tasks : state[x] \in Suspended => record'[x] = record[x]
<1> DEFINE rec == Record("TASK_READY", Null, 0, 0)
<1>0. /\ TaskLevel /\ active = t /\ pc[t] = "user" /\ t # u /\ u \in Tasks
      /\ pc[u] = "new" \/ (state[u] = "EXITED" /\ record[u].syscall = "EXIT")
      /\ record' = [record EXCEPT ![u] = rec]
      /\ pc' = [pc EXCEPT ![t] = "push", ![u] = "user"]
      /\ pushing' = [pushing EXCEPT ![t] = u] /\ UNCHANGED pend
  BY DEF rt_task_init, Call
<1>1. /\ todo = <<>> /\ pending_syscalls = <<>> /\ \A r : ~OnStack(r)
      /\ Runnable(t) /\ \A y \in Tasks : pc[y] = "push" /\ pushing[y] = t => y = t
  BY <1>0, StackEmpty
<1>2. record \in [Tasks -> RecordType] /\ DOMAIN pc = Tasks /\ pushing \in [Tasks -> Tasks]
  BY DEF SchedulerInv, TypeOK
<1>3. rec.syscall = "TASK_READY"
  BY DEF Record
<1> HIDE DEF rec
<1>4. /\ record'[u] = rec /\ pc'[u] = "user" /\ pc'[t] = "push" /\ pushing'[t] = u
      /\ \A x \in Tasks : x # u => record'[x] = record[x]
      /\ \A x \in Tasks : x # u /\ x # t => pc'[x] = pc[x]
      /\ \A x \in Tasks : x # t => pushing'[x] = pushing[x]
  BY <1>0, <1>2
<1>5. state[u] \in {"RUNNING", "EXITED"} /\ u # active
  BY <1>0, <1>1 DEF SchedulerInv, PhaseInv, Runnable
<1>6. ASSUME NEW y \in Tasks, pc[y] = "push", pushing[y] = u PROVE FALSE
  <2>1. InFlight(u) /\ pc[u] # "new"
    BY <1>6 DEF InFlight, AboutToPush, SchedulerInv, PhaseInv
  <2>2. state[u] = "EXITED" /\ record[u].syscall = "EXIT"
    BY <1>0, <2>1
  <2> QED BY <1>6, <2>2 DEF SchedulerInv, PushInv, Runnable
<1>7. \A r : ~OnStack(r)'
  BY <1>0, <1>1 DEF OnStack
<1>8. \A x \in Tasks : x # u => (InFlight(x)' => InFlight(x))
  <2> SUFFICES ASSUME NEW x \in Tasks, x # u,
                      NEW y \in Tasks, pc'[y] = "push", pushing'[y] = x
               PROVE  pc[y] = "push" /\ pushing[y] = x
    BY <1>7 DEF InFlight, AboutToPush
  <2> QED BY <1>0, <1>4
<1>9. StackInv'
  BY <1>0, <1>1, <1>7 DEF SchedulerInv, StackInv
<1>i. PushInv /\ PhaseInv
  BY DEF SchedulerInv
<1>10. PushInv'
  <2>1. \A x \in Tasks : pc'[x] = "push" =>
          x = t \/ (x # u /\ pc[x] = "push" /\ pushing'[x] = pushing[x] /\ pushing[x] # u)
    BY <1>0, <1>4, <1>6
  <2>2. ASSUME NEW x \in Tasks, pc'[x] = "push"
        PROVE  /\ ~OnStack(pushing[x])' /\ Runnable(x)'
               /\ record'[pushing'[x]].syscall = "TASK_READY" <=> pushing'[x] # x
    <3>1. CASE x = t
      BY <3>1, <1>0, <1>1, <1>3, <1>4, <1>7, SMTT(40) DEF Runnable
    <3>2. CASE x # t
      <4>1. /\ pc[x] = "push" /\ pushing'[x] = pushing[x] /\ pushing[x] # u
            /\ pushing[x] \in Tasks
        BY <2>1, <2>2, <3>2, <1>2
      <4>2. record'[pushing[x]] = record[pushing[x]]
        BY <4>1, <1>4
      <4>3. /\ ~OnStack(pushing[x]) /\ Runnable(x)
            /\ record[pushing[x]].syscall = "TASK_READY" <=> pushing[x] # x
        BY <4>1, <1>i DEF PushInv
      <4>4. Runnable(x)'
        BY <4>3 DEF Runnable
      <4> QED BY <4>1, <4>2, <4>3, <4>4, <1>7
    <3> QED BY <3>1, <3>2
  <2>3. ASSUME NEW x \in Tasks, NEW y \in Tasks, pc'[x] = "push", pc'[y] = "push",
               pushing'[x] = pushing'[y]
        PROVE  x = y
    <3>1. \A a, b \in Tasks :
            pc[a] = "push" /\ pc[b] = "push" /\ pushing[a] = pushing[b] => a = b
      BY <1>i DEF PushInv
    <3> QED BY <2>1, <2>3, <3>1, <1>4
  <2> QED BY <2>2, <2>3 DEF PushInv
<1>11. PhaseInv'
  <2> SUFFICES ASSUME NEW x \in Tasks
               PROVE  /\ pc'[x] = "new" => /\ x # active /\ state[x] = "RUNNING"
                                           /\ ~InFlight(x)'
                                           /\ record'[x].syscall = "TASK_READY"
                      /\ InFlight(x)' /\ record'[x].syscall = "TASK_READY" =>
                           /\ x # active /\ pc'[x] = "user"
                           /\ state[x] \in {"RUNNING", "EXITED"}
                      /\ InFlight(x)' /\ Asks(x)' => record'[x].sem \in Sems
    BY <1>7 DEF PhaseInv
  <2>1. CASE x = u
    BY <2>1, <1>3, <1>4, <1>5 DEF Asks
  <2>2. CASE x = t
    <3>1. /\ InFlight(t) => record[t].syscall # "TASK_READY"
          /\ InFlight(t) /\ Asks(t) => record[t].sem \in Sems
      BY <1>0, <1>i DEF PhaseInv
    <3>2. pc'[t] # "new" /\ record'[t] = record[t] /\ (InFlight(t)' => InFlight(t))
      BY <1>0, <1>4, <1>8
    <3> QED BY <2>2, <3>1, <3>2 DEF Asks
  <2>3. CASE x # u /\ x # t
    BY <2>3, <1>4, <1>8, <1>i DEF PhaseInv, Asks
  <2> QED BY <2>1, <2>2, <2>3
<1>12. \A x \in Tasks : state[x] \in Suspended => record'[x] = record[x]
  BY <1>4, <1>5 DEF Suspended
<1> QED BY <1>9, <1>10, <1>11, <1>12 DEF CallPart

\* Records of the calls.
LEMMA RecordIs ==
  ASSUME NEW c \in Syscalls, NEW s \in Sems \cup {Null}, NEW n \in Nat,
         NEW last \in 0..TickMod-1
  PROVE  /\ Record(c, s, n, last) \in RecordType
         /\ Record(c, s, n, last).syscall = c /\ Record(c, s, n, last).sem = s
  BY DEF Record, RecordType

\* Calls of tasks.
LEMMA SchedulerNewCall == SchedulerInv /\ NewCall => SchedulerInv'
<1> SUFFICES ASSUME SchedulerInv, NewCall PROVE SchedulerInv'
  OBVIOUS
<1>0. UNCHANGED <<active, state, ready_list, sleep_list, woken_tick, due, tick,
                  tick_pending, num_waiters, wait_list, post_pending, post_n,
                  pending_syscalls, hpc, todo, current, task, sem, waiters, advance,
                  isrs>>
  BY DEF NewCall, schedVars, handlerVars, localVars, postVars
<1>t. TypeOK
  BY DEF SchedulerInv
<1>v. /\ value \in [Sems -> Int] /\ credit \in [Sems -> Int] /\ tick \in Nat
      /\ record \in [Tasks -> RecordType] /\ asked \in [Tasks -> Nat]
      /\ pc \in [Tasks -> {"new", "user", "push", "pend"}]
      /\ pushing \in [Tasks -> Tasks] /\ last_wake \in [Tasks -> Nat]
      /\ wake_tick \in [Tasks -> 0..TickMod-1] /\ pend \in BOOLEAN
      /\ calls \in [Tasks -> Nat]
  BY <1>t DEF TypeOK
<1> DEFINE Typed == /\ record' \in [Tasks -> RecordType] /\ asked' \in [Tasks -> Nat]
                    /\ pc' \in [Tasks -> {"new", "user", "push", "pend"}]
                    /\ pushing' \in [Tasks -> Tasks]
           Kept == \A x \in Tasks : state[x] \in Suspended => record'[x] = record[x]
           Counted == value' \in [Sems -> Int] /\ credit' \in [Sems -> Int]
<1>done. ASSUME NEW t \in Tasks, NEW c, Call(t, c), CallPart, Typed, Kept, Counted,
                wake_tick' \in [Tasks -> 0..TickMod-1], last_wake' \in [Tasks -> Nat],
                pend' \in BOOLEAN
         PROVE  SchedulerInv'
  <2>1. task = Null
    BY <1>done DEF Call, TaskLevel, SchedulerInv, HandlerInv
  <2>2. /\ WaitInv' /\ HandlerInv' /\ ReadyInv' /\ RunInv' /\ SleepListInv'
        /\ WaitListInv'
    BY <1>0, <1>done, <2>1, ListsUntouched DEF SchedulerInv
  <2>3. calls' \in [Tasks -> Nat]
    BY <1>done, <1>v, SMTT(40) DEF Call
  <2>4. TypeOK'
    BY <1>0, <1>t, <1>done, <2>3 DEF TypeOK
  <2> QED BY <1>done, <2>2, <2>4 DEF SchedulerInv, CallPart
<1>return. ASSUME NEW t \in Tasks, NEW c, Call(t, c), Return
           PROVE  CallPart /\ Typed /\ Kept
  <2>1. CallPart
    BY <1>0, <1>return, CallReturns DEF Call
  <2> QED BY <1>return, <1>v, <2>1 DEF Return
<1>begin. ASSUME NEW t \in Tasks, NEW c, Call(t, c), NEW sc \in Syscalls, NEW s, NEW n \in Nat,
                 NEW last \in 0..TickMod-1, NEW wake \in Nat, sc # "TASK_READY",
                 s \in Sems \/ (s = Null /\ sc \in {"EXIT", "SLEEP", "SLEEP_PERIODIC"}),
                 SleepSyscall(t, Record(sc, s, n, last), wake), pend' = pend
          PROVE  CallPart /\ Typed /\ Kept
  <2> DEFINE rec == Record(sc, s, n, last)
  <2>1. rec \in RecordType /\ rec.syscall = sc /\ rec.sem = s
    BY <1>begin, RecordIs, SMTT(40)
  <2>2. SleepSyscall(t, rec, wake)
    BY <1>begin
  <2> HIDE DEF rec
  <2>3. CallPart /\ Kept
    BY <1>0, <1>begin, <2>1, <2>2, CallBegins DEF Call
  <2>4. Typed
    BY <1>v, <1>begin, <2>1, <2>2, SMTT(40) DEF SleepSyscall
  <2> QED BY <2>3, <2>4
<1> HIDE DEF Typed, Kept
<1>take. ASSUME NEW s \in Sems, TakeUnit(s) PROVE Counted
  BY <1>take, <1>v, SMTT(40) DEF TakeUnit
<1>zero. 0 \in Nat /\ 0 \in 0..TickMod-1 /\ \A t \in Tasks : asked[t] \in Nat
  BY <1>v, TickAssumption, SMTT(40)
<1>1. ASSUME NEW t \in Tasks, rt_task_yield(t) PROVE SchedulerInv'
  <2>1. /\ Call(t, "yield") /\ Return /\ pend' = TRUE
        /\ UNCHANGED <<value, credit, wake_tick, last_wake>>
    BY <1>1 DEF rt_task_yield
  <2>2. CallPart /\ Typed /\ Kept
    BY <2>1, <1>return
  <2> QED BY <2>1, <2>2, <1>v, <1>done
<1>2. ASSUME NEW t \in Tasks, rt_task_exit(t) PROVE SchedulerInv'
  <2>1. /\ Call(t, "exit") /\ UNCHANGED <<value, credit, wake_tick, last_wake, pend>>
        /\ SleepSyscall(t, Record("EXIT", Null, 0, 0), asked[t])
    BY <1>2 DEF rt_task_exit, Syscall
  <2>2. CallPart /\ Typed /\ Kept
    BY <2>1, <1>begin, <1>zero DEF Syscalls
  <2> QED BY <2>1, <2>2, <1>v, <1>done
<1>3. ASSUME NEW t \in Tasks, NEW n \in SleepTicks, rt_sleep(t, n) PROVE SchedulerInv'
  <2>1. /\ Call(t, "sleep") /\ UNCHANGED <<value, credit, wake_tick, last_wake, pend>>
        /\ SleepSyscall(t, Record("SLEEP", Null, n, 0), tick + n)
    BY <1>3 DEF rt_sleep
  <2>2. n \in Nat /\ tick + n \in Nat
    BY <1>v, CallAssumption, TickAssumption, SMTT(40)
  <2>3. CallPart /\ Typed /\ Kept
    BY <2>1, <2>2, <1>begin, <1>zero DEF Syscalls
  <2> QED BY <2>1, <2>3, <1>v, <1>done
<1>4. ASSUME NEW t \in Tasks, NEW n \in Periods, rt_sleep_periodic(t, n)
      PROVE  SchedulerInv'
  <2>1. /\ Call(t, "sleep_periodic") /\ UNCHANGED <<value, credit, wake_tick, pend>>
        /\ SleepSyscall(t, Record("SLEEP_PERIODIC", Null, n, last_wake[t] % TickMod),
                        last_wake[t] + n)
        /\ last_wake' = [last_wake EXCEPT ![t] = @ + n]
    BY <1>4 DEF rt_sleep_periodic
  <2>2. n \in Nat /\ last_wake[t] \in Nat
    BY <1>v, CallAssumption, TickAssumption, SMTT(40)
  <2>3. /\ last_wake[t] + n \in Nat /\ last_wake' \in [Tasks -> Nat]
        /\ last_wake[t] % TickMod \in 0..TickMod-1
    BY <2>1, <2>2, <1>v, ModType, SMTT(40)
  <2>4. CallPart /\ Typed /\ Kept
    BY <2>1, <2>2, <2>3, <1>begin DEF Syscalls
  <2> QED BY <2>1, <2>3, <2>4, <1>v, <1>done
<1>5. ASSUME NEW t \in Tasks, NEW s \in Sems, rt_sem_wait(t, s) PROVE SchedulerInv'
  <2>1. /\ Call(t, "wait") /\ TakeUnit(s) /\ UNCHANGED <<wake_tick, last_wake, pend>>
        /\ Return \/ SleepSyscall(t, Record("SEM_WAIT", s, 0, 0), asked[t])
    BY <1>5 DEF rt_sem_wait, Syscall
  <2>2. CallPart /\ Typed /\ Kept
    BY <2>1, <1>return, <1>begin, <1>zero DEF Syscalls
  <2> QED BY <2>1, <2>2, <1>v, <1>take, <1>done
<1>6. ASSUME NEW t \in Tasks, NEW s \in Sems, rt_sem_trywait(t, s) PROVE SchedulerInv'
  <2>1. /\ Call(t, "trywait") /\ TakeUnit(s) /\ Return
        /\ UNCHANGED <<wake_tick, last_wake, pend>>
    BY <1>6 DEF rt_sem_trywait
  <2>2. CallPart /\ Typed /\ Kept
    BY <2>1, <1>return
  <2> QED BY <2>1, <2>2, <1>v, <1>take, <1>done
<1>7. ASSUME NEW t \in Tasks, NEW s \in Sems, NEW n \in Timeouts, rt_sem_timedwait(t, s, n)
      PROVE  SchedulerInv'
  <2>1. /\ Call(t, "timedwait") /\ TakeUnit(s) /\ UNCHANGED <<wake_tick, last_wake, pend>>
        /\ Return \/ SleepSyscall(t, Record("SEM_TIMEDWAIT", s, n, 0), tick + n)
    BY <1>7 DEF rt_sem_timedwait
  <2>2. n \in Nat /\ tick + n \in Nat
    BY <1>v, CallAssumption, TickAssumption, SMTT(40)
  <2>3. CallPart /\ Typed /\ Kept
    BY <2>1, <2>2, <1>return, <1>begin, <1>zero DEF Syscalls
  <2> QED BY <2>1, <2>3, <1>v, <1>take, <1>done
<1>8. ASSUME NEW t \in Tasks, NEW s \in Sems, NEW n \in PostCounts, rt_sem_post_n(t, s, n)
      PROVE  SchedulerInv'
  <2>1. /\ Call(t, "post") /\ UNCHANGED <<wake_tick, last_wake, pend>>
        /\ credit' = [credit EXCEPT ![s] = @ + n]
        /\ \/ SleepSyscall(t, Record("SEM_POST", s, n, 0), asked[t]) /\ UNCHANGED value
           \/ Return /\ rt_sem_add_n(s, n)
    BY <1>8 DEF rt_sem_post_n, Syscall
  <2>2. n \in Nat /\ SemMax[s] \in Nat
    BY CallAssumption, SemAssumption
  <2>3. Counted
    <3>1. new_value(value[s], n, SemMax[s]) \in Int
      BY <2>2, <1>v, NewValueInt
    <3> QED BY <2>1, <2>2, <3>1, <1>v, SMTT(40) DEF rt_sem_add_n
  <2>4. CallPart /\ Typed /\ Kept
    BY <2>1, <2>2, <1>return, <1>begin, <1>zero DEF Syscalls
  <2> QED BY <2>1, <2>3, <2>4, <1>v, <1>done
<1>9. ASSUME NEW t \in Tasks, NEW u \in Tasks \ {t}, rt_task_init(t, u)
      PROVE  SchedulerInv'
  <2>1. /\ Call(t, "init") /\ UNCHANGED <<value, credit, asked, last_wake, pend>>
        /\ record' = [record EXCEPT ![u] = Record("TASK_READY", Null, 0, 0)]
        /\ wake_tick' = [wake_tick EXCEPT ![u] = 0]
        /\ pc' = [pc EXCEPT ![t] = "push", ![u] = "user"]
        /\ pushing' = [pushing EXCEPT ![t] = u]
    BY <1>9 DEF rt_task_init
  <2>2. CallPart /\ Kept
    BY <1>0, <1>9, CallCreates DEF Kept
  <2>3. Record("TASK_READY", Null, 0, 0) \in RecordType
    BY <1>zero, RecordIs DEF Syscalls
  <2>4. Typed /\ wake_tick' \in [Tasks -> 0..TickMod-1]
    BY <2>1, <2>3, <1>v, <1>zero DEF Typed
  <2> QED BY <2>1, <2>2, <2>4, <1>v, <1>done
<1> QED BY <1>1, <1>2, <1>3, <1>4, <1>5, <1>6, <1>7, <1>8, <1>9 DEF NewCall

\* The active task pushes its record, or that of the task it creates, and pends the
\* handler.
LEMMA SchedulerContinue == SchedulerInv /\ Continue => SchedulerInv'
<1> SUFFICES ASSUME SchedulerInv, Continue PROVE SchedulerInv'
  OBVIOUS
<1>0. UNCHANGED <<active, state, ready_list, sleep_list, wake_tick, woken_tick, due,
                  tick, tick_pending, value, num_waiters, wait_list, credit,
                  post_pending, post_n, record, hpc, todo, current, task, sem, waiters,
                  advance, pushing, last_wake, asked, calls, isrs>>
  BY DEF Continue, schedVars, sleepVars, semVars, postVars, handlerVars, localVars
<1>1. WaitInv' /\ HandlerInv' /\ ReadyInv' /\ RunInv' /\ SleepListInv' /\ WaitListInv'
  BY <1>0, SchedulingUntouched DEF SchedulerInv
<1>t. TypeOK /\ StackInv /\ PushInv /\ PhaseInv
  BY DEF SchedulerInv
<1>2. ASSUME NEW t \in Tasks, rt_syscall(t)
      PROVE  SchedulerInv'
  <2> DEFINE r == pushing[t]
  <2>0. /\ TaskLevel /\ active = t /\ pc[t] = "push" /\ UNCHANGED pend
        /\ pending_syscalls' = <<r>> \o pending_syscalls
        /\ pc' = [pc EXCEPT ![t] = "pend"]
    BY <1>2 DEF rt_syscall
  <2>1. /\ todo = <<>> /\ pending_syscalls = <<>> /\ hpc = "idle" /\ \A x : ~OnStack(x)
    BY <2>0, StackEmpty
  <2>2. /\ r \in Tasks /\ r \in Records /\ pc'[t] = "pend"
        /\ \A x \in Tasks : x # t => pc'[x] = pc[x]
    BY <2>0, <1>t DEF TypeOK, Records
  <2>3. /\ Runnable(t) /\ (record[r].syscall = "TASK_READY" <=> r # t)
        /\ \A y \in Tasks : pc[y] = "push" /\ pushing[y] = r => y = t
        /\ InFlight(r)
    BY <2>0, <1>t DEF PushInv, InFlight, AboutToPush
  <2> HIDE DEF r
  <2>4. /\ pending_syscalls' \in Seq(Records) /\ IsInjective(pending_syscalls')
        /\ \A x : Contains(pending_syscalls', x) <=> x = r
    BY <2>0, <2>1, <2>2, <1>t, ContainsPush, InjectivePush, ContainsEmpty
       DEF TypeOK, SchedulerInv, StackInv
  <2>5. \A x : OnStack(x)' <=> x = r
    BY <2>1, <2>4, <1>0, ContainsEmpty DEF OnStack
  <2>6. \A x : InFlight(x)' => InFlight(x)
    BY <2>2, <2>3, <2>5, <1>0 DEF InFlight, AboutToPush
  <2>7. StackInv'
    <3>1. r \notin Sems /\ r # TickRecord
      BY <2>2, TasksAssumption
    <3> QED BY <1>0, <2>0, <2>1, <2>2, <2>4, <2>5, <3>1, <1>t, ContainsEmpty DEF StackInv
  <2>8. PushInv'
    <3>1. \A x \in Tasks : pc'[x] = "push" => x # t /\ pc[x] = "push" /\ pushing[x] # r
      BY <2>2, <2>3
    <3> QED BY <1>0, <1>t, <2>5, <3>1 DEF PushInv, Runnable
  <2>9. PhaseInv'
    <3>1. ~Contains(ready_list, t)
      BY <2>0, <2>1 DEF SchedulerInv, RunInv
    <3>2. \A x \in Tasks : pc'[x] = "new" => pc[x] = "new"
      BY <2>2
    <3>3. \A x \in Tasks : InFlight(x)' /\ record[x].syscall = "TASK_READY" => pc'[x] = "user"
      BY <2>0, <2>2, <2>6, <1>t DEF PhaseInv
    <3> QED BY <1>0, <2>0, <2>2, <2>3, <2>5, <2>6, <3>1, <3>2, <3>3, <1>t
            DEF PhaseInv, Runnable, Asks
  <2>10. TypeOK'
    <3>1. pc' \in [Tasks -> {"new", "user", "push", "pend"}]
      BY <1>t, <2>0 DEF TypeOK
    <3> QED BY <1>0, <1>t, <2>0, <2>4, <3>1 DEF TypeOK
  <2> QED BY <1>1, <2>7, <2>8, <2>9, <2>10 DEF SchedulerInv
<1>3. ASSUME NEW t \in Tasks, rt_syscall_pend(t)
      PROVE  SchedulerInv'
  <2>0. /\ active = t /\ pc[t] = "pend" /\ pend' = TRUE /\ UNCHANGED pending_syscalls
        /\ pc' = [pc EXCEPT ![t] = "user"]
    BY <1>3 DEF rt_syscall_pend
  <2>1. pc'[t] = "user" /\ \A x \in Tasks : x # t => pc'[x] = pc[x]
    BY <2>0, <1>t DEF TypeOK
  <2>2. \A x : /\ OnStack(x)' <=> OnStack(x)
               /\ AboutToPush(x)' <=> AboutToPush(x)
               /\ InFlight(x)' <=> InFlight(x)
    BY <2>0, <2>1, <1>0 DEF OnStack, AboutToPush, InFlight
  <2>3. StackInv'
    BY <1>0, <2>0, <2>2, <1>t DEF StackInv
  <2>4. PushInv'
    <3>1. \A x \in Tasks : pc'[x] = "push" => x # t /\ pc[x] = "push"
      BY <2>1
    <3> QED BY <1>0, <1>t, <2>2, <3>1 DEF PushInv, Runnable
  <2>5. PhaseInv'
    BY <1>0, <2>0, <2>1, <2>2, <1>t DEF PhaseInv, Runnable, Asks
  <2>6. TypeOK'
    <3>1. pc' \in [Tasks -> {"new", "user", "push", "pend"}]
      BY <1>t, <2>0 DEF TypeOK
    <3> QED BY <1>0, <1>t, <2>0, <3>1 DEF TypeOK
  <2> QED BY <1>1, <2>3, <2>4, <2>5, <2>6 DEF SchedulerInv
<1> QED BY <1>2, <1>3 DEF Continue

-----------------------------------------------------------------------------
(* The system call handler preserves SchedulerInv, and what follows from   *)
(* it about the lists, the records and the task that runs.                 *)

\* What no step of the handler changes.
NotHandlers == UNCHANGED <<tick, post_n, pc, pushing, last_wake, asked, calls, isrs>>

\* The system call interrupt begins.
LEMMA HandlerBegins ==
  SchedulerInv /\ rt_syscall_handler /\ NotHandlers => SchedulerInv'
<1> SUFFICES ASSUME SchedulerInv, rt_syscall_handler, NotHandlers PROVE SchedulerInv'
  OBVIOUS
<1>0. /\ UNCHANGED <<active, state, ready_list, sleep_list, wake_tick, woken_tick, due,
                     value, num_waiters, wait_list, credit, record, tick_pending,
                     post_pending, pending_syscalls, todo, current, task, sem, waiters,
                     advance>>
      /\ UNCHANGED <<tick, post_n, pc, pushing, last_wake, asked, calls, isrs>>
      /\ hpc = "idle" /\ hpc' = "take" /\ pend' = FALSE
  BY DEF rt_syscall_handler, NotHandlers, dataVars, schedVars, sleepVars, semVars, localVars
<1>1. \A r : /\ OnStack(r)' <=> OnStack(r)
             /\ AboutToPush(r)' <=> AboutToPush(r)
             /\ InFlight(r)' <=> InFlight(r)
  BY <1>0 DEF OnStack, AboutToPush, InFlight
<1>2. StackInv' /\ PushInv'
  BY <1>0, <1>1 DEF SchedulerInv, StackInv, PushInv, Runnable
<1>3. PhaseInv' /\ WaitInv'
  BY <1>0, <1>1 DEF SchedulerInv, PhaseInv, WaitInv, Runnable, Asks
<1>4. HandlerInv' /\ ReadyInv' /\ RunInv' /\ SleepListInv'
  BY <1>0 DEF SchedulerInv, HandlerInv, ReadyInv, RunInv, SleepListInv, Runnable
<1>5. WaitListInv'
  <2>1. \A t \in Tasks : ~Leaving(t) /\ ~Leaving(t)'
    BY <1>0, TasksAssumption DEF SchedulerInv, HandlerInv, Leaving
  <2> QED BY <1>0, <2>1 DEF SchedulerInv, WaitListInv
<1>6. TypeOK'
  BY <1>0 DEF SchedulerInv, TypeOK, HandlerSteps
<1> QED BY <1>2, <1>3, <1>4, <1>5, <1>6 DEF SchedulerInv

\* The handler takes the whole stack.
LEMMA HandlerTakes ==
  SchedulerInv /\ rt_syscall_run /\ NotHandlers => SchedulerInv'
<1> SUFFICES ASSUME SchedulerInv, rt_syscall_run, NotHandlers PROVE SchedulerInv'
  OBVIOUS
<1>0. /\ UNCHANGED <<active, state, ready_list, sleep_list, wake_tick, woken_tick, due,
                     value, num_waiters, wait_list, credit, record, tick_pending,
                     post_pending, pend, current, task, sem, waiters, advance>>
      /\ UNCHANGED <<tick, post_n, pc, pushing, last_wake, asked, calls, isrs>>
      /\ hpc = "take" /\ hpc' = "next"
      /\ todo' = pending_syscalls /\ pending_syscalls' = <<>>
  BY DEF rt_syscall_run, NotHandlers, dataVars, schedVars, sleepVars, semVars, localVars
<1>1. todo = <<>> /\ \A r : ~Contains(<<>>, r)
  BY <1>0, ContainsEmpty DEF SchedulerInv, StackInv
<1>2. \A r : /\ OnStack(r)' <=> OnStack(r)
             /\ AboutToPush(r)' <=> AboutToPush(r)
             /\ InFlight(r)' <=> InFlight(r)
  BY <1>0, <1>1 DEF OnStack, AboutToPush, InFlight
<1>3. StackInv' /\ PushInv'
  BY <1>0, <1>1, <1>2 DEF SchedulerInv, StackInv, PushInv, Runnable
<1>4. PhaseInv' /\ WaitInv'
  BY <1>0, <1>2 DEF SchedulerInv, PhaseInv, WaitInv, Runnable, Asks
<1>5. HandlerInv' /\ ReadyInv' /\ RunInv' /\ SleepListInv'
  BY <1>0 DEF SchedulerInv, HandlerInv, ReadyInv, RunInv, SleepListInv, Runnable
<1>6. WaitListInv'
  <2>1. \A t \in Tasks : ~Leaving(t) /\ ~Leaving(t)'
    BY <1>0, TasksAssumption DEF SchedulerInv, HandlerInv, Leaving
  <2> QED BY <1>0, <2>1 DEF SchedulerInv, WaitListInv
<1>7. TypeOK'
  <2>1. pending_syscalls' \in Seq(Records) /\ todo' \in Seq(Records)
    BY <1>0, SMTT(40) DEF SchedulerInv, TypeOK
  <2> QED BY <1>0, <2>1 DEF SchedulerInv, TypeOK, HandlerSteps
<1> QED BY <1>3, <1>4, <1>5, <1>6, <1>7 DEF SchedulerInv

-----------------------------------------------------------------------------
(* System calls of the active task.                                        *)

\* The handler is between two records.
LEMMA BetweenRecords ==
  ASSUME SchedulerInv, hpc = "next"
  PROVE  task = Null /\ \A t \in Tasks : ~Leaving(t)
  BY DEF SchedulerInv, HandlerInv, Leaving

\* A record of a call other than TASK_READY is that of the active task, which is on no
\* list.
LEMMA OwnRecord ==
  ASSUME SchedulerInv, NEW syscall, Dispatch(syscall),
         syscall \notin {"TICK", "SEM_POST", "TASK_READY"}
  PROVE  LET t == Head(todo)
         IN /\ t \in Tasks /\ record[t].syscall = syscall /\ OnStack(t)
            /\ Runnable(t) /\ ~Contains(ready_list, t) /\ ~Contains(sleep_list, t)
            /\ \A s \in Sems : ~Contains(wait_list[s], t)
            /\ Asks(t) => record[t].sem \in Sems
<1> DEFINE t == Head(todo)
<1>1. t \in Tasks /\ record[t].syscall = syscall /\ OnStack(t)
  BY NextRecord DEF SchedulerInv
<1> HIDE DEF t
<1>2. /\ Runnable(t) /\ ~Contains(ready_list, t)
      /\ Asks(t) => record[t].sem \in Sems
  BY <1>1 DEF SchedulerInv, PhaseInv, InFlight
<1>3. ~Contains(sleep_list, t) /\ \A s \in Sems : ~Contains(wait_list[s], t)
  BY <1>1, <1>2 DEF Runnable, SchedulerInv, SleepListInv, WaitListInv
<1> QED BY <1>1, <1>2, <1>3 DEF t

\* What the system calls of the active task have in common: its state changes and its
\* record is no longer in flight.
LEMMA CallTaken ==
  ASSUME SchedulerInv, NEW syscall, Dispatch(syscall),
         syscall \notin {"TICK", "SEM_POST", "TASK_READY"},
         NEW t, t = Head(todo), NEW st \in TaskStates, state' = [state EXCEPT ![t] = st],
         hpc' \in {"next", "wake"}, NotHandlers,
         UNCHANGED <<active, ready_list, record, tick_pending, post_pending,
                     pending_syscalls, pend, task>>
  PROVE  /\ StackInv' /\ PushInv' /\ PhaseInv' /\ ReadyInv' /\ RunInv'
         /\ todo' \in Seq(Records) /\ current' = t /\ current' \in Records
         /\ state' \in [AllTasks -> TaskStates] /\ state'[t] = st
         /\ \A x \in Tasks : x # t => state'[x] = state[x]
<1>1. /\ t \in Tasks /\ record[t].syscall = syscall /\ ~Contains(ready_list, t)
  BY OwnRecord
<1>2. state \in [AllTasks -> TaskStates] /\ t \in AllTasks /\ t # Idle
  BY <1>1, TasksAssumption DEF SchedulerInv, TypeOK, AllTasks
<1>3. /\ state' \in [AllTasks -> TaskStates] /\ state'[t] = st
      /\ \A x \in AllTasks : x # t => state'[x] = state[x]
  BY <1>2
<1>4. todo' \in Seq(Records) /\ current' = t /\ t \in Records
  BY NextRecord DEF SchedulerInv
<1>5. UNCHANGED <<pc, pushing>>
  BY DEF NotHandlers
<1>6. StackInv' /\ PushInv' /\ PhaseInv'
  BY <1>1, <1>5, RecordTaken DEF SchedulerInv
<1>7. ReadyInv'
  BY <1>1, <1>2, <1>3 DEF SchedulerInv, ReadyInv, AllTasks
<1>8. RunInv'
  BY DEF RunInv
<1> QED BY <1>1, <1>2, <1>3, <1>4, <1>6, <1>7, <1>8 DEF AllTasks

\* EXIT.
LEMMA HandlerExit == SchedulerInv /\ syscall_exit /\ NotHandlers => SchedulerInv'
<1> SUFFICES ASSUME SchedulerInv, syscall_exit, NotHandlers PROVE SchedulerInv'
  OBVIOUS
<1> DEFINE t == Head(todo)
<1>0. /\ Dispatch("EXIT") /\ state' = [state EXCEPT ![t] = "EXITED"] /\ hpc = "next"
      /\ UNCHANGED <<active, ready_list, sleep_list, wake_tick, woken_tick, due, value,
                     num_waiters, wait_list, credit, record, tick_pending, post_pending,
                     pending_syscalls, pend, hpc, task, sem, waiters, advance>>
      /\ UNCHANGED <<tick, post_n, pc, pushing, last_wake, asked, calls, isrs>>
  BY DEF syscall_exit, Dispatch, NotHandlers, sleepVars, semVars, sharedVars, stackVars
<1>1. t \in Tasks /\ Runnable(t)
  BY <1>0, OwnRecord
<1>2. /\ StackInv' /\ PushInv' /\ PhaseInv' /\ ReadyInv' /\ RunInv'
      /\ todo' \in Seq(Records) /\ current' = t /\ current' \in Records
      /\ state' \in [AllTasks -> TaskStates] /\ state'[t] = "EXITED"
      /\ \A x \in Tasks : x # t => state'[x] = state[x]
  BY <1>0, CallTaken DEF TaskStates
<1>3. task = Null /\ \A x \in Tasks : ~Leaving(x) /\ ~Leaving(x)'
  BY <1>0, BetweenRecords DEF Leaving
<1> HIDE DEF t
<1>4. WaitInv' /\ SleepListInv'
  BY <1>0, <1>1, <1>2 DEF SchedulerInv, WaitInv, SleepListInv, Runnable
<1>5. WaitListInv'
  BY <1>0, <1>1, <1>2, <1>3, SMTT(40) DEF SchedulerInv, WaitListInv, Runnable
<1>6. HandlerInv'
  BY <1>0, <1>3 DEF HandlerInv
<1>7. TypeOK'
  BY <1>0, <1>2 DEF SchedulerInv, TypeOK
<1> QED BY <1>2, <1>4, <1>5, <1>6, <1>7 DEF SchedulerInv

\* SLEEP and SLEEP_PERIODIC, when the task goes to sleep.
LEMMA CallSleeps ==
  ASSUME SchedulerInv, NEW syscall \in {"SLEEP", "SLEEP_PERIODIC"}, Dispatch(syscall),
         NotHandlers, NEW t, t = Head(todo), NEW w \in 0..TickMod-1,
         state' = [state EXCEPT ![t] = "ASLEEP"], sleep_until(t, w), due' \in [Tasks -> Nat],
         UNCHANGED <<active, ready_list, woken_tick, value, num_waiters, wait_list, credit,
                     record, tick_pending, post_pending, pending_syscalls, pend, hpc,
                     task, sem, waiters, advance>>
  PROVE  SchedulerInv'
<1>0. /\ UNCHANGED <<tick, post_n, pc, pushing, last_wake, asked, calls, isrs>>
      /\ hpc = "next"
  BY DEF NotHandlers, Dispatch
<1>1. /\ t \in Tasks /\ Runnable(t) /\ record[t].syscall = syscall
      /\ ~Contains(sleep_list, t)
  BY OwnRecord
<1>2. /\ StackInv' /\ PushInv' /\ PhaseInv' /\ ReadyInv' /\ RunInv'
      /\ todo' \in Seq(Records) /\ current' = t /\ current' \in Records
      /\ state' \in [AllTasks -> TaskStates] /\ state'[t] = "ASLEEP"
      /\ \A x \in Tasks : x # t => state'[x] = state[x]
  BY <1>0, CallTaken DEF TaskStates
<1>3. task = Null /\ \A x \in Tasks : ~Leaving(x) /\ ~Leaving(x)'
  BY <1>0, BetweenRecords DEF Leaving
<1>4. /\ sleep_list' \in Seq(Tasks) /\ wake_tick' \in [Tasks -> 0..TickMod-1]
      /\ IsInjective(sleep_list')
      /\ \A x : Contains(sleep_list', x) <=> x = t \/ Contains(sleep_list, x)
  BY <1>1, PutToSleep DEF SchedulerInv
<1>5. WaitInv'
  BY <1>1, <1>2 DEF SchedulerInv, WaitInv
<1>6. SleepListInv'
  BY <1>2, <1>4 DEF SchedulerInv, SleepListInv
<1>7. WaitListInv'
  BY <1>0, <1>1, <1>2, <1>3, SMTT(40) DEF SchedulerInv, WaitListInv, Runnable
<1>8. HandlerInv'
  BY <1>0, <1>3 DEF HandlerInv
<1>9. TypeOK'
  BY <1>0, <1>2, <1>4 DEF SchedulerInv, TypeOK
<1> QED BY <1>2, <1>5, <1>6, <1>7, <1>8, <1>9 DEF SchedulerInv

\* The argument of a call, as a tick.
LEMMA RecordTicks ==
  ASSUME TypeOK, NEW t \in Tasks
  PROVE  /\ record[t].n \in Nat /\ record[t].last \in 0..TickMod-1
         /\ (woken_tick + record[t].n) % TickMod \in 0..TickMod-1
         /\ (record[t].last + record[t].n) % TickMod \in 0..TickMod-1
         /\ tick + record[t].n \in Nat /\ asked[t] \in Nat
<1>1. /\ record[t].n \in Nat /\ record[t].last \in 0..TickMod-1
      /\ woken_tick \in 0..TickMod-1 /\ tick \in Nat /\ asked[t] \in Nat
  BY DEF TypeOK, RecordType
<1>2. woken_tick + record[t].n \in Int /\ record[t].last + record[t].n \in Int
  BY <1>1, TickAssumption, SMTT(40)
<1> QED BY <1>1, <1>2, ModType, SMTT(40)

\* SLEEP.
LEMMA HandlerSleep == SchedulerInv /\ syscall_sleep /\ NotHandlers => SchedulerInv'
<1> SUFFICES ASSUME SchedulerInv, syscall_sleep, NotHandlers PROVE SchedulerInv'
  OBVIOUS
<1> DEFINE t == Head(todo)
           w == (woken_tick + record[t].n) % TickMod
<1>0. /\ Dispatch("SLEEP") /\ state' = [state EXCEPT ![t] = "ASLEEP"] /\ sleep_until(t, w)
      /\ due' = [due EXCEPT ![t] = tick + record[t].n]
      /\ UNCHANGED <<active, ready_list, woken_tick, value, num_waiters, wait_list, credit,
                     record, tick_pending, post_pending, pending_syscalls, pend, hpc,
                     task, sem, waiters, advance>>
  BY DEF syscall_sleep, semVars, sharedVars, stackVars
<1>1. t \in Tasks
  BY <1>0, OwnRecord
<1>2. w \in 0..TickMod-1 /\ tick + record[t].n \in Nat
  BY <1>1, RecordTicks DEF SchedulerInv
<1>3. due' \in [Tasks -> Nat]
  BY <1>0, <1>2 DEF SchedulerInv, TypeOK
<1> HIDE DEF w
<1> QED BY <1>0, <1>2, <1>3, CallSleeps

\* SLEEP_PERIODIC: the task goes on if its wake tick has passed.
LEMMA HandlerSleepPeriodic ==
  SchedulerInv /\ syscall_sleep_periodic /\ NotHandlers => SchedulerInv'
<1> SUFFICES ASSUME SchedulerInv, syscall_sleep_periodic, NotHandlers PROVE SchedulerInv'
  OBVIOUS
<1> DEFINE t == Head(todo)
           w == (record[t].last + record[t].n) % TickMod
           early == (woken_tick - record[t].last) % TickMod < record[t].n
           d == IF tick < asked[t] - record[t].n + TickMod
                THEN asked[t] ELSE tick + record[t].n
<1>0. /\ Dispatch("SLEEP_PERIODIC") /\ hpc = "next"
      /\ UNCHANGED <<active, ready_list, woken_tick, value, num_waiters, wait_list, credit,
                     record, tick_pending, post_pending, pending_syscalls, pend, hpc,
                     task, sem, waiters, advance>>
      /\ UNCHANGED <<tick, post_n, pc, pushing, last_wake, asked, calls, isrs>>
  BY DEF syscall_sleep_periodic, Dispatch, NotHandlers, semVars, sharedVars, stackVars
<1>1. t \in Tasks /\ Runnable(t)
  BY <1>0, OwnRecord
<1>2. w \in 0..TickMod-1 /\ d \in Nat
  BY <1>1, RecordTicks DEF SchedulerInv
<1>3. CASE early
  <2>1. /\ state' = [state EXCEPT ![t] = "ASLEEP"] /\ sleep_until(t, w)
        /\ due' = [due EXCEPT ![t] = d]
    BY <1>3 DEF syscall_sleep_periodic
  <2>2. due' \in [Tasks -> Nat]
    BY <1>2, <2>1 DEF SchedulerInv, TypeOK
  <2> HIDE DEF w, d, early
  <2> QED BY <1>0, <1>2, <2>1, <2>2, CallSleeps
<1>4. CASE ~early
  <2>1. UNCHANGED <<state, sleep_list, wake_tick, due>>
    BY <1>4 DEF syscall_sleep_periodic
  <2> HIDE DEF w, d, early
  <2>2. /\ state[t] \in TaskStates /\ state' = [state EXCEPT ![t] = state[t]]
    BY <1>1, <2>1 DEF SchedulerInv, TypeOK, AllTasks
  <2>3. /\ StackInv' /\ PushInv' /\ PhaseInv' /\ ReadyInv' /\ RunInv'
        /\ todo' \in Seq(Records) /\ current' = t /\ current' \in Records
    BY <1>0, <2>2, CallTaken
  <2>4. task = Null /\ \A x \in Tasks : ~Leaving(x) /\ ~Leaving(x)'
    BY <1>0, BetweenRecords DEF Leaving
  <2>5. WaitInv' /\ SleepListInv' /\ WaitListInv'
    BY <1>0, <2>1, <2>4 DEF SchedulerInv, WaitInv, SleepListInv, WaitListInv
  <2>6. HandlerInv'
    BY <1>0, <2>4 DEF HandlerInv
  <2>7. TypeOK'
    BY <1>0, <2>1, <2>3 DEF SchedulerInv, TypeOK
  <2> QED BY <2>3, <2>5, <2>6, <2>7 DEF SchedulerInv
<1> QED BY <1>3, <1>4

\* A task joins a wait list it is not on.
LEMMA WaiterJoins ==
  ASSUME TypeOK, WaitListInv, NEW t \in Tasks, NEW s \in Sems,
         \A x \in Sems : ~Contains(wait_list[x], t), JoinWaiters(t, s)
  PROVE  /\ wait_list' \in [Sems -> Seq(Tasks)] /\ num_waiters' \in [Sems -> Int]
         /\ \A x \in Sems : IsInjective(wait_list'[x]) /\ num_waiters'[x] = Len(wait_list'[x])
         /\ \A x \in Sems : \A y : Contains(wait_list'[x], y) <=>
              (y = t /\ x = s) \/ Contains(wait_list[x], y)
<1> DEFINE new == insert_by_priority(wait_list[s], t)
<1>0. /\ wait_list \in [Sems -> Seq(Tasks)] /\ num_waiters \in [Sems -> Int]
      /\ \A x \in Sems : IsInjective(wait_list[x]) /\ num_waiters[x] = Len(wait_list[x])
  BY DEF TypeOK, WaitListInv
<1>1. /\ new \in Seq(Tasks) /\ IsInjective(new) /\ Len(new) = Len(wait_list[s]) + 1
      /\ \A x : Contains(new, x) <=> x = t \/ Contains(wait_list[s], x)
  BY <1>0, PriorityInsert
<1>2. /\ wait_list' = [wait_list EXCEPT ![s] = new]
      /\ num_waiters' = [num_waiters EXCEPT ![s] = @ + 1]
  BY DEF JoinWaiters
<1> HIDE DEF new
<1>3. wait_list' \in [Sems -> Seq(Tasks)] /\ num_waiters' \in [Sems -> Int]
  BY <1>0, <1>1, <1>2, SMTT(40)
<1>4. /\ wait_list'[s] = new /\ num_waiters'[s] = num_waiters[s] + 1
      /\ \A x \in Sems : x # s => /\ wait_list'[x] = wait_list[x]
                                  /\ num_waiters'[x] = num_waiters[x]
  BY <1>0, <1>2
<1> QED BY <1>0, <1>1, <1>3, <1>4

\* The first statement of wake_sem_waiters.
LEMMA WakesEvaluated ==
  ASSUME TypeOK, NEW s \in Sems, EvaluateWakes(s)
  PROVE  sem' = s /\ hpc' = "wake" /\ waiters' \in Nat
<1>1. value[s] \in Int
  BY DEF TypeOK
<1> QED BY <1>1, SMTT(40) DEF EvaluateWakes

\* SEM_WAIT and SEM_TIMEDWAIT: the task joins the wait list, and if it is to wait for
\* a limited time the sleep list too.
LEMMA CallBlocks ==
  ASSUME SchedulerInv, NEW syscall, Dispatch(syscall), NotHandlers, NEW t, t = Head(todo),
         NEW st, state' = [state EXCEPT ![t] = st],
         \/ syscall = "SEM_WAIT" /\ st = "BLOCKED" /\ UNCHANGED <<sleep_list, wake_tick>>
         \/ /\ syscall = "SEM_TIMEDWAIT" /\ st = "BLOCKED_TIMEOUT"
            /\ \E w \in 0..TickMod-1 : sleep_until(t, w),
         JoinWaiters(t, record[t].sem), EvaluateWakes(record[t].sem),
         due' \in [Tasks -> Nat],
         UNCHANGED <<active, ready_list, woken_tick, value, credit, record,
                     tick_pending, post_pending, pending_syscalls, pend, task, advance>>
  PROVE  SchedulerInv'
<1> DEFINE s == record[t].sem
<1>0. /\ UNCHANGED <<tick, post_n, pc, pushing, last_wake, asked, calls, isrs>>
      /\ hpc = "next" /\ syscall \in {"SEM_WAIT", "SEM_TIMEDWAIT"}
      /\ st \in {"BLOCKED", "BLOCKED_TIMEOUT"} /\ st \in TaskStates
  BY DEF NotHandlers, Dispatch, TaskStates
<1>1. /\ t \in Tasks /\ Runnable(t) /\ record[t].syscall = syscall
      /\ ~Contains(sleep_list, t) /\ \A x \in Sems : ~Contains(wait_list[x], t)
      /\ s \in Sems
  BY <1>0, OwnRecord DEF Asks
<1>2. sem' = s /\ hpc' = "wake" /\ waiters' \in Nat
  BY <1>1, WakesEvaluated DEF SchedulerInv
<1>3. /\ StackInv' /\ PushInv' /\ PhaseInv' /\ ReadyInv' /\ RunInv'
      /\ todo' \in Seq(Records) /\ current' = t /\ current' \in Records
      /\ state' \in [AllTasks -> TaskStates] /\ state'[t] = st
      /\ \A x \in Tasks : x # t => state'[x] = state[x]
  <2>1. syscall \notin {"TICK", "SEM_POST", "TASK_READY"} /\ hpc' \in {"next", "wake"}
    BY <1>0, <1>2
  <2>2. UNCHANGED <<active, ready_list, record, tick_pending, post_pending,
                    pending_syscalls, pend, task>>
    OBVIOUS
  <2> QED BY <1>0, <2>1, <2>2, CallTaken DEF TaskStates
<1>4. task = Null /\ \A x \in Tasks : ~Leaving(x) /\ ~Leaving(x)'
  BY <1>0, BetweenRecords, TasksAssumption DEF Leaving
<1>5. /\ wait_list' \in [Sems -> Seq(Tasks)] /\ num_waiters' \in [Sems -> Int]
      /\ \A x \in Sems : IsInjective(wait_list'[x]) /\ num_waiters'[x] = Len(wait_list'[x])
      /\ \A x \in Sems : \A y : Contains(wait_list'[x], y) <=>
           (y = t /\ x = s) \/ Contains(wait_list[x], y)
  BY <1>1, WaiterJoins DEF SchedulerInv
<1>6. /\ sleep_list' \in Seq(Tasks) /\ wake_tick' \in [Tasks -> 0..TickMod-1]
      /\ IsInjective(sleep_list')
      /\ \A x : Contains(sleep_list', x) <=>
           (x = t /\ st = "BLOCKED_TIMEOUT") \/ Contains(sleep_list, x)
  <2>1. CASE st = "BLOCKED"
    BY <2>1 DEF SchedulerInv, TypeOK, SleepListInv
  <2>2. CASE st = "BLOCKED_TIMEOUT"
    BY <2>2, <1>1, PutToSleep DEF SchedulerInv
  <2> QED BY <2>1, <2>2, <1>0
<1>7. WaitInv'
  BY <1>0, <1>1, <1>3 DEF SchedulerInv, WaitInv
<1> HIDE DEF s
<1>8. SleepListInv'
  BY <1>0, <1>1, <1>3, <1>6 DEF SchedulerInv, SleepListInv
<1>9. WaitListInv'
  <2>1. \A x \in Sems, y \in Tasks :
          Contains(wait_list'[x], y) <=>
            state'[y] \in {"BLOCKED", "BLOCKED_TIMEOUT"} /\ record[y].sem = x
    BY <1>0, <1>1, <1>3, <1>4, <1>5, SMTT(40) DEF SchedulerInv, WaitListInv, s
  <2> QED BY <1>4, <1>5, <2>1 DEF WaitListInv
<1>10. HandlerInv'
  BY <1>1, <1>2, <1>3, <1>4, TasksAssumption DEF HandlerInv
<1>11. TypeOK'
  BY <1>0, <1>1, <1>2, <1>3, <1>5, <1>6 DEF SchedulerInv, TypeOK, HandlerSteps
<1> QED BY <1>3, <1>7, <1>8, <1>9, <1>10, <1>11 DEF SchedulerInv

\* SEM_WAIT.
LEMMA HandlerSemWait == SchedulerInv /\ syscall_sem_wait /\ NotHandlers => SchedulerInv'
<1> SUFFICES ASSUME SchedulerInv, syscall_sem_wait, NotHandlers PROVE SchedulerInv'
  OBVIOUS
<1> DEFINE t == Head(todo)
<1>0. /\ Dispatch("SEM_WAIT") /\ state' = [state EXCEPT ![t] = "BLOCKED"]
      /\ JoinWaiters(t, record[t].sem) /\ EvaluateWakes(record[t].sem)
      /\ UNCHANGED <<active, ready_list, sleep_list, wake_tick, woken_tick, due, value,
                     credit, record, tick_pending, post_pending, pending_syscalls, pend,
                     task, advance>>
  BY DEF syscall_sem_wait, sleepVars, sharedVars, stackVars
<1>1. due' \in [Tasks -> Nat]
  BY <1>0 DEF SchedulerInv, TypeOK
<1> QED BY <1>0, <1>1, CallBlocks

\* SEM_TIMEDWAIT.
LEMMA HandlerSemTimedwait ==
  SchedulerInv /\ syscall_sem_timedwait /\ NotHandlers => SchedulerInv'
<1> SUFFICES ASSUME SchedulerInv, syscall_sem_timedwait, NotHandlers PROVE SchedulerInv'
  OBVIOUS
<1> DEFINE t == Head(todo)
           w == (woken_tick + record[t].n) % TickMod
<1>0. /\ Dispatch("SEM_TIMEDWAIT") /\ state' = [state EXCEPT ![t] = "BLOCKED_TIMEOUT"]
      /\ JoinWaiters(t, record[t].sem) /\ EvaluateWakes(record[t].sem)
      /\ sleep_until(t, w) /\ due' = [due EXCEPT ![t] = tick + record[t].n]
      /\ UNCHANGED <<active, ready_list, woken_tick, value, credit, record, tick_pending,
                     post_pending, pending_syscalls, pend, task, advance>>
  BY DEF syscall_sem_timedwait, sharedVars, stackVars
<1>1. t \in Tasks
  BY <1>0, OwnRecord
<1>2. w \in 0..TickMod-1 /\ tick + record[t].n \in Nat
  BY <1>1, RecordTicks DEF SchedulerInv
<1>3. due' \in [Tasks -> Nat]
  BY <1>0, <1>2 DEF SchedulerInv, TypeOK
<1> HIDE DEF w
<1>4. \E x \in 0..TickMod-1 : sleep_until(t, x)
  BY <1>0, <1>2
<1> QED BY <1>0, <1>3, <1>4, CallBlocks

-----------------------------------------------------------------------------
(* The other records.                                                      *)

\* TASK_READY: the new task is on no list, and is made ready.
LEMMA HandlerTaskReady ==
  SchedulerInv /\ syscall_task_ready /\ NotHandlers => SchedulerInv'
<1> SUFFICES ASSUME SchedulerInv, syscall_task_ready, NotHandlers PROVE SchedulerInv'
  OBVIOUS
<1> DEFINE t == Head(todo)
<1>0. /\ Dispatch("TASK_READY") /\ task_ready(t) /\ hpc = "next"
      /\ UNCHANGED <<active, sleep_list, wake_tick, woken_tick, due, value, num_waiters,
                     wait_list, credit, record, tick_pending, post_pending,
                     pending_syscalls, pend, hpc, task, sem, waiters, advance>>
      /\ UNCHANGED <<tick, post_n, pc, pushing, last_wake, asked, calls, isrs>>
  BY DEF syscall_task_ready, Dispatch, NotHandlers, sleepVars, semVars, sharedVars, stackVars
<1>1. /\ t \in Tasks /\ record[t].syscall = "TASK_READY" /\ OnStack(t) /\ t \in Records
      /\ todo' \in Seq(Records) /\ current' = t
  BY <1>0, NextRecord, SMTT(40) DEF SchedulerInv
<1>2. state[t] \in {"RUNNING", "EXITED"}
  BY <1>1 DEF SchedulerInv, PhaseInv, InFlight
<1>3. /\ state' = [state EXCEPT ![t] = "READY"]
      /\ state' \in [AllTasks -> TaskStates] /\ ready_list' \in Seq(AllTasks)
      /\ \A x : Contains(ready_list', x) <=> x = t \/ Contains(ready_list, x)
      /\ ReadyInv'
  BY <1>0, <1>1, <1>2, MadeReady DEF SchedulerInv
<1>4. StackInv' /\ PushInv' /\ PhaseInv'
  BY <1>0, <1>1, <1>3, RecordTaken DEF SchedulerInv
<1>5. task = Null /\ \A x \in Tasks : ~Leaving(x) /\ ~Leaving(x)'
  BY <1>0, BetweenRecords DEF Leaving
<1>6. state'[t] = "READY" /\ \A x \in Tasks : x # t => state'[x] = state[x]
  BY <1>1, <1>3 DEF SchedulerInv, TypeOK, AllTasks
<1> HIDE DEF t
<1>7. WaitInv' /\ SleepListInv'
  BY <1>0, <1>1, <1>2, <1>6 DEF SchedulerInv, WaitInv, SleepListInv
<1>8. WaitListInv'
  BY <1>0, <1>2, <1>5, <1>6 DEF SchedulerInv, WaitListInv
<1>9. HandlerInv' /\ RunInv'
  BY <1>0, <1>5 DEF HandlerInv, RunInv
<1>10. TypeOK'
  BY <1>0, <1>1, <1>3 DEF SchedulerInv, TypeOK
<1> QED BY <1>3, <1>4, <1>7, <1>8, <1>9, <1>10 DEF SchedulerInv

\* SEM_POST and TICK: the record may be used again from now on.
LEMMA HandlerSemPost == SchedulerInv /\ syscall_sem_post /\ NotHandlers => SchedulerInv'
<1> SUFFICES ASSUME SchedulerInv, syscall_sem_post, NotHandlers PROVE SchedulerInv'
  OBVIOUS
<1> DEFINE r == Head(todo)
<1>0. /\ Dispatch("SEM_POST") /\ hpc = "next" /\ hpc' = "post" /\ sem' = SemOf(r)
      /\ post_pending' = [s \in Sems |-> post_pending[s] /\ s # r]
      /\ UNCHANGED <<active, state, ready_list, sleep_list, wake_tick, woken_tick, due,
                     value, num_waiters, wait_list, credit, record, tick_pending,
                     pending_syscalls, pend, task, waiters, advance>>
      /\ UNCHANGED <<tick, post_n, pc, pushing, last_wake, asked, calls, isrs>>
  BY DEF syscall_sem_post, Dispatch, NotHandlers, dataVars, schedVars, sleepVars, semVars,
         stackVars
<1>1. /\ r \in Tasks \cup Sems /\ (r \in Tasks => record[r].syscall = "SEM_POST")
      /\ OnStack(r) /\ todo' \in Seq(Records) /\ current' = r /\ r \in Records
  BY <1>0, NextRecord DEF SchedulerInv
<1>2. StackInv' /\ PushInv' /\ PhaseInv'
  <2>1. \A s \in Sems : post_pending[s] => post_pending'[s] \/ s = r
    BY <1>0
  <2> QED BY <1>0, <2>1, InterruptRecordTaken DEF SchedulerInv
<1>3. task = Null /\ \A x \in Tasks : ~Leaving(x) /\ ~Leaving(x)'
  BY <1>0, BetweenRecords DEF Leaving
<1> HIDE DEF r
<1>4. sem' \in Sems
  BY <1>0, <1>1 DEF SemOf, SchedulerInv, PhaseInv, InFlight, Asks
<1>5. WaitInv' /\ SleepListInv' /\ WaitListInv'
  BY <1>0, <1>3 DEF SchedulerInv, WaitInv, SleepListInv, WaitListInv
<1>6. ReadyInv' /\ RunInv'
  BY <1>0 DEF SchedulerInv, ReadyInv, RunInv
<1>7. HandlerInv'
  BY <1>0, <1>1, <1>3, <1>4 DEF HandlerInv
<1>8. TypeOK'
  <2>1. post_pending' \in [Sems -> BOOLEAN] /\ hpc' \in HandlerSteps
    BY <1>0 DEF SchedulerInv, TypeOK, HandlerSteps
  <2> QED BY <1>0, <1>1, <1>4, <2>1 DEF SchedulerInv, TypeOK
<1> QED BY <1>2, <1>5, <1>6, <1>7, <1>8 DEF SchedulerInv

\* TICK.
LEMMA HandlerTick == SchedulerInv /\ syscall_tick /\ NotHandlers => SchedulerInv'
<1> SUFFICES ASSUME SchedulerInv, syscall_tick, NotHandlers PROVE SchedulerInv'
  OBVIOUS
<1>0. /\ Dispatch("TICK") /\ hpc = "next" /\ hpc' = "tick" /\ tick_pending' = FALSE
      /\ UNCHANGED <<active, state, ready_list, sleep_list, wake_tick, woken_tick, due,
                     value, num_waiters, wait_list, credit, record, post_pending,
                     pending_syscalls, pend, task, sem, waiters, advance>>
      /\ UNCHANGED <<tick, post_n, pc, pushing, last_wake, asked, calls, isrs>>
  BY DEF syscall_tick, ClearTickPending, Dispatch, NotHandlers, dataVars, schedVars,
         sleepVars, semVars, stackVars
<1>1. Head(todo) = TickRecord /\ todo' \in Seq(Records) /\ current' = TickRecord
  BY <1>0, NextRecord DEF SchedulerInv
<1>2. StackInv' /\ PushInv' /\ PhaseInv'
  BY <1>0, <1>1, InterruptRecordTaken DEF SchedulerInv
<1>3. task = Null /\ \A x \in Tasks : ~Leaving(x) /\ ~Leaving(x)'
  BY <1>0, BetweenRecords DEF Leaving
<1>4. WaitInv' /\ SleepListInv' /\ WaitListInv'
  BY <1>0, <1>3 DEF SchedulerInv, WaitInv, SleepListInv, WaitListInv
<1>5. ReadyInv' /\ RunInv'
  BY <1>0 DEF SchedulerInv, ReadyInv, RunInv
<1>6. HandlerInv'
  BY <1>0, <1>1, <1>3 DEF HandlerInv
<1>7. TypeOK'
  BY <1>0, <1>1 DEF SchedulerInv, TypeOK, HandlerSteps, Records
<1> QED BY <1>2, <1>4, <1>5, <1>6, <1>7 DEF SchedulerInv

-----------------------------------------------------------------------------
(* Steps that only move the handler on.                                    *)

\* A step that changes no list and no task.
LEMMA HandlerMoves ==
  ASSUME SchedulerInv, NotHandlers, hpc \notin {"idle", "take"},
         hpc' \notin {"idle", "take"}, \A x \in Tasks : Leaving(x)' <=> Leaving(x),
         UNCHANGED <<active, state, ready_list, sleep_list, num_waiters, wait_list,
                     record, tick_pending, post_pending, pending_syscalls, pend, todo>>
  PROVE  /\ StackInv' /\ PushInv' /\ PhaseInv' /\ WaitInv'
         /\ ReadyInv' /\ RunInv' /\ SleepListInv' /\ WaitListInv'
<1>1. UNCHANGED <<pc, pushing>>
  BY DEF NotHandlers
<1>2. StackInv' /\ PushInv' /\ PhaseInv'
  BY <1>1, RecordsKept DEF SchedulerInv
<1>3. WaitInv' /\ SleepListInv' /\ WaitListInv'
  BY DEF SchedulerInv, WaitInv, SleepListInv, WaitListInv
<1>4. ReadyInv' /\ RunInv'
  BY DEF SchedulerInv, ReadyInv, RunInv
<1> QED BY <1>2, <1>3, <1>4

\* The count of a post is added.
LEMMA HandlerPostAdd ==
  SchedulerInv /\ syscall_sem_post_add /\ NotHandlers => SchedulerInv'
<1> SUFFICES ASSUME SchedulerInv, syscall_sem_post_add, NotHandlers PROVE SchedulerInv'
  OBVIOUS
<1>0. /\ hpc = "post" /\ hpc' = "load" /\ rt_sem_add_n(sem, PostCount(current))
      /\ UNCHANGED <<active, state, ready_list, sleep_list, wake_tick, woken_tick, due,
                     num_waiters, wait_list, credit, record, tick_pending, post_pending,
                     pending_syscalls, pend, todo, current, task, sem, waiters, advance>>
      /\ UNCHANGED <<tick, post_n, pc, pushing, last_wake, asked, calls, isrs>>
  BY DEF syscall_sem_post_add, NotHandlers, schedVars, sleepVars, sharedVars, stackVars,
         localVars
<1>1. sem \in Sems /\ current \in Tasks \cup Sems /\ current # TickRecord
  BY <1>0, TasksAssumption DEF SchedulerInv, HandlerInv
<1>2. PostCount(current) \in Nat /\ SemMax[sem] \in Nat /\ value[sem] \in Int
  BY <1>1, SemAssumption DEF PostCount, SchedulerInv, TypeOK, RecordType
<1>3. value' \in [Sems -> Int]
  <2>1. new_value(value[sem], PostCount(current), SemMax[sem]) \in Int
    BY <1>2, NewValueInt
  <2> QED BY <1>0, <2>1 DEF rt_sem_add_n, SchedulerInv, TypeOK
<1>4. /\ StackInv' /\ PushInv' /\ PhaseInv' /\ WaitInv'
      /\ ReadyInv' /\ RunInv' /\ SleepListInv' /\ WaitListInv'
  BY <1>0, HandlerMoves DEF Leaving
<1>5. HandlerInv'
  BY <1>0, <1>1 DEF SchedulerInv, HandlerInv
<1>6. TypeOK'
  BY <1>0, <1>3 DEF SchedulerInv, TypeOK, HandlerSteps
<1> QED BY <1>4, <1>5, <1>6 DEF SchedulerInv

\* The call of wake_sem_waiters after a post.
LEMMA HandlerPostLoad ==
  SchedulerInv /\ syscall_sem_post_load /\ NotHandlers => SchedulerInv'
<1> SUFFICES ASSUME SchedulerInv, syscall_sem_post_load, NotHandlers PROVE SchedulerInv'
  OBVIOUS
<1>0. /\ hpc = "load" /\ EvaluateWakes(sem)
      /\ UNCHANGED <<active, state, ready_list, sleep_list, wake_tick, woken_tick, due,
                     value, num_waiters, wait_list, credit, record, tick_pending,
                     post_pending, pending_syscalls, pend, todo, current, task, advance>>
      /\ UNCHANGED <<tick, post_n, pc, pushing, last_wake, asked, calls, isrs>>
  BY DEF syscall_sem_post_load, NotHandlers, dataVars, schedVars, sleepVars, semVars,
         sharedVars, stackVars
<1>1. sem \in Sems /\ current # TickRecord /\ task = Null
  BY <1>0 DEF SchedulerInv, HandlerInv
<1>2. sem' = sem /\ hpc' = "wake" /\ waiters' \in Nat
  BY <1>0, <1>1, WakesEvaluated DEF SchedulerInv
<1>3. /\ StackInv' /\ PushInv' /\ PhaseInv' /\ WaitInv'
      /\ ReadyInv' /\ RunInv' /\ SleepListInv' /\ WaitListInv'
  BY <1>0, <1>1, <1>2, HandlerMoves, TasksAssumption DEF Leaving
<1>4. HandlerInv'
  BY <1>0, <1>1, <1>2 DEF HandlerInv
<1>5. TypeOK'
  BY <1>0, <1>2 DEF SchedulerInv, TypeOK, HandlerSteps
<1> QED BY <1>3, <1>4, <1>5 DEF SchedulerInv

\* wake_sem_waiters has woken all it has to.
LEMMA HandlerWakeEnd ==
  SchedulerInv /\ wake_sem_waiters_end /\ NotHandlers => SchedulerInv'
<1> SUFFICES ASSUME SchedulerInv, wake_sem_waiters_end, NotHandlers PROVE SchedulerInv'
  OBVIOUS
<1>0. /\ hpc = "wake" /\ hpc' = IF current = TickRecord THEN "timedout" ELSE "next"
      /\ UNCHANGED <<active, state, ready_list, sleep_list, wake_tick, woken_tick, due,
                     value, num_waiters, wait_list, credit, record, tick_pending,
                     post_pending, pending_syscalls, pend, todo, current, task, sem,
                     waiters, advance>>
      /\ UNCHANGED <<tick, post_n, pc, pushing, last_wake, asked, calls, isrs>>
  BY DEF wake_sem_waiters_end, NotHandlers, dataVars, schedVars, sleepVars, semVars,
         sharedVars, stackVars, localVars
<1>1. sem \in Sems /\ (current = TickRecord <=> task # Null)
  BY <1>0 DEF SchedulerInv, HandlerInv
<1>2. /\ StackInv' /\ PushInv' /\ PhaseInv' /\ WaitInv'
      /\ ReadyInv' /\ RunInv' /\ SleepListInv' /\ WaitListInv'
  BY <1>0, <1>1, HandlerMoves, TasksAssumption DEF Leaving
<1>3. HandlerInv'
  BY <1>0, <1>1 DEF SchedulerInv, HandlerInv
<1>4. TypeOK'
  BY <1>0 DEF SchedulerInv, TypeOK, HandlerSteps
<1> QED BY <1>2, <1>3, <1>4 DEF SchedulerInv

\* tick_syscall reads the tick.
LEMMA HandlerTickReads == SchedulerInv /\ tick_syscall /\ NotHandlers => SchedulerInv'
<1> SUFFICES ASSUME SchedulerInv, tick_syscall, NotHandlers PROVE SchedulerInv'
  OBVIOUS
<1>0. /\ hpc = "tick" /\ hpc' = "expire" /\ advance' = TicksTo(rt_tick)
      /\ UNCHANGED <<active, state, ready_list, sleep_list, wake_tick, woken_tick, due,
                     value, num_waiters, wait_list, credit, record, tick_pending,
                     post_pending, pending_syscalls, pend, todo, current, task, sem,
                     waiters>>
      /\ UNCHANGED <<tick, post_n, pc, pushing, last_wake, asked, calls, isrs>>
  BY DEF tick_syscall, NotHandlers, dataVars, schedVars, sleepVars, semVars, sharedVars,
         stackVars
<1>1. advance' \in 0..TickMod-1
  <2>1. tick \in Int /\ woken_tick \in 0..TickMod-1
    BY SMTT(40) DEF SchedulerInv, TypeOK
  <2>2. rt_tick \in Int
    BY <2>1, ModType, SMTT(40) DEF rt_tick
  <2> QED BY <1>0, <2>1, <2>2, TicksToType
<1>2. /\ StackInv' /\ PushInv' /\ PhaseInv' /\ WaitInv'
      /\ ReadyInv' /\ RunInv' /\ SleepListInv' /\ WaitListInv'
  BY <1>0, HandlerMoves DEF Leaving
<1>3. HandlerInv'
  BY <1>0 DEF SchedulerInv, HandlerInv
<1>4. TypeOK'
  BY <1>0, <1>1 DEF SchedulerInv, TypeOK, HandlerSteps
<1> QED BY <1>2, <1>3, <1>4 DEF SchedulerInv

\* tick_syscall has woken every task whose time has come.
LEMMA HandlerTickEnd == SchedulerInv /\ tick_syscall_end /\ NotHandlers => SchedulerInv'
<1> SUFFICES ASSUME SchedulerInv, tick_syscall_end, NotHandlers PROVE SchedulerInv'
  OBVIOUS
<1>0. /\ hpc = "expire" /\ hpc' = "next" /\ woken_tick' = (woken_tick + advance) % TickMod
      /\ UNCHANGED <<active, state, ready_list, sleep_list, wake_tick, due,
                     value, num_waiters, wait_list, credit, record, tick_pending,
                     post_pending, pending_syscalls, pend, todo, current, task, sem,
                     waiters, advance>>
      /\ UNCHANGED <<tick, post_n, pc, pushing, last_wake, asked, calls, isrs>>
  BY DEF tick_syscall_end, NotHandlers, schedVars, semVars, sharedVars, stackVars, localVars
<1>1. woken_tick' \in 0..TickMod-1
  <2>1. woken_tick + advance \in Int
    BY TickAssumption, SMTT(40) DEF SchedulerInv, TypeOK
  <2> QED BY <1>0, <2>1, ModType
<1>2. /\ StackInv' /\ PushInv' /\ PhaseInv' /\ WaitInv'
      /\ ReadyInv' /\ RunInv' /\ SleepListInv' /\ WaitListInv'
  BY <1>0, HandlerMoves DEF Leaving
<1>3. HandlerInv'
  BY <1>0 DEF SchedulerInv, HandlerInv
<1>4. TypeOK'
  BY <1>0, <1>1 DEF SchedulerInv, TypeOK, HandlerSteps
<1> QED BY <1>2, <1>3, <1>4 DEF SchedulerInv

-----------------------------------------------------------------------------
(* Steps that wake a task.                                                 *)

\* A suspended task leaves the sleep list and is made ready.
LEMMA WokenUp ==
  ASSUME SchedulerInv, NotHandlers, NEW t \in Tasks, state[t] \in Suspended,
         task_ready(t), LeaveSleepList(t), hpc \notin {"idle", "take"},
         hpc' \notin {"idle", "take"}, record' \in [Tasks -> RecordType],
         record'[t].syscall = record[t].syscall,
         \A x \in Tasks : x # t => record'[x] = record[x],
         UNCHANGED <<active, tick_pending, post_pending, pending_syscalls, pend, todo>>
  PROVE  /\ StackInv' /\ PushInv' /\ PhaseInv' /\ WaitInv'
         /\ ReadyInv' /\ RunInv' /\ SleepListInv'
         /\ state' \in [AllTasks -> TaskStates] /\ ready_list' \in Seq(AllTasks)
         /\ sleep_list' \in Seq(Tasks)
         /\ state'[t] = "READY" /\ \A x \in Tasks : x # t => state'[x] = state[x]
<1>1. /\ state' = [state EXCEPT ![t] = "READY"]
      /\ state' \in [AllTasks -> TaskStates] /\ ready_list' \in Seq(AllTasks)
      /\ \A x : Contains(ready_list', x) <=> x = t \/ Contains(ready_list, x)
      /\ ReadyInv'
  <2>1. state[t] # "READY"
    BY DEF Suspended
  <2> QED BY <2>1, MadeReady DEF SchedulerInv
<1>2. state'[t] = "READY" /\ \A x \in Tasks : x # t => state'[x] = state[x]
  BY <1>1 DEF SchedulerInv, TypeOK, AllTasks
<1>3. /\ sleep_list' \in Seq(Tasks) /\ IsInjective(sleep_list')
      /\ \A x : Contains(sleep_list', x) <=> x # t /\ Contains(sleep_list, x)
  BY TakenFromSleep DEF SchedulerInv
<1>4. SleepListInv'
  BY <1>2, <1>3 DEF SchedulerInv, SleepListInv
<1>5. UNCHANGED <<pc, pushing>>
  BY DEF NotHandlers
<1>6. StackInv' /\ PushInv' /\ PhaseInv'
  <2>1. \A x \in Tasks :
          \/ state[x] \in Suspended /\ record'[x].syscall = record[x].syscall
          \/ /\ state'[x] = state[x] /\ record'[x] = record[x]
             /\ Contains(ready_list', x) => Contains(ready_list, x)
    BY <1>1, <1>2
  <2> QED BY <1>5, <2>1, RecordsKept DEF SchedulerInv
<1>7. WaitInv'
  BY <1>2 DEF SchedulerInv, WaitInv
<1>8. RunInv'
  BY DEF RunInv
<1> QED BY <1>1, <1>2, <1>3, <1>4, <1>6, <1>7, <1>8

\* Task t leaves the wait list of s.
LEMMA WaiterLeaves ==
  ASSUME TypeOK, WaitListInv, NEW s \in Sems, NEW t, Contains(wait_list[s], t), NEW new \in Seq(Tasks),
         IsInjective(new), Len(new) = Len(wait_list[s]) - 1,
         \A x : Contains(new, x) <=> x # t /\ Contains(wait_list[s], x),
         wait_list' = [wait_list EXCEPT ![s] = new],
         num_waiters' = [num_waiters EXCEPT ![s] = @ - 1]
  PROVE  /\ wait_list' \in [Sems -> Seq(Tasks)] /\ num_waiters' \in [Sems -> Int]
         /\ \A x \in Sems : IsInjective(wait_list'[x]) /\ num_waiters'[x] = Len(wait_list'[x])
         /\ \A x \in Sems : \A y : Contains(wait_list'[x], y) <=>
              Contains(wait_list[x], y) /\ ~(x = s /\ y = t)
<1>0. /\ wait_list \in [Sems -> Seq(Tasks)] /\ num_waiters \in [Sems -> Int]
      /\ \A x \in Sems : IsInjective(wait_list[x]) /\ num_waiters[x] = Len(wait_list[x])
  BY DEF TypeOK, WaitListInv
<1>1. wait_list' \in [Sems -> Seq(Tasks)] /\ num_waiters' \in [Sems -> Int]
  BY <1>0, SMTT(40)
<1>2. /\ wait_list'[s] = new /\ num_waiters'[s] = num_waiters[s] - 1
      /\ \A x \in Sems : x # s => /\ wait_list'[x] = wait_list[x]
                                  /\ num_waiters'[x] = num_waiters[x]
  BY <1>0
<1> QED BY <1>0, <1>1, <1>2

\* One turn of wake_sem_waiters.
LEMMA HandlerWake == SchedulerInv /\ wake_sem_waiters /\ NotHandlers => SchedulerInv'
<1> SUFFICES ASSUME SchedulerInv, wake_sem_waiters, NotHandlers PROVE SchedulerInv'
  OBVIOUS
<1> DEFINE t == Head(wait_list[sem])
           new == Tail(wait_list[sem])
<1>0. /\ hpc = "wake" /\ num_waiters[sem] > waiters /\ LeaveSleepList(t) /\ task_ready(t)
      /\ wait_list' = [wait_list EXCEPT ![sem] = new]
      /\ num_waiters' = [num_waiters EXCEPT ![sem] = @ - 1]
      /\ credit' = [credit EXCEPT ![sem] = @ - 1]
      /\ UNCHANGED <<active, wake_tick, woken_tick, due, value, record, tick_pending,
                     post_pending, pending_syscalls, pend, hpc, todo, current, task, sem,
                     waiters, advance>>
      /\ UNCHANGED <<tick, post_n, pc, pushing, last_wake, asked, calls, isrs>>
  BY DEF wake_sem_waiters, NotHandlers, sharedVars, stackVars, handlerVars, localVars
<1>1. sem \in Sems
  BY <1>0 DEF SchedulerInv, HandlerInv
<1>2. /\ wait_list[sem] \in Seq(Tasks) /\ IsInjective(wait_list[sem])
      /\ wait_list[sem] # <<>>
  <2>1. /\ wait_list[sem] \in Seq(Tasks) /\ IsInjective(wait_list[sem])
        /\ num_waiters[sem] = Len(wait_list[sem]) /\ waiters \in Nat
    BY <1>1 DEF SchedulerInv, TypeOK, WaitListInv
  <2> QED BY <1>0, <2>1, SMTT(40)
<1>3. /\ t \in Tasks /\ Contains(wait_list[sem], t)
      /\ new \in Seq(Tasks) /\ IsInjective(new) /\ Len(new) = Len(wait_list[sem]) - 1
      /\ \A x : Contains(new, x) <=> x # t /\ Contains(wait_list[sem], x)
  BY <1>2, FrontAndRest
<1> HIDE DEF t, new
<1>4. /\ state[t] \in {"BLOCKED", "BLOCKED_TIMEOUT"} /\ record[t].sem = sem
      /\ ~Leaving(t) /\ t # task /\ state[t] \in Suspended
  BY <1>0, <1>1, <1>3 DEF SchedulerInv, WaitListInv, Leaving, Suspended
<1>5. /\ wait_list' \in [Sems -> Seq(Tasks)] /\ num_waiters' \in [Sems -> Int]
      /\ \A x \in Sems : IsInjective(wait_list'[x]) /\ num_waiters'[x] = Len(wait_list'[x])
      /\ \A x \in Sems : \A y : Contains(wait_list'[x], y) <=>
           Contains(wait_list[x], y) /\ ~(x = sem /\ y = t)
  BY <1>0, <1>1, <1>3, WaiterLeaves DEF SchedulerInv
<1>6. /\ StackInv' /\ PushInv' /\ PhaseInv' /\ WaitInv'
      /\ ReadyInv' /\ RunInv' /\ SleepListInv'
      /\ state' \in [AllTasks -> TaskStates] /\ ready_list' \in Seq(AllTasks)
      /\ sleep_list' \in Seq(Tasks)
      /\ state'[t] = "READY" /\ \A x \in Tasks : x # t => state'[x] = state[x]
  <2>1. record' \in [Tasks -> RecordType] /\ record' = record
    BY <1>0 DEF SchedulerInv, TypeOK
  <2> QED BY <1>0, <1>3, <1>4, <2>1, WokenUp
<1>7. WaitListInv'
  <2>1. \A x \in Tasks : Leaving(x)' <=> Leaving(x)
    BY <1>0 DEF Leaving
  <2>2. \A x \in Sems, y \in Tasks :
          Contains(wait_list'[x], y) <=>
            /\ state'[y] \in {"BLOCKED", "BLOCKED_TIMEOUT"}
            /\ record[y].sem = x /\ ~Leaving(y)
    BY <1>4, <1>5, <1>6, SMTT(40) DEF SchedulerInv, WaitListInv
  <2> QED BY <1>0, <1>5, <2>1, <2>2 DEF WaitListInv
<1>8. HandlerInv'
  BY <1>0, <1>4, <1>6 DEF SchedulerInv, TypeOK, HandlerInv
<1>9. TypeOK'
  <2>1. credit \in [Sems -> Int]
    BY DEF SchedulerInv, TypeOK
  <2>2. credit' \in [Sems -> Int]
    BY <1>0, <1>1, <2>1, SMTT(40)
  <2> QED BY <1>0, <1>5, <1>6, <2>2 DEF SchedulerInv, TypeOK
<1> QED BY <1>6, <1>7, <1>8, <1>9 DEF SchedulerInv

\* The front of the sleep list.
LEMMA FirstSleeper ==
  ASSUME SchedulerInv, sleep_list # <<>>
  PROVE  /\ Sleeper \in Tasks /\ Contains(sleep_list, Sleeper)
         /\ state[Sleeper] \in {"ASLEEP", "BLOCKED_TIMEOUT"} /\ state[Sleeper] \in Suspended
         /\ TimedWaiter => state[Sleeper] = "BLOCKED_TIMEOUT" /\ record[Sleeper].sem \in Sems
         /\ ~TimedWaiter => state[Sleeper] = "ASLEEP"
<1>1. sleep_list \in Seq(Tasks) /\ IsInjective(sleep_list)
  BY DEF SchedulerInv, TypeOK, SleepListInv
<1>2. Sleeper \in Tasks /\ Contains(sleep_list, Sleeper)
  BY <1>1, FrontAndRest DEF Sleeper
<1>3. state[Sleeper] \in {"ASLEEP", "BLOCKED_TIMEOUT"}
  BY <1>2 DEF SchedulerInv, SleepListInv
<1> QED BY <1>2, <1>3 DEF SchedulerInv, WaitInv, TimedWaiter, Suspended

\* tick_syscall wakes a task that sleeps.
LEMMA HandlerTickWake == SchedulerInv /\ tick_syscall_wake /\ NotHandlers => SchedulerInv'
<1> SUFFICES ASSUME SchedulerInv, tick_syscall_wake, NotHandlers PROVE SchedulerInv'
  OBVIOUS
<1> DEFINE t == Sleeper
<1>0. /\ hpc = "expire" /\ sleep_list # <<>> /\ ~TimedWaiter /\ LeaveSleepList(t)
      /\ task_ready(t)
      /\ UNCHANGED <<active, wake_tick, woken_tick, due, value, num_waiters, wait_list,
                     credit, record, tick_pending, post_pending, pending_syscalls, pend,
                     hpc, todo, current, task, sem, waiters, advance>>
      /\ UNCHANGED <<tick, post_n, pc, pushing, last_wake, asked, calls, isrs>>
  BY DEF tick_syscall_wake, Expired, NotHandlers, semVars, sharedVars, stackVars,
         handlerVars, localVars
<1>1. t \in Tasks /\ state[t] = "ASLEEP" /\ state[t] \in Suspended
  BY <1>0, FirstSleeper
<1> HIDE DEF t
<1>2. /\ StackInv' /\ PushInv' /\ PhaseInv' /\ WaitInv'
      /\ ReadyInv' /\ RunInv' /\ SleepListInv'
      /\ state' \in [AllTasks -> TaskStates] /\ ready_list' \in Seq(AllTasks)
      /\ sleep_list' \in Seq(Tasks)
      /\ state'[t] = "READY" /\ \A x \in Tasks : x # t => state'[x] = state[x]
  <2>1. record' \in [Tasks -> RecordType] /\ record' = record
    BY <1>0 DEF SchedulerInv, TypeOK
  <2> QED BY <1>0, <1>1, <2>1, WokenUp
<1>3. WaitListInv'
  <2>1. \A x \in Tasks : ~Leaving(x)' /\ ~Leaving(x)
    BY <1>0 DEF Leaving
  <2> QED BY <1>0, <1>1, <1>2, <2>1 DEF SchedulerInv, WaitListInv
<1>4. HandlerInv'
  BY <1>0 DEF SchedulerInv, HandlerInv
<1>5. TypeOK'
  BY <1>0, <1>2 DEF SchedulerInv, TypeOK
<1> QED BY <1>2, <1>3, <1>4, <1>5 DEF SchedulerInv

\* tick_syscall begins to end a timed wait.
LEMMA HandlerTimeout == SchedulerInv /\ tick_syscall_timeout /\ NotHandlers => SchedulerInv'
<1> SUFFICES ASSUME SchedulerInv, tick_syscall_timeout, NotHandlers PROVE SchedulerInv'
  OBVIOUS
<1> DEFINE t == Sleeper
           s == record[Sleeper].sem
<1>0. /\ hpc = "expire" /\ hpc' = "timeout" /\ sleep_list # <<>> /\ TimedWaiter
      /\ task' = t /\ sem' = s /\ rt_sem_add_n(s, 1)
      /\ UNCHANGED <<active, state, ready_list, sleep_list, wake_tick, woken_tick, due,
                     num_waiters, wait_list, credit, record, tick_pending, post_pending,
                     pending_syscalls, pend, todo, current, waiters, advance>>
      /\ UNCHANGED <<tick, post_n, pc, pushing, last_wake, asked, calls, isrs>>
  BY DEF tick_syscall_timeout, Expired, GiveBack, NotHandlers, schedVars, sleepVars,
         sharedVars, stackVars
<1>1. t \in Tasks /\ state[t] = "BLOCKED_TIMEOUT" /\ s \in Sems /\ record[t].sem = s
  BY <1>0, FirstSleeper
<1> HIDE DEF t, s
<1>2. value' \in [Sems -> Int]
  <2>1. value \in [Sems -> Int] /\ SemMax[s] \in Nat
    BY <1>1, SemAssumption DEF SchedulerInv, TypeOK
  <2>2. new_value(value[s], 1, SemMax[s]) \in Int
    BY <1>1, <2>1, NewValueInt
  <2> QED BY <1>0, <2>1, <2>2 DEF rt_sem_add_n
<1>3. /\ StackInv' /\ PushInv' /\ PhaseInv' /\ WaitInv'
      /\ ReadyInv' /\ RunInv' /\ SleepListInv' /\ WaitListInv'
  BY <1>0, HandlerMoves DEF Leaving
<1>4. HandlerInv'
  BY <1>0, <1>1, TasksAssumption DEF SchedulerInv, HandlerInv
<1>5. TypeOK'
  BY <1>0, <1>1, <1>2 DEF SchedulerInv, TypeOK, HandlerSteps
<1> QED BY <1>3, <1>4, <1>5 DEF SchedulerInv

\* The task whose timed wait ends leaves the wait list.
LEMMA HandlerLeave == SchedulerInv /\ tick_syscall_leave /\ NotHandlers => SchedulerInv'
<1> SUFFICES ASSUME SchedulerInv, tick_syscall_leave, NotHandlers PROVE SchedulerInv'
  OBVIOUS
<1> DEFINE new == rt_list_remove(wait_list[sem], task)
<1>0. /\ hpc = "timeout" /\ EvaluateWakes(sem)
      /\ wait_list' = [wait_list EXCEPT ![sem] = new]
      /\ num_waiters' = [num_waiters EXCEPT ![sem] = @ - 1]
      /\ UNCHANGED <<active, state, ready_list, sleep_list, wake_tick, woken_tick, due,
                     value, credit, record, tick_pending, post_pending, pending_syscalls,
                     pend, todo, current, task, advance>>
      /\ UNCHANGED <<tick, post_n, pc, pushing, last_wake, asked, calls, isrs>>
  BY DEF tick_syscall_leave, NotHandlers, schedVars, sleepVars, sharedVars, stackVars
<1>1. /\ sem \in Sems /\ task # Null /\ task \in Tasks /\ current = TickRecord
      /\ state[task] = "BLOCKED_TIMEOUT" /\ record[task].sem = sem
  BY <1>0 DEF SchedulerInv, HandlerInv, TypeOK
<1>2. sem' = sem /\ hpc' = "wake" /\ waiters' \in Nat
  BY <1>0, <1>1, WakesEvaluated DEF SchedulerInv
<1>3. /\ \A x \in Tasks : ~Leaving(x) /\ (Leaving(x)' <=> x = task)
      /\ Contains(wait_list[sem], task)
  BY <1>0, <1>1, <1>2 DEF SchedulerInv, WaitListInv, Leaving
<1>4. /\ new \in Seq(Tasks) /\ IsInjective(new) /\ Len(new) = Len(wait_list[sem]) - 1
      /\ \A x : Contains(new, x) <=> x # task /\ Contains(wait_list[sem], x)
  <2>1. wait_list[sem] \in Seq(Tasks) /\ IsInjective(wait_list[sem])
    BY <1>1 DEF SchedulerInv, TypeOK, WaitListInv
  <2> QED BY <1>3, <2>1, Removed
<1> HIDE DEF new
<1>5. /\ wait_list' \in [Sems -> Seq(Tasks)] /\ num_waiters' \in [Sems -> Int]
      /\ \A x \in Sems : IsInjective(wait_list'[x]) /\ num_waiters'[x] = Len(wait_list'[x])
      /\ \A x \in Sems : \A y : Contains(wait_list'[x], y) <=>
           Contains(wait_list[x], y) /\ ~(x = sem /\ y = task)
  BY <1>0, <1>1, <1>3, <1>4, WaiterLeaves DEF SchedulerInv
<1>6. StackInv' /\ PushInv' /\ PhaseInv'
  BY <1>0, <1>2, RecordsKept DEF SchedulerInv
<1>7. WaitInv' /\ SleepListInv' /\ ReadyInv' /\ RunInv'
  BY <1>0, <1>2 DEF SchedulerInv, WaitInv, SleepListInv, ReadyInv, RunInv
<1>8. WaitListInv'
  <2>1. \A x \in Sems, y \in Tasks :
          Contains(wait_list'[x], y) <=>
            /\ state[y] \in {"BLOCKED", "BLOCKED_TIMEOUT"}
            /\ record[y].sem = x /\ y # task
    <3> TAKE x \in Sems, y \in Tasks
    <3>1. Contains(wait_list[x], y) <=>
            state[y] \in {"BLOCKED", "BLOCKED_TIMEOUT"} /\ record[y].sem = x
      BY <1>3 DEF SchedulerInv, WaitListInv
    <3>2. Contains(wait_list'[x], y) <=>
            Contains(wait_list[x], y) /\ ~(x = sem /\ y = task)
      BY <1>5
    <3> QED BY <1>1, <3>1, <3>2
  <2> QED BY <1>0, <1>3, <1>5, <2>1 DEF WaitListInv
<1>9. HandlerInv'
  BY <1>0, <1>1, <1>2 DEF HandlerInv
<1>10. TypeOK'
  BY <1>0, <1>2, <1>5 DEF SchedulerInv, TypeOK, HandlerSteps
<1> QED BY <1>6, <1>7, <1>8, <1>9, <1>10 DEF SchedulerInv

\* The task whose timed wait has ended is made ready.
LEMMA HandlerTimedout ==
  SchedulerInv /\ tick_syscall_timedout /\ NotHandlers => SchedulerInv'
<1> SUFFICES ASSUME SchedulerInv, tick_syscall_timedout, NotHandlers PROVE SchedulerInv'
  OBVIOUS
<1>0. /\ hpc = "timedout" /\ hpc' = "expire" /\ task' = Null
      /\ record' = [record EXCEPT ![task].sem = Null]
      /\ LeaveSleepList(task) /\ task_ready(task)
      /\ UNCHANGED <<active, wake_tick, woken_tick, due, value, num_waiters, wait_list,
                     credit, tick_pending, post_pending, pending_syscalls, pend, todo,
                     current, sem, waiters, advance>>
      /\ UNCHANGED <<tick, post_n, pc, pushing, last_wake, asked, calls, isrs>>
  BY DEF tick_syscall_timedout, NotHandlers, semVars, sharedVars, stackVars
<1>1. /\ task \in Tasks /\ state[task] = "BLOCKED_TIMEOUT" /\ current = TickRecord
      /\ Leaving(task) /\ \A x \in Tasks : Leaving(x) => x = task
  BY <1>0 DEF SchedulerInv, TypeOK, HandlerInv, Leaving
<1>2. /\ record' \in [Tasks -> RecordType]
      /\ record'[task].syscall = record[task].syscall
      /\ \A x \in Tasks : x # task => record'[x] = record[x]
  <2>1. record \in [Tasks -> RecordType]
    BY DEF SchedulerInv, TypeOK
  <2>2. [record[task] EXCEPT !.sem = Null] \in RecordType
    BY <1>1, <2>1 DEF RecordType
  <2> QED BY <1>0, <1>1, <2>1, <2>2 DEF RecordType
<1>3. /\ StackInv' /\ PushInv' /\ PhaseInv' /\ WaitInv'
      /\ ReadyInv' /\ RunInv' /\ SleepListInv'
      /\ state' \in [AllTasks -> TaskStates] /\ ready_list' \in Seq(AllTasks)
      /\ sleep_list' \in Seq(Tasks)
      /\ state'[task] = "READY" /\ \A x \in Tasks : x # task => state'[x] = state[x]
  <2>1. /\ state[task] \in Suspended /\ hpc \notin {"idle", "take"}
        /\ hpc' \notin {"idle", "take"}
    BY <1>0, <1>1 DEF Suspended
  <2>2. UNCHANGED <<active, tick_pending, post_pending, pending_syscalls, pend, todo>>
    BY <1>0
  <2> QED BY <1>0, <1>1, <1>2, <2>1, <2>2, WokenUp
<1>4. WaitListInv'
  <2>1. \A x \in Tasks : ~Leaving(x)'
    BY <1>0 DEF Leaving
  <2>2. \A x \in Sems, y \in Tasks :
          Contains(wait_list[x], y) <=>
            state'[y] \in {"BLOCKED", "BLOCKED_TIMEOUT"} /\ record'[y].sem = x
    <3> TAKE x \in Sems, y \in Tasks
    <3>1. Contains(wait_list[x], y) <=>
            state[y] \in {"BLOCKED", "BLOCKED_TIMEOUT"} /\ record[y].sem = x /\ ~Leaving(y)
      BY DEF SchedulerInv, WaitListInv
    <3>2. CASE y = task
      <4>1. state'[y] \notin {"BLOCKED", "BLOCKED_TIMEOUT"}
        BY <1>3, <3>2
      <4> QED BY <1>1, <3>1, <3>2, <4>1
    <3>3. CASE y # task
      <4>1. state'[y] = state[y] /\ record'[y] = record[y] /\ ~Leaving(y)
        BY <1>1, <1>2, <1>3, <3>3
      <4> QED BY <3>1, <4>1
    <3> QED BY <3>2, <3>3
  <2> QED BY <1>0, <2>1, <2>2 DEF SchedulerInv, WaitListInv
<1>5. HandlerInv'
  BY <1>0, <1>1 DEF HandlerInv
<1>6. TypeOK'
  BY <1>0, <1>2, <1>3 DEF SchedulerInv, TypeOK, HandlerSteps
<1> QED BY <1>3, <1>4, <1>5, <1>6 DEF SchedulerInv

-----------------------------------------------------------------------------
(* The scheduler.                                                          *)

\* The ready list, and the active task, as sched finds them.
LEMMA ReadyTasks ==
  ASSUME SchedulerInv, ready_list # <<>>
  PROVE  /\ Head(ready_list) \in AllTasks /\ state[Head(ready_list)] = "READY"
         /\ Tail(ready_list) \in Seq(AllTasks) /\ IsInjective(Tail(ready_list))
         /\ Descending(Priority, Tail(ready_list))
         /\ \A x : Contains(Tail(ready_list), x) <=>
                     x # Head(ready_list) /\ Contains(ready_list, x)
         /\ \A x \in AllTasks : Contains(ready_list, x) =>
              state[x] = "READY" /\ Priority[x] <= Priority[Head(ready_list)]
<1>0. /\ ready_list \in Seq(AllTasks) /\ IsInjective(ready_list)
      /\ Descending(Priority, ready_list)
      /\ \A x \in AllTasks : Contains(ready_list, x) => state[x] = "READY"
  BY DEF SchedulerInv, TypeOK, ReadyInv
<1>p. Priority \in [AllTasks -> Int]
  BY PriorityAssumption, SMTT(40)
<1>1. /\ Head(ready_list) \in AllTasks /\ Contains(ready_list, Head(ready_list))
      /\ Tail(ready_list) \in Seq(AllTasks) /\ IsInjective(Tail(ready_list))
      /\ \A x : Contains(Tail(ready_list), x) <=>
                  x # Head(ready_list) /\ Contains(ready_list, x)
  BY <1>0, FrontAndRest
<1>2. /\ Descending(Priority, Tail(ready_list))
      /\ \A x : Contains(ready_list, x) => Priority[Head(ready_list)] >= Priority[x]
  BY <1>0, <1>p, FrontIsFirst
<1>3. \A x \in AllTasks : Contains(ready_list, x) => Priority[x] <= Priority[Head(ready_list)]
  BY <1>p, <1>1, <1>2
<1> QED BY <1>0, <1>1, <1>2, <1>3

\* sched keeps the active task, and leaves it with nothing before it.
LEMMA SchedKeeps ==
  ASSUME SchedulerInv, Keep, UNCHANGED <<active, state, ready_list>>
  PROVE  /\ ReadyInv' /\ Runnable(active)' /\ ~Contains(ready_list', active')
         /\ \A x \in AllTasks : Contains(ready_list', x) => Priority[x] <= Priority[active']
<1>0. active \in AllTasks /\ ReadyInv
  BY DEF SchedulerInv, TypeOK
<1>1. CASE ready_list = <<>>
  <2>1. active = Idle /\ state[Idle] = "RUNNING" /\ \A x : ~Contains(ready_list, x)
    BY <1>0, <1>1, ContainsEmpty DEF ReadyInv
  <2> QED BY <1>0, <2>1 DEF ReadyInv, Runnable
<1>2. CASE ready_list # <<>>
  <2>1. state[active] = "RUNNING" /\ Priority[active] > Priority[Head(ready_list)]
    BY <1>2 DEF Keep, still_running
  <2>2. /\ Head(ready_list) \in AllTasks
        /\ \A x \in AllTasks : Contains(ready_list, x) =>
             state[x] = "READY" /\ Priority[x] <= Priority[Head(ready_list)]
    BY <1>2, ReadyTasks
  <2>3. \A x \in AllTasks : Priority[x] \in Int
    BY PriorityAssumption, SMTT(40)
  <2>4. \A x \in AllTasks : Contains(ready_list, x) => Priority[x] <= Priority[active]
    BY <1>0, <2>1, <2>2, <2>3, SMTT(40)
  <2> QED BY <1>0, <2>1, <2>2, <2>4 DEF ReadyInv, Runnable
<1> QED BY <1>1, <1>2

\* sched lets a reawakened task that comes first go on.
LEMMA SchedReawakens ==
  ASSUME SchedulerInv, ready_list # <<>>, active = Head(ready_list), Reawaken
  PROVE  /\ ReadyInv' /\ Runnable(active)' /\ ~Contains(ready_list', active')
         /\ \A x \in AllTasks : Contains(ready_list', x) => Priority[x] <= Priority[active']
         /\ ready_list' \in Seq(AllTasks) /\ UNCHANGED <<active, state>>
<1>1. ready_list' = Tail(ready_list) /\ UNCHANGED <<active, state>>
  BY DEF Reawaken
<1>2. active # Idle
  BY ReadyTasks DEF SchedulerInv, ReadyInv
<1>3. ReadyInv'
  BY <1>1, <1>2, ReadyTasks DEF SchedulerInv, ReadyInv
<1> QED BY <1>1, <1>3, ReadyTasks DEF Runnable

\* sched switches to the first ready task, and puts the active task on the ready list
\* if it can still run.
LEMMA SchedSwitches ==
  ASSUME SchedulerInv, ready_list # <<>>, ~Keep, active # Head(ready_list),
         Switch(Head(ready_list))
  PROVE  /\ ReadyInv' /\ Runnable(active)' /\ ~Contains(ready_list', active')
         /\ \A x \in AllTasks : Contains(ready_list', x) => Priority[x] <= Priority[active']
         /\ ready_list' \in Seq(AllTasks) /\ active' = Head(ready_list)
         /\ state' \in [AllTasks -> TaskStates]
         /\ state'[active'] = "RUNNING"
         /\ \A x \in AllTasks : /\ x \notin {active, active'} => state'[x] = state[x]
                                /\ x # active' /\ Runnable(x) => Runnable(x)'
                                /\ x # active' /\ ~Runnable(x) => state'[x] = state[x]
<1> DEFINE next == Head(ready_list)
           rest == Tail(ready_list)
           new == insert_by_priority(rest, active)
<1>0. /\ next \in AllTasks /\ state[next] = "READY"
      /\ rest \in Seq(AllTasks) /\ IsInjective(rest) /\ Descending(Priority, rest)
      /\ \A x : Contains(rest, x) <=> x # next /\ Contains(ready_list, x)
      /\ \A x \in AllTasks : Contains(ready_list, x) =>
           state[x] = "READY" /\ Priority[x] <= Priority[next]
  BY ReadyTasks
<1>1. /\ active \in AllTasks /\ state \in [AllTasks -> TaskStates] /\ active # next
  BY DEF SchedulerInv, TypeOK
<1>2. /\ active' = next
      /\ state' = [state EXCEPT ![active] = IF still_running THEN "READY" ELSE @,
                                ![next] = "RUNNING"]
      /\ ready_list' = IF still_running THEN new ELSE rest
  BY DEF Switch, Requeue
<1>3. state[active] = "RUNNING" <=> still_running
  BY DEF still_running
<1>4. still_running => Priority[active] <= Priority[next] /\ ~Contains(rest, active)
  <2>1. \A x \in AllTasks : Priority[x] \in Int
    BY PriorityAssumption, SMTT(40)
  <2>2. still_running => ~(Priority[active] > Priority[next])
    BY DEF Keep
  <2>3. still_running => ~Contains(ready_list, active)
    BY <1>0, <1>1, <1>3
  <2> QED BY <1>0, <1>1, <2>1, <2>2, <2>3, SMTT(40)
<1>5. still_running => /\ new \in Seq(AllTasks) /\ IsInjective(new)
                       /\ Descending(Priority, new)
                       /\ \A x : Contains(new, x) <=> x = active \/ Contains(rest, x)
  BY <1>0, <1>1, <1>4, PriorityInsert, PriorityOrder
<1> HIDE DEF next, rest, new
<1>6. /\ ready_list' \in Seq(AllTasks) /\ IsInjective(ready_list')
      /\ Descending(Priority, ready_list')
      /\ \A x : Contains(ready_list', x) <=>
                  (x = active /\ still_running) \/ Contains(rest, x)
  BY <1>0, <1>2, <1>5
<1>7. /\ state' \in [AllTasks -> TaskStates] /\ state'[next] = "RUNNING"
      /\ state'[active] = IF still_running THEN "READY" ELSE state[active]
      /\ \A x \in AllTasks : x # active /\ x # next => state'[x] = state[x]
  BY <1>0, <1>1, <1>2 DEF TaskStates
<1>8. ReadyInv'
  <2>1. \A x \in AllTasks : Contains(ready_list', x) => state'[x] = "READY"
    BY <1>0, <1>6, <1>7
  <2>2. IF next = Idle THEN state'[Idle] = "RUNNING" ELSE Contains(ready_list', Idle)
    BY <1>0, <1>1, <1>3, <1>6, <1>7 DEF SchedulerInv, ReadyInv
  <2> QED BY <1>2, <1>6, <2>1, <2>2 DEF ReadyInv
<1>9. /\ Runnable(active)' /\ ~Contains(ready_list', next)
      /\ \A x \in AllTasks : Contains(ready_list', x) => Priority[x] <= Priority[next]
  BY <1>0, <1>1, <1>2, <1>4, <1>6, <1>7 DEF Runnable
<1>10. \A x \in AllTasks : /\ x # next /\ Runnable(x) => Runnable(x)'
                           /\ x # next /\ ~Runnable(x) => state'[x] = state[x]
  BY <1>3, <1>7 DEF Runnable
<1> QED BY <1>2, <1>6, <1>7, <1>8, <1>9, <1>10 DEF next

\* sched.
LEMMA HandlerSched == SchedulerInv /\ sched /\ NotHandlers => SchedulerInv'
<1> SUFFICES ASSUME SchedulerInv, sched, NotHandlers PROVE SchedulerInv'
  OBVIOUS
<1>0. /\ hpc = "next" /\ todo = <<>> /\ hpc' = "idle" /\ current' = TickRecord
      /\ sem' = Null /\ waiters' = 0 /\ advance' = 0
      /\ UNCHANGED <<sleep_list, wake_tick, woken_tick, due, value, num_waiters,
                     wait_list, credit, record, tick_pending, post_pending,
                     pending_syscalls, pend, todo, task>>
      /\ UNCHANGED <<tick, post_n, pc, pushing, last_wake, asked, calls, isrs>>
  BY DEF sched, NotHandlers, sleepVars, semVars, sharedVars, stackVars
<1>t. active \in AllTasks /\ state \in [AllTasks -> TaskStates] /\ ready_list \in Seq(AllTasks)
  BY DEF SchedulerInv, TypeOK
<1>1. task = Null /\ \A x \in Tasks : ~Leaving(x) /\ ~Leaving(x)'
  BY <1>0, BetweenRecords DEF Leaving
<1>2. \A x \in Tasks : ~OnStack(x) /\ ~OnStack(x)'
  BY <1>0, ContainsEmpty DEF SchedulerInv, StackInv, OnStack
<1> DEFINE Chosen == /\ ReadyInv' /\ Runnable(active)' /\ ~Contains(ready_list', active')
                     /\ \A x \in AllTasks : Contains(ready_list', x) =>
                                              Priority[x] <= Priority[active']
                     /\ ready_list' \in Seq(AllTasks) /\ active' \in AllTasks
                     /\ state' \in [AllTasks -> TaskStates]
           StatesKept == \A x \in Tasks :
                           IF Runnable(x) THEN Runnable(x)' ELSE state'[x] = state[x]
           OthersKept == \A x \in Tasks :
                           x # active /\ state[x] # "READY" =>
                             x # active' /\ state'[x] = state[x]
<1>3. Chosen /\ StatesKept /\ OthersKept
  <2>1. CASE Keep /\ UNCHANGED <<active, state, ready_list>>
    BY <2>1, <1>t, SchedKeeps DEF Runnable
  <2>2. CASE ~Keep /\ active = Head(ready_list) /\ Reawaken
    <3>1. ready_list # <<>>
      BY <2>2 DEF Keep
    <3> QED BY <2>2, <3>1, <1>t, SchedReawakens DEF Runnable
  <2>3. CASE ~Keep /\ active # Head(ready_list) /\ Switch(Head(ready_list))
    <3>1. ready_list # <<>>
      BY <2>3 DEF Keep
    <3>2. active' \in AllTasks /\ state[active'] = "READY"
      BY <2>3, <3>1, SchedSwitches, ReadyTasks
    <3>3. Chosen
      BY <2>3, <3>1, <3>2, SchedSwitches
    <3>4. \A x \in AllTasks : /\ x \notin {active, active'} => state'[x] = state[x]
                              /\ x # active' /\ Runnable(x) => Runnable(x)'
                              /\ x # active' /\ ~Runnable(x) => state'[x] = state[x]
      BY <2>3, <3>1, SchedSwitches
    <3>5. Runnable(active') /\ state'[active'] = "RUNNING"
      BY <2>3, <3>1, <3>2, SchedSwitches DEF Runnable
    <3> QED BY <3>2, <3>3, <3>4, <3>5 DEF AllTasks, Runnable
  <2> QED BY <2>1, <2>2, <2>3 DEF sched, schedVars
<1> HIDE DEF Chosen, StatesKept, OthersKept
<1>4. \A r : (OnStack(r)' <=> OnStack(r)) /\ (InFlight(r)' <=> InFlight(r))
  BY <1>0 DEF OnStack, InFlight, AboutToPush
<1>5. StackInv'
  <2>1. pending_syscalls = <<>> \/ pend
    BY <1>0 DEF SchedulerInv, StackInv
  <2> QED BY <1>0, <1>4, <2>1 DEF SchedulerInv, StackInv
<1>6. PushInv'
  BY <1>0, <1>3, <1>4 DEF SchedulerInv, PushInv, Runnable, StatesKept
<1>7. PhaseInv'
  BY <1>0, <1>2, <1>3, <1>4 DEF SchedulerInv, PhaseInv, Asks, OthersKept
<1>8. WaitInv' /\ SleepListInv'
  BY <1>0, <1>3 DEF SchedulerInv, WaitInv, SleepListInv, Runnable, StatesKept
<1>9. WaitListInv'
  <2>1. \A x \in Tasks : state'[x] \in {"BLOCKED", "BLOCKED_TIMEOUT"} <=>
                         state[x] \in {"BLOCKED", "BLOCKED_TIMEOUT"}
    BY <1>3 DEF Runnable, StatesKept
  <2> QED BY <1>0, <1>1, <2>1 DEF SchedulerInv, WaitListInv
<1>10. HandlerInv' /\ RunInv' /\ ReadyInv'
  BY <1>0, <1>1, <1>3 DEF HandlerInv, RunInv, Chosen
<1>11. TypeOK'
  <2>1. advance' \in 0..TickMod-1 /\ waiters' \in Nat
    BY <1>0, TickAssumption, SMTT(40)
  <2> QED BY <1>0, <1>3, <2>1 DEF SchedulerInv, TypeOK, HandlerSteps, Chosen, Records
<1> QED BY <1>5, <1>6, <1>7, <1>8, <1>9, <1>10, <1>11 DEF SchedulerInv

-----------------------------------------------------------------------------
(* The whole system.                                                       *)

\* The system call handler.
LEMMA SchedulerHandler == SchedulerInv /\ Handler => SchedulerInv'
<1> SUFFICES ASSUME SchedulerInv, Handler PROVE SchedulerInv'
  OBVIOUS
<1>1. NotHandlers
  BY DEF Handler, NotHandlers, taskVars
<1> QED BY <1>1, HandlerBegins, HandlerTakes, HandlerSleep, HandlerSleepPeriodic,
           HandlerExit, HandlerTaskReady, HandlerSemWait, HandlerSemTimedwait,
           HandlerSemPost, HandlerPostAdd, HandlerPostLoad, HandlerWake, HandlerWakeEnd,
           HandlerTick, HandlerTickReads, HandlerTickWake, HandlerTimeout, HandlerLeave,
           HandlerTimedout, HandlerTickEnd, HandlerSched DEF Handler

\* The stack of rt_start holds the records of the tasks created so far.
LEMMA PushedContains ==
  ASSUME NEW S, NEW q \in Seq(S), IsInjective(q)
  PROVE  /\ PushedInTurn(q) \in Seq(S) /\ IsInjective(PushedInTurn(q))
         /\ \A x : Contains(PushedInTurn(q), x) <=> Contains(q, x)
<1> DEFINE p == PushedInTurn(q)
<1>1. /\ p \in Seq(S) /\ Len(p) = Len(q)
      /\ \A i \in 1..Len(q) : p[i] = q[Len(q) + 1 - i]
  BY SMTT(40) DEF PushedInTurn
<1>2. \A i \in 1..Len(q) : /\ Len(q) + 1 - i \in 1..Len(q)
                           /\ Len(q) + 1 - (Len(q) + 1 - i) = i
  BY SMTT(40)
<1>3. \A a, b \in 1..Len(q) : q[a] = q[b] => a = b
  BY LenProperties DEF IsInjective
<1> HIDE DEF p
<1>4. ASSUME NEW i \in 1..Len(p), NEW j \in 1..Len(p), p[i] = p[j] PROVE i = j
  <2>1. Len(q) + 1 - i = Len(q) + 1 - j
    BY <1>1, <1>2, <1>3, <1>4
  <2> QED BY <2>1, <1>1, SMTT(40)
<1>5. IsInjective(p)
  BY <1>1, <1>4, LenProperties DEF IsInjective
<1>6. \A x : Contains(p, x) => Contains(q, x)
  BY <1>1, <1>2 DEF Contains
<1>7. \A i \in 1..Len(q) : p[Len(q) + 1 - i] = q[i]
  BY <1>1, <1>2
<1>8. \A x : Contains(q, x) => Contains(p, x)
  BY <1>1, <1>2, <1>7 DEF Contains
<1> QED BY <1>1, <1>5, <1>6, <1>8 DEF p

\* rt_start leaves the system in order.
LEMMA SchedulerInit == Init => SchedulerInv
<1> SUFFICES ASSUME Init PROVE SchedulerInv
  OBVIOUS
<1>1. /\ active = Idle /\ ready_list = <<>> /\ sleep_list = <<>> /\ hpc = "idle" /\ pend
      /\ todo = <<>> /\ task = Null /\ current = TickRecord
      /\ state = [t \in AllTasks |-> "RUNNING"]
      /\ wait_list = [s \in Sems |-> <<>>] /\ num_waiters = [s \in Sems |-> 0]
      /\ post_pending = [s \in Sems |-> FALSE] /\ pushing = [t \in Tasks |-> t]
      /\ pending_syscalls = PushedInTurn(Created)
      /\ record = [t \in Tasks |-> Record("TASK_READY", Null, 0, 0)]
      /\ pc = [t \in Tasks |-> IF Contains(Created, t) THEN "user" ELSE "new"]
  BY DEF Init, SemInit, TaskInit
<1>2. /\ pending_syscalls \in Seq(Records) /\ IsInjective(pending_syscalls)
      /\ \A x : Contains(pending_syscalls, x) <=> Contains(Created, x)
      /\ \A x : Contains(Created, x) => x \in Tasks
  <2>1. Created \in Seq(Records)
    BY TasksAssumption, SMTT(40) DEF Records
  <2> QED BY <1>1, <2>1, PushedContains, ContainsType, TasksAssumption
<1>3. /\ Record("TASK_READY", Null, 0, 0) \in RecordType
      /\ \A t \in Tasks : record[t].syscall = "TASK_READY"
  <2>1. 0 \in 0..TickMod-1
    BY TickAssumption, SMTT(40)
  <2>2. /\ Record("TASK_READY", Null, 0, 0) \in RecordType
        /\ Record("TASK_READY", Null, 0, 0).syscall = "TASK_READY"
    BY <2>1, RecordIs, SMTT(40) DEF Syscalls
  <2> QED BY <1>1, <2>2
<1>e. \A x : ~Contains(<<>>, x)
  BY ContainsEmpty
<1>i. IsInjective(<<>>)
  BY SMTT(40) DEF IsInjective
<1>4. /\ \A x : OnStack(x) <=> Contains(Created, x)
      /\ \A x : ~AboutToPush(x)
      /\ \A t \in Tasks : pc[t] # "push"
  BY <1>1, <1>2, <1>e DEF OnStack, AboutToPush
<1>5. StackInv /\ PushInv
  BY <1>1, <1>2, <1>4, <1>e, <1>i, TasksAssumption DEF StackInv, PushInv
<1>6. PhaseInv
  BY <1>1, <1>2, <1>3, <1>4, TasksAssumption DEF PhaseInv, InFlight, Asks, AllTasks
<1>7. WaitInv /\ HandlerInv /\ SleepListInv
  BY <1>1, <1>e, <1>i DEF WaitInv, HandlerInv, SleepListInv, AllTasks
<1>8. ReadyInv /\ RunInv
  <2>1. state[Idle] = "RUNNING" /\ Descending(Priority, <<>>)
    BY <1>1, SMTT(40) DEF AllTasks, Descending
  <2> QED BY <1>1, <1>e, <1>i, <2>1 DEF ReadyInv, RunInv, Runnable
<1>9. WaitListInv
  BY <1>1, <1>e, <1>i DEF WaitListInv, AllTasks
<1>10. TypeOK
  <2>1. 0 \in 0..TickMod-1 /\ SemCount \in [Sems -> Int]
    BY TickAssumption, SemAssumption, SMTT(40)
  <2>2. /\ state \in [AllTasks -> TaskStates] /\ record \in [Tasks -> RecordType]
        /\ pc \in [Tasks -> {"new", "user", "push", "pend"}]
        /\ wait_list \in [Sems -> Seq(Tasks)] /\ num_waiters \in [Sems -> Int]
        /\ post_pending \in [Sems -> BOOLEAN] /\ pushing \in [Tasks -> Tasks]
    BY <1>1, <1>3, SMTT(40) DEF TaskStates
  <2>3. /\ active \in AllTasks /\ ready_list \in Seq(AllTasks) /\ sleep_list \in Seq(Tasks)
        /\ todo \in Seq(Records) /\ pend \in BOOLEAN /\ hpc \in HandlerSteps
        /\ current \in Records /\ task \in Tasks \cup {Null}
    BY <1>1, SMTT(40) DEF AllTasks, HandlerSteps, Records, Init
  <2>4. /\ wake_tick \in [Tasks -> 0..TickMod-1] /\ woken_tick \in 0..TickMod-1
        /\ tick \in Nat /\ tick_pending \in BOOLEAN
        /\ value \in [Sems -> Int] /\ post_n \in [Sems -> Nat]
        /\ sem \in Sems \cup {Null} /\ waiters \in Nat /\ advance \in 0..TickMod-1
        /\ last_wake \in [Tasks -> Nat] /\ credit \in [Sems -> Int]
        /\ asked \in [Tasks -> Nat] /\ due \in [Tasks -> Nat]
        /\ calls \in [Tasks -> Nat] /\ isrs \in Nat
    BY <2>1 DEF Init, SemInit, TaskInit
  <2> QED BY <1>2, <2>2, <2>3, <2>4 DEF TypeOK
<1> QED BY <1>5, <1>6, <1>7, <1>8, <1>9, <1>10 DEF SchedulerInv

\* A step that changes nothing.
LEMMA SchedulerStutter == SchedulerInv /\ UNCHANGED vars => SchedulerInv'
<1> SUFFICES ASSUME SchedulerInv, UNCHANGED vars PROVE SchedulerInv'
  OBVIOUS
<1>1. /\ UNCHANGED <<active, state, ready_list, sleep_list, wake_tick, woken_tick, due,
                     tick, tick_pending, value, num_waiters, wait_list, credit,
                     post_pending, post_n, pending_syscalls, pend, record, hpc, todo>>
      /\ UNCHANGED <<current, task, sem, waiters, advance, pc, pushing, last_wake, asked,
                     calls, isrs>>
  BY DEF vars, schedVars, sleepVars, semVars, postVars, stackVars, handlerVars, localVars,
         taskVars
<1>2. WaitInv' /\ HandlerInv' /\ ReadyInv' /\ RunInv' /\ SleepListInv' /\ WaitListInv'
  BY <1>1, SchedulingUntouched DEF SchedulerInv
<1>3. StackInv' /\ PushInv' /\ PhaseInv'
  BY <1>1, InterruptPushes DEF SchedulerInv
<1>4. TypeOK'
  BY <1>1 DEF SchedulerInv, TypeOK
<1> QED BY <1>2, <1>3, <1>4 DEF SchedulerInv

\* SchedulerInv is an invariant.
LEMMA SchedulerInvariant == Spec => []SchedulerInv
<1>1. SchedulerInv /\ [Next]_vars => SchedulerInv'
  BY SchedulerIsr, SchedulerNewCall, SchedulerContinue, SchedulerHandler, SchedulerStutter
     DEF Next
<1> QED BY <1>1, SchedulerInit, PTL DEF Spec

\* Every variable keeps its type: in particular the lists hold tasks, the stack holds
\* records, and no task or semaphore that does not exist is ever looked at.
THEOREM TypesHold == Spec => []TypeOK
<1>1. SchedulerInv => TypeOK
  BY DEF SchedulerInv
<1> QED BY <1>1, SchedulerInvariant, PTL

\* A record is never pushed while it is still on the stack, however interrupts, tasks and
\* the handler interleave: tick_pending and post_pending see to it (muntos.c:224, sem.c:49).
THEOREM RecordsPushedOnceHolds == Spec => []RecordsPushedOnce
<1>1. SchedulerInv => RecordsPushedOnce
  BY ConcatInjective DEF SchedulerInv, TypeOK, StackInv, RecordsPushedOnce
<1> QED BY <1>1, SchedulerInvariant, PTL

\* The ready list, the sleep list and the wait lists agree with the states of the tasks at
\* every step of rt_syscall_run, also between the turns of its loops.
THEOREM ListsMatchStatesHolds == Spec => []ListsMatchStates
<1>1. SchedulerInv => ListsMatchStates
  <2> SUFFICES ASSUME SchedulerInv PROVE ListsMatchStates
    OBVIOUS
  <2>1. \A t \in Range(ready_list) : state[t] = "READY"
    BY ContainsRange, ContainsType DEF SchedulerInv, TypeOK, ReadyInv
  <2> QED BY <2>1 DEF SchedulerInv, ReadyInv, SleepListInv, WaitListInv, ListsMatchStates
<1> QED BY <1>1, SchedulerInvariant, PTL

\* The task that sched has chosen can run and is on no list (muntos.c:81-142).
THEOREM RunnableTaskRunsHolds == Spec => []RunnableTaskRuns
<1>1. SchedulerInv => RunnableTaskRuns
  BY DEF SchedulerInv, RunInv, Runnable, RunnableTaskRuns, TaskLevel
<1> QED BY <1>1, SchedulerInvariant, PTL

\* Whenever a task executes, no ready task has a higher priority: sched is called once all
\* records have been processed, and none is left when the handler returns.
THEOREM HighestPriorityRunsHolds == Spec => []HighestPriorityRuns
<1>1. SchedulerInv => HighestPriorityRuns
  BY ContainsRange, ContainsType DEF SchedulerInv, TypeOK, RunInv, HighestPriorityRuns, TaskLevel
<1> QED BY <1>1, SchedulerInvariant, PTL

=============================================================================
