------------------------------- MODULE Kernel -------------------------------
(***************************************************************************)
(* The muntos kernel: the scheduler, the system call handler, ticks and    *)
(* sleeping (src/src/muntos.c, src/src/sleep.c) and the semaphores built   *)
(* on them (src/src/sem.c).                                                *)
(*                                                                         *)
(* One core runs three kinds of code.  Interrupts preempt everything.  The *)
(* system call handler (rt_syscall_run) runs when it has been pended and   *)
(* no interrupt is active, and before any task gets to run.  The active    *)
(* task runs otherwise.  An interrupt is one action: it runs to completion *)
(* as far as tasks and the handler can see.  The handler and the tasks are *)
(* split wherever an interrupt (and, for a task, another task) can observe *)
(* or change what they use.                                                *)
(***************************************************************************)
EXTENDS RtList, FiniteSets

CONSTANTS
  Tasks,        \* every task but the idle task
  Idle,         \* the idle task
  Priority,     \* priority of each task
  Created,      \* the tasks created before rt_start, in creation order
  Sems,         \* semaphores; a semaphore also names its post_record
  TickRecord,   \* the record of RT_SYSCALL_TICK
  Null,
  SemCount,     \* initial count of each semaphore
  SemMax,       \* max_value of each semaphore
  TickMod,      \* 2^w for the width w of unsigned long
  Calls,        \* the API calls each task may make
  IsrCalls,     \* the API calls interrupts may make
  SleepTicks, Periods, Timeouts,  \* arguments of the calls that sleep
  PostCounts, IsrPostCounts,      \* arguments of rt_sem_post_n
  MaxCalls,     \* bound: calls made by each task
  MaxTick,      \* bound: ticks since boot
  MaxIsr        \* bound: semaphore calls made by interrupts

CallNames == {"yield", "sleep", "sleep_periodic", "wait", "timedwait",
              "trywait", "post", "exit", "init"}

IsrCallNames == {"tick", "trywait", "post"}

AllTasks == Tasks \cup {Idle}

Records == Tasks \cup Sems \cup {TickRecord}

ASSUME TasksAssumption ==
  /\ IsFiniteSet(Tasks) /\ Idle \notin Tasks /\ Null \notin Tasks \cup Sems
  /\ Tasks \cap Sems = {} /\ TickRecord \notin Tasks \cup Sems
  /\ Created \in Seq(Tasks) /\ IsInjective(Created)

ASSUME PriorityAssumption ==
  /\ Priority \in [AllTasks -> Nat]
  /\ Priority[Idle] = 0

ASSUME SemAssumption ==
  /\ SemCount \in [Sems -> Nat] /\ SemMax \in [Sems -> Nat]
  /\ \A s \in Sems : SemCount[s] <= SemMax[s]

ASSUME TickAssumption == TickMod \in Nat /\ TickMod > 1

ASSUME CallAssumption ==
  /\ Calls \in [Tasks -> SUBSET CallNames] /\ IsrCalls \subseteq IsrCallNames
  /\ SleepTicks \subseteq 0..TickMod-1 /\ Periods \subseteq 0..TickMod-1
  /\ Timeouts \subseteq 0..TickMod-1
  /\ PostCounts \subseteq Nat \ {0} /\ IsrPostCounts \subseteq Nat \ {0}
  /\ MaxCalls \in Nat /\ MaxTick \in Nat /\ MaxIsr \in Nat

VARIABLES
  active,       \* active_task
  state,        \* rt_task.state
  ready_list,
  sleep_list,
  wake_tick,    \* rt_task.wake_tick
  woken_tick,
  tick,         \* ticks since boot; rt_tick() returns its low w bits
  tick_pending,
  value,        \* rt_sem.value
  num_waiters,  \* rt_sem.num_waiters
  wait_list,    \* rt_sem.wait_list
  post_pending, \* rt_sem.post_pending
  post_n,       \* rt_sem.post_record.args.sem_post.n
  pending_syscalls, \* stack of records, most recent first
  record,       \* rt_task.record
  pend,         \* the system call interrupt is pending
  hpc,          \* where the system call handler is
  todo,         \* records the handler has taken and not yet looked at
  current,      \* the record the handler is processing
  task,         \* tick_syscall: the task whose timed wait is being ended
  sem,          \* the semaphore posted to, or whose waiters are being woken
  waiters,      \* wake_sem_waiters: waiters
  advance,      \* tick_syscall: ticks_to_advance
  pc,           \* where each task is inside an API call
  pushing,      \* the record each task is passing to rt_syscall
  last_wake,    \* each task's variable *last_wake_tick, unwrapped
  calls, isrs,  \* how much of the bounds MaxCalls and MaxIsr is used
  credit,       \* history: units posted and not yet acquired
  asked,        \* history: the tick before which a call must not time out
  due           \* history: the tick by which a sleeping task must be woken

schedVars == <<active, state, ready_list>>
sleepVars == <<sleep_list, wake_tick, woken_tick, due>>
semVars == <<value, num_waiters, wait_list, credit>>
postVars == <<post_pending, post_n>>
stackVars == <<pending_syscalls, pend>>
localVars == <<current, task, sem, waiters, advance>>
handlerVars == <<hpc, todo, localVars>>
taskVars == <<pc, pushing, last_wake, asked, calls>>
vars == <<schedVars, sleepVars, tick, tick_pending, semVars, postVars,
          stackVars, record, handlerVars, taskVars, isrs>>

-----------------------------------------------------------------------------
Syscalls == {"EXIT", "SLEEP", "SLEEP_PERIODIC", "SEM_WAIT", "SEM_TIMEDWAIT",
             "SEM_POST", "TASK_READY"}

\* A record and its arguments; n is the ticks, the period or the post count.
Record(syscall, s, n, last) ==
  [syscall |-> syscall, sem |-> s, n |-> n, last |-> last]

SyscallOf(r) == IF r = TickRecord THEN "TICK"
                ELSE IF r \in Sems THEN "SEM_POST" ELSE record[r].syscall

SemOf(r) == IF r \in Sems THEN r ELSE record[r].sem

PostCount(r) == IF r \in Sems THEN post_n[r] ELSE record[r].n

rt_tick == tick % TickMod

\* The handler has nothing to do and no interrupt has pended it: the active
\* task executes.
TaskLevel == hpc = "idle" /\ ~pend

\* rt_sem_init, rt_sem_init_binary, rt_sem_init_max and the RT_SEM macros.
SemInit ==
  /\ value = SemCount
  /\ num_waiters = [s \in Sems |-> 0] /\ wait_list = [s \in Sems |-> <<>>]
  /\ post_pending = [s \in Sems |-> FALSE] /\ post_n = [s \in Sems |-> 0]

\* The stack after records have been pushed one after the other.
PushedInTurn(rs) == [i \in 1..Len(rs) |-> rs[Len(rs) + 1 - i]]

\* The RT_TASK macros, and rt_task_init called before rt_start, push the records
\* of the tasks; a static task is RUNNING (zero) until its record is processed.
TaskInit ==
  /\ state = [t \in AllTasks |-> "RUNNING"]
  /\ wake_tick = [t \in Tasks |-> 0]
  /\ record = [t \in Tasks |-> Record("TASK_READY", Null, 0, 0)]
  /\ pending_syscalls = PushedInTurn(Created)
  /\ pc = [t \in Tasks |-> IF Contains(Created, t) THEN "user" ELSE "new"]

\* The state rt_start leaves behind: the idle task runs and the handler is
\* pended.
Init ==
  /\ active = Idle
  /\ ready_list = <<>> /\ sleep_list = <<>> /\ woken_tick = 0
  /\ tick = 0 /\ tick_pending = FALSE
  /\ SemInit /\ TaskInit
  /\ pend = TRUE
  /\ hpc = "idle" /\ todo = <<>> /\ current = TickRecord
  /\ task = Null /\ sem = Null /\ waiters = 0 /\ advance = 0
  /\ pushing = [t \in Tasks |-> t]
  /\ last_wake = [t \in Tasks |-> 0]
  /\ credit = SemCount
  /\ asked = [t \in Tasks |-> 0] /\ due = [t \in Tasks |-> 0]
  /\ calls = [t \in Tasks |-> 0] /\ isrs = 0

-----------------------------------------------------------------------------
(* Lists and counts.  An operator whose comment begins with "Mutant" is a  *)
(* wrong form of the definition after it, which some property must reject. *)

task_priority_greater_than(a, b) == Priority[a] > Priority[b]

\* Mutant: first come, first served.
insert_by_priority_fifo(list, t) == Append(list, t)

insert_by_priority(list, t) ==
  rt_list_insert_by(list, t, {u \in AllTasks : task_priority_greater_than(t, u)})

\* Ticks from woken_tick to tick w, in unsigned arithmetic.
TicksTo(w) == (w - woken_tick) % TickMod

\* Mutant: wake ticks are compared without regard to wrapping.
wake_tick_less_than_unwrapped(v, w) == v < w

wake_tick_less_than(v, w) == TicksTo(v) < TicksTo(w)

sleep_until(t, w) ==
  LET later == {u \in Tasks : wake_tick_less_than(w, wake_tick[u])}
  IN /\ wake_tick' = [wake_tick EXCEPT ![t] = w]
     /\ sleep_list' = rt_list_insert_by(sleep_list, t, later)

\* Mutant: the task stays on the sleep list.
LeaveSleepList_kept(t) == UNCHANGED sleep_list

LeaveSleepList(t) == sleep_list' = rt_list_remove(sleep_list, t)

task_ready(t) ==
  /\ state' = [state EXCEPT ![t] = "READY"]
  /\ ready_list' = insert_by_priority(ready_list, t)

new_value(v, n, max) == IF v <= max - n THEN v + n ELSE max

rt_sem_add_n(s, n) == value' = [value EXCEPT ![s] = new_value(@, n, SemMax[s])]

-----------------------------------------------------------------------------
(* Interrupts.                                                             *)

\* Mutant: the handler is not pended.
IsrSyscall_unpended(r) ==
  pending_syscalls' = <<r>> \o pending_syscalls /\ UNCHANGED pend

\* rt_syscall from an interrupt: push the record and pend the handler.
IsrSyscall(r) == pending_syscalls' = <<r>> \o pending_syscalls /\ pend' = TRUE

\* The tick interrupt.  Fewer than 2^w ticks pass between two runs of
\* tick_syscall.
rt_tick_advance ==
  /\ "tick" \in IsrCalls /\ tick < MaxTick /\ TicksTo(tick) < TickMod - 1
  /\ tick' = tick + 1
  /\ tick_pending' = TRUE
  /\ IF tick_pending THEN UNCHANGED stackVars ELSE IsrSyscall(TickRecord)
  /\ UNCHANGED <<value, credit, postVars, isrs>>

\* Mutant: the record is pushed whether it is in use or not.
PostRecordInUse_ignored(s) == FALSE

PostRecordInUse(s) == post_pending[s]

AddDirectly(s, n) == rt_sem_add_n(s, n)

\* sem_post_syscall from an interrupt uses the semaphore's own record, once at a
\* time.
sem_post_syscall(s, n) ==
  IF PostRecordInUse(s)
  THEN AddDirectly(s, n) /\ UNCHANGED <<postVars, stackVars>>
  ELSE /\ post_pending' = [post_pending EXCEPT ![s] = TRUE]
       /\ post_n' = [post_n EXCEPT ![s] = n]
       /\ IsrSyscall(s)
       /\ UNCHANGED value

isr_sem_post_n(s, n) ==
  /\ "post" \in IsrCalls /\ isrs < MaxIsr /\ isrs' = isrs + 1
  /\ IF value[s] < 0 THEN sem_post_syscall(s, n)
     ELSE rt_sem_add_n(s, n) /\ UNCHANGED <<postVars, stackVars>>
  /\ credit' = [credit EXCEPT ![s] = @ + n]
  /\ UNCHANGED <<tick, tick_pending>>

\* Mutant: an off-by-one in the test of the count.
CanTake_zero(s) == value[s] >= 0

CanTake(s) == value[s] > 0

isr_sem_trywait(s) ==
  /\ "trywait" \in IsrCalls /\ isrs < MaxIsr /\ isrs' = isrs + 1
  /\ CanTake(s)
  /\ value' = [value EXCEPT ![s] = @ - 1]
  /\ credit' = [credit EXCEPT ![s] = @ - 1]
  /\ UNCHANGED <<tick, tick_pending, postVars, stackVars>>

Isr ==
  /\ \/ rt_tick_advance
     \/ \E s \in Sems : \/ isr_sem_trywait(s)
                        \/ \E n \in IsrPostCounts : isr_sem_post_n(s, n)
  /\ UNCHANGED <<schedVars, sleepVars, num_waiters, wait_list, record,
                 handlerVars, taskVars>>

-----------------------------------------------------------------------------
(* Tasks.  A call that needs the handler fills a record, pushes it and     *)
(* pends the handler; the task can be preempted between any two of these.  *)

\* Task t, running its own code, makes the API call c.
Call(t, c) ==
  /\ TaskLevel /\ active = t /\ pc[t] = "user"
  /\ c \in Calls[t] /\ calls[t] < MaxCalls
  /\ calls' = [calls EXCEPT ![t] = @ + 1]

\* The call ends without a system call.
Return == UNCHANGED <<record, pc, pushing, asked>>

\* The call goes on to rt_syscall with t's own record; a call that sleeps must
\* not return before the tick wake.
SleepSyscall(t, rec, wake) ==
  /\ record' = [record EXCEPT ![t] = rec]
  /\ pc' = [pc EXCEPT ![t] = "push"]
  /\ pushing' = [pushing EXCEPT ![t] = t]
  /\ asked' = [asked EXCEPT ![t] = wake]

Syscall(t, rec) == SleepSyscall(t, rec, asked[t])

rt_task_yield(t) ==
  /\ Call(t, "yield")
  /\ pend' = TRUE
  /\ Return
  /\ UNCHANGED <<value, credit, wake_tick, last_wake>>

rt_task_exit(t) ==
  /\ Call(t, "exit")
  /\ Syscall(t, Record("EXIT", Null, 0, 0))
  /\ UNCHANGED <<value, credit, wake_tick, last_wake, pend>>

rt_sleep(t, ticks) ==
  /\ Call(t, "sleep") /\ ticks # 0
  /\ SleepSyscall(t, Record("SLEEP", Null, ticks, 0), tick + ticks)
  /\ UNCHANGED <<value, credit, wake_tick, last_wake, pend>>

rt_sleep_periodic(t, period) ==
  /\ Call(t, "sleep_periodic") /\ period # 0
  /\ SleepSyscall(t, Record("SLEEP_PERIODIC", Null, period,
                            last_wake[t] % TickMod), last_wake[t] + period)
  /\ last_wake' = [last_wake EXCEPT ![t] = @ + period]
  /\ UNCHANGED <<value, credit, wake_tick, pend>>

\* The decrement that starts a wait; the wait is over when the count was
\* positive.
TakeUnit(s) ==
  /\ value' = [value EXCEPT ![s] = @ - 1]
  /\ credit' = [credit EXCEPT ![s] = IF value[s] > 0 THEN @ - 1 ELSE @]

rt_sem_wait(t, s) ==
  /\ Call(t, "wait")
  /\ TakeUnit(s)
  /\ IF value[s] > 0 THEN Return ELSE Syscall(t, Record("SEM_WAIT", s, 0, 0))
  /\ UNCHANGED <<wake_tick, last_wake, pend>>

\* With no unit to take and a timeout of zero the call returns false at once.
rt_sem_timedwait(t, s, ticks) ==
  /\ Call(t, "timedwait")
  /\ TakeUnit(s)
  /\ IF value[s] > 0 \/ ticks = 0 THEN Return
     ELSE SleepSyscall(t, Record("SEM_TIMEDWAIT", s, ticks, 0), tick + ticks)
  /\ UNCHANGED <<wake_tick, last_wake, pend>>

rt_sem_trywait(t, s) ==
  /\ Call(t, "trywait")
  /\ CanTake(s) /\ TakeUnit(s)
  /\ Return
  /\ UNCHANGED <<wake_tick, last_wake, pend>>

rt_sem_post_n(t, s, n) ==
  /\ Call(t, "post")
  /\ IF value[s] < 0
     THEN Syscall(t, Record("SEM_POST", s, n, 0)) /\ UNCHANGED value
     ELSE rt_sem_add_n(s, n) /\ Return
  /\ credit' = [credit EXCEPT ![s] = @ + n]
  /\ UNCHANGED <<wake_tick, last_wake, pend>>

\* rt_task_init of a task that has not been created yet or that has exited.
rt_task_init(t, u) ==
  /\ Call(t, "init")
  /\ pc[u] = "new" \/ (state[u] = "EXITED" /\ record[u].syscall = "EXIT")
  /\ record' = [record EXCEPT ![u] = Record("TASK_READY", Null, 0, 0)]
  /\ wake_tick' = [wake_tick EXCEPT ![u] = 0]
  /\ pc' = [pc EXCEPT ![t] = "push", ![u] = "user"]
  /\ pushing' = [pushing EXCEPT ![t] = u]
  /\ UNCHANGED <<value, credit, asked, last_wake, pend>>

NewCall ==
  /\ \E t \in Tasks :
       \/ rt_task_yield(t) \/ rt_task_exit(t)
       \/ \E n \in SleepTicks : rt_sleep(t, n)
       \/ \E n \in Periods : rt_sleep_periodic(t, n)
       \/ \E s \in Sems :
            \/ rt_sem_wait(t, s) \/ rt_sem_trywait(t, s)
            \/ \E n \in Timeouts : rt_sem_timedwait(t, s, n)
            \/ \E n \in PostCounts : rt_sem_post_n(t, s, n)
       \/ \E u \in Tasks \ {t} : rt_task_init(t, u)
  /\ UNCHANGED <<schedVars, sleep_list, woken_tick, due, tick, tick_pending,
                 num_waiters, wait_list, postVars, pending_syscalls,
                 handlerVars, isrs>>

\* rt_syscall: the compare-and-swap that puts the record on the stack.
rt_syscall(t) ==
  /\ TaskLevel /\ active = t /\ pc[t] = "push"
  /\ pending_syscalls' = <<pushing[t]>> \o pending_syscalls
  /\ pc' = [pc EXCEPT ![t] = "pend"]
  /\ UNCHANGED pend

\* rt_syscall: the call of rt_syscall_pend.
rt_syscall_pend(t) ==
  /\ TaskLevel /\ active = t /\ pc[t] = "pend"
  /\ pend' = TRUE
  /\ pc' = [pc EXCEPT ![t] = "user"]
  /\ UNCHANGED pending_syscalls

\* The active task goes on with a call it has begun.
Continue ==
  /\ \E t \in Tasks : rt_syscall(t) \/ rt_syscall_pend(t)
  /\ UNCHANGED <<schedVars, sleepVars, tick, tick_pending, semVars, postVars,
                 record, handlerVars, pushing, last_wake, asked, calls, isrs>>

-----------------------------------------------------------------------------
(* The system call handler.                                                *)

dataVars == <<schedVars, sleepVars, semVars, record>>
sharedVars == <<tick_pending, post_pending, stackVars>>

\* The system call interrupt is cleared before rt_syscall_run is called.
rt_syscall_handler ==
  /\ hpc = "idle" /\ pend
  /\ pend' = FALSE /\ hpc' = "take"
  /\ UNCHANGED <<dataVars, tick_pending, post_pending, pending_syscalls, todo,
                 localVars>>

\* Take all the records pushed so far.
rt_syscall_run ==
  /\ hpc = "take"
  /\ todo' = pending_syscalls /\ pending_syscalls' = <<>>
  /\ hpc' = "next"
  /\ UNCHANGED <<dataVars, tick_pending, post_pending, pend, localVars>>

\* The next record to process is one of the given system call.
Dispatch(syscall) ==
  /\ hpc = "next" /\ todo # <<>> /\ SyscallOf(Head(todo)) = syscall
  /\ todo' = Tail(todo) /\ current' = Head(todo)

syscall_sleep ==
  LET t == Head(todo) IN
  /\ Dispatch("SLEEP")
  /\ state' = [state EXCEPT ![t] = "ASLEEP"]
  /\ sleep_until(t, (woken_tick + record[t].n) % TickMod)
  /\ due' = [due EXCEPT ![t] = tick + record[t].n]
  /\ UNCHANGED <<active, ready_list, woken_tick, semVars, record, sharedVars,
                 hpc, task, sem, waiters, advance>>

\* The desired wake tick is in the future only if fewer ticks than the period
\* have passed since the last wake.  A call made 2^w ticks or more after the
\* last wake cannot be told from an early one.
syscall_sleep_periodic ==
  LET t == Head(todo) IN
  /\ Dispatch("SLEEP_PERIODIC")
  /\ IF (woken_tick - record[t].last) % TickMod < record[t].n
     THEN /\ state' = [state EXCEPT ![t] = "ASLEEP"]
          /\ sleep_until(t, (record[t].last + record[t].n) % TickMod)
          /\ due' = [due EXCEPT ![t] = IF tick < asked[t] - record[t].n + TickMod
                                       THEN asked[t] ELSE tick + record[t].n]
     ELSE UNCHANGED <<state, sleep_list, wake_tick, due>>
  /\ UNCHANGED <<active, ready_list, woken_tick, semVars, record, sharedVars,
                 hpc, task, sem, waiters, advance>>

syscall_exit ==
  /\ Dispatch("EXIT")
  /\ state' = [state EXCEPT ![Head(todo)] = "EXITED"]
  /\ UNCHANGED <<active, ready_list, sleepVars, semVars, record, sharedVars,
                 hpc, task, sem, waiters, advance>>

syscall_task_ready ==
  /\ Dispatch("TASK_READY")
  /\ task_ready(Head(todo))
  /\ UNCHANGED <<active, sleepVars, semVars, record, sharedVars, hpc, task,
                 sem, waiters, advance>>

\* Mutants: the count of waiters is not clipped at zero; wakes are not evaluated.
EvaluateWakes_unclipped(s) == sem' = s /\ waiters' = -value[s] /\ hpc' = "wake"
EvaluateWakes_skipped(s) == sem' = s /\ waiters' = 0 /\ hpc' = "next"

\* The call of wake_sem_waiters and its first statement, which reads the count.
EvaluateWakes(s) ==
  /\ sem' = s
  /\ waiters' = IF value[s] < 0 THEN -value[s] ELSE 0
  /\ hpc' = "wake"

\* A waiting task joins the wait list of s.
JoinWaiters(t, s) ==
  /\ wait_list' = [wait_list EXCEPT ![s] = insert_by_priority(@, t)]
  /\ num_waiters' = [num_waiters EXCEPT ![s] = @ + 1]

syscall_sem_wait ==
  LET t == Head(todo) IN
  /\ Dispatch("SEM_WAIT")
  /\ state' = [state EXCEPT ![t] = "BLOCKED"]
  /\ JoinWaiters(t, record[t].sem)
  /\ EvaluateWakes(record[t].sem)
  /\ UNCHANGED <<active, ready_list, sleepVars, value, credit, record,
                 sharedVars, task, advance>>

syscall_sem_timedwait ==
  LET t == Head(todo) IN
  /\ Dispatch("SEM_TIMEDWAIT")
  /\ state' = [state EXCEPT ![t] = "BLOCKED_TIMEOUT"]
  /\ JoinWaiters(t, record[t].sem)
  /\ sleep_until(t, (woken_tick + record[t].n) % TickMod)
  /\ due' = [due EXCEPT ![t] = tick + record[t].n]
  /\ EvaluateWakes(record[t].sem)
  /\ UNCHANGED <<active, ready_list, woken_tick, value, credit, record,
                 sharedVars, task, advance>>

\* RT_SYSCALL_SEM_POST: allow interrupts to use the semaphore's record again.
syscall_sem_post ==
  /\ Dispatch("SEM_POST")
  /\ post_pending' = [s \in Sems |-> post_pending[s] /\ s # Head(todo)]
  /\ sem' = SemOf(Head(todo))
  /\ hpc' = "post"
  /\ UNCHANGED <<dataVars, tick_pending, stackVars, task, waiters, advance>>

\* RT_SYSCALL_SEM_POST: read the record's n and add it to the count.
syscall_sem_post_add ==
  /\ hpc = "post"
  /\ rt_sem_add_n(sem, PostCount(current))
  /\ hpc' = "load"
  /\ UNCHANGED <<schedVars, sleepVars, num_waiters, wait_list, credit, record,
                 sharedVars, todo, localVars>>

syscall_sem_post_load ==
  /\ hpc = "load"
  /\ EvaluateWakes(sem)
  /\ UNCHANGED <<dataVars, sharedVars, todo, current, task, advance>>

\* wake_sem_waiters, one turn of its loop.
wake_sem_waiters ==
  LET t == Head(wait_list[sem]) IN
  /\ hpc = "wake" /\ num_waiters[sem] > waiters
  /\ wait_list' = [wait_list EXCEPT ![sem] = Tail(@)]
  /\ num_waiters' = [num_waiters EXCEPT ![sem] = @ - 1]
  /\ LeaveSleepList(t)
  /\ task_ready(t)
  /\ credit' = [credit EXCEPT ![sem] = @ - 1]
  /\ UNCHANGED <<active, wake_tick, woken_tick, due, value, record, sharedVars,
                 handlerVars>>

wake_sem_waiters_end ==
  /\ hpc = "wake" /\ num_waiters[sem] <= waiters
  /\ hpc' = IF current = TickRecord THEN "timedout" ELSE "next"
  /\ UNCHANGED <<dataVars, sharedVars, todo, localVars>>

\* Mutant: the flag stays set.
ClearTickPending_forgotten == UNCHANGED tick_pending

ClearTickPending == tick_pending' = FALSE

\* RT_SYSCALL_TICK: allow the tick interrupt to use its record again.
syscall_tick ==
  /\ Dispatch("TICK")
  /\ ClearTickPending
  /\ hpc' = "tick"
  /\ UNCHANGED <<dataVars, post_pending, stackVars, task, sem, waiters, advance>>

tick_syscall ==
  /\ hpc = "tick"
  /\ advance' = TicksTo(rt_tick)
  /\ hpc' = "expire"
  /\ UNCHANGED <<dataVars, sharedVars, todo, current, task, sem, waiters>>

Sleeper == Head(sleep_list)

\* Mutant: off-by-one in the comparison with the wake tick.
Expired_late == sleep_list # <<>> /\ TicksTo(wake_tick[Sleeper]) < advance

\* The task at the front of the sleep list has reached its wake tick.
Expired == sleep_list # <<>> /\ TicksTo(wake_tick[Sleeper]) <= advance

TimedWaiter == record[Sleeper].syscall = "SEM_TIMEDWAIT"

tick_syscall_wake ==
  /\ hpc = "expire" /\ Expired /\ ~TimedWaiter
  /\ LeaveSleepList(Sleeper)
  /\ task_ready(Sleeper)
  /\ UNCHANGED <<active, wake_tick, woken_tick, due, semVars, record,
                 sharedVars, handlerVars>>

\* Mutant: the unit is not given back.
GiveBack_forgotten(s) == UNCHANGED value

GiveBack(s) == rt_sem_add_n(s, 1)

\* A timed wait that has run out first gives its unit back,
tick_syscall_timeout ==
  /\ hpc = "expire" /\ Expired /\ TimedWaiter
  /\ task' = Sleeper /\ sem' = record[Sleeper].sem
  /\ GiveBack(record[Sleeper].sem)
  /\ hpc' = "timeout"
  /\ UNCHANGED <<schedVars, sleepVars, num_waiters, wait_list, credit, record,
                 sharedVars, todo, current, waiters, advance>>

\* then leaves the wait list, after which other waiters may have to be woken,
tick_syscall_leave ==
  /\ hpc = "timeout"
  /\ wait_list' = [wait_list EXCEPT ![sem] = rt_list_remove(@, task)]
  /\ num_waiters' = [num_waiters EXCEPT ![sem] = @ - 1]
  /\ EvaluateWakes(sem)
  /\ UNCHANGED <<schedVars, sleepVars, value, credit, record, sharedVars, todo,
                 current, task, advance>>

\* and is made ready, with sem set to NULL to tell it that it timed out.
tick_syscall_timedout ==
  /\ hpc = "timedout"
  /\ record' = [record EXCEPT ![task].sem = Null]
  /\ LeaveSleepList(task)
  /\ task_ready(task)
  /\ task' = Null
  /\ hpc' = "expire"
  /\ UNCHANGED <<active, wake_tick, woken_tick, due, semVars, sharedVars, todo,
                 current, sem, waiters, advance>>

tick_syscall_end ==
  /\ hpc = "expire" /\ ~Expired
  /\ woken_tick' = (woken_tick + advance) % TickMod
  /\ hpc' = "next"
  /\ UNCHANGED <<schedVars, sleep_list, wake_tick, due, semVars, record,
                 sharedVars, todo, localVars>>

\* The active task has not suspended itself since it was switched to.
still_running == state[active] = "RUNNING"

\* Mutant: the state of the active task is not looked at.
Keep_suspended ==
  ready_list # <<>> => Priority[active] > Priority[Head(ready_list)]

\* The active task goes on: there is nothing to run, or nothing of its priority.
Keep ==
  ready_list # <<>> =>
    still_running /\ Priority[active] > Priority[Head(ready_list)]

\* The active task was suspended and woken again, and is the first to run.
Reawaken ==
  /\ ready_list' = Tail(ready_list)
  /\ UNCHANGED <<active, state>>

\* Mutant: the task that is switched away from is not made ready.
Requeue_forgotten(list) == list

Requeue(list) == IF still_running THEN insert_by_priority(list, active) ELSE list

Switch(next) ==
  /\ ready_list' = Requeue(Tail(ready_list))
  /\ state' = [state EXCEPT ![active] = IF still_running THEN "READY" ELSE @,
                            ![next] = "RUNNING"]
  /\ active' = next

sched ==
  /\ hpc = "next" /\ todo = <<>>
  /\ \/ Keep /\ UNCHANGED schedVars
     \/ ~Keep /\ active = Head(ready_list) /\ Reawaken
     \/ ~Keep /\ active # Head(ready_list) /\ Switch(Head(ready_list))
  /\ hpc' = "idle"
  /\ current' = TickRecord /\ sem' = Null /\ waiters' = 0 /\ advance' = 0
  /\ UNCHANGED <<sleepVars, semVars, record, sharedVars, todo, task>>

Handler ==
  /\ \/ rt_syscall_handler \/ rt_syscall_run
     \/ syscall_sleep \/ syscall_sleep_periodic \/ syscall_exit
     \/ syscall_task_ready \/ syscall_sem_wait \/ syscall_sem_timedwait
     \/ syscall_sem_post \/ syscall_sem_post_add \/ syscall_sem_post_load
     \/ wake_sem_waiters \/ wake_sem_waiters_end
     \/ syscall_tick \/ tick_syscall \/ tick_syscall_wake
     \/ tick_syscall_timeout \/ tick_syscall_leave \/ tick_syscall_timedout
     \/ tick_syscall_end \/ sched
  /\ UNCHANGED <<tick, post_n, taskVars, isrs>>

Next == Isr \/ NewCall \/ Continue \/ Handler

Spec == Init /\ [][Next]_vars

TickInterrupt == rt_tick_advance /\ Isr

\* The handler runs when it is pended, the active task gets on with the call it
\* has made, and the tick interrupt keeps coming.  Whether a task makes another
\* call is up to the application.
Fairness == WF_vars(Handler) /\ WF_vars(Continue) /\ WF_vars(TickInterrupt)

LiveSpec == Spec /\ Fairness

=============================================================================
