# A formal model of muntos

muntos is a small real-time kernel in C: a preemptive fixed-priority scheduler,
semaphores, the synchronisation objects built on semaphores, and ports to POSIX
threads and to the Arm architectures. This directory
holds TLA+ modules translated from its source, TLC configurations that check
them on small instances, and proofs, checked by TLAPS, that hold for every
instance.

## The system

| Component | Source | State | Operations |
|---|---|---|---|
| scheduler | `src/muntos.c`, `task.h` | `active_task`, `ready_list`, the state and priority of each task | `sched`, `rt_task_init`, `rt_task_yield`, `rt_task_exit` |
| system calls | `src/muntos.c`, `syscall.h` | `pending_syscalls` (a lock-free stack linked through the records), the records of tasks, semaphores and the tick, whether the handler is pended | `rt_syscall`, `rt_syscall_pend`, `rt_syscall_run` |
| ticks and sleeping | `src/muntos.c`, `src/sleep.c` | `tick`, `tick_pending`, `woken_tick`, `sleep_list`, wake ticks | `rt_tick_advance`, `tick_syscall`, `rt_sleep`, `rt_sleep_periodic` |
| semaphores | `src/sem.c` | `value`, `max_value`, `num_waiters`, `wait_list`, `post_pending`, `post_record` | `rt_sem_wait`, `_trywait`, `_timedwait`, `_post`, `_post_n`, `_add_n`, the initialisers |
| lists | `src/list.c` | `prev` and `next` of each node | insertion, removal, `insert_by`, `move_all` |
| mutexes, condition variables | `src/mutex.c`, `src/cond.c` | a semaphore with maximum 1 or 0 | lock, unlock, wait, signal, broadcast, with timeouts |
| barriers, rwlocks, once, notifications | `src/barrier.c`, `src/rwlock.c`, `src/once.c`, `src/notify.c` | counters over the objects above | wait; lock and unlock; once; notify and wait |
| queues | `src/queue.c` | slots with a state and a generation, `enq`, `deq`, two semaphores | push, pop, peek, with try and timed forms |
| pthread port | `arch/pthread/pthread.c` | a thread per task, signal masks, pending signals, handlers | context creation and switch, pend, tick, start, stop |
| Arm port | `arch/arm/arm.c`, `arch/arm/{m,r}/*.S` | registers, stacks, floating-point and privilege state | context creation and switch |
| MPU | `arch/arm/include/muntos/arch/mpu.h` | the regions of each task, the registers of the unit | size and subregion computation, configuration, writing it at a switch |
| Armv6-M atomics | `arch/arm/m/atomic-v6.c` | a word, the interrupt mask | the atomic operations, by masking interrupts |

How they interact: a task that has to be suspended, or that has to wake another
task, fills a record, pushes it and pends the handler. Interrupts do the same
with the tick's record and with the record inside each semaphore. The handler
takes the whole stack at once, processes the records (the last one pushed comes
first), which moves tasks between the ready list, the sleep list and the wait
lists, and then chooses the task to run. The other objects are code of tasks on
top of semaphores; the port supplies the pend, the switch of contexts and the
atomic operations.

What is hard to test, and where the properties below aim: interrupts between any
two steps of the handler and of a task; flags that are cleared while the record
they guard is still being read; posts that arrive between the decrement of a
wait and its system call; timeouts that race with posts; records processed in
the opposite order of the calls; a tick counter that wraps around; tasks that
are suspended and woken within one run of the handler; a barrier whose next round
begins before the last has been left; a signal sent to a thread that does not wait
for it yet; a layout in C, a save and a restore in assembly that have to agree in
every build. `PROJECT.json` lists them under `hazards`, each at its line.

## Modules

**`RtList`** gives the list operations the kernel uses (`src/list.c`) as
operators on sequences: a list head is the sequence of the nodes linked to it.
Removal is by position, so that what an operation does to a list without repeated
nodes can be stated and proved for lists of any length (**`RtListProofs`**).

**`Kernel`** models `src/muntos.c`, `src/sleep.c` and `src/sem.c`. Variables and
actions have the names of the C objects and functions. Three groups of actions
make up `Next`:

* `Isr`: the tick interrupt, and posts and trywaits from other interrupts. An
  interrupt is one action. Interrupts may nest in the code, but a nested
  interrupt leaves what a sequence of interrupts leaves: the tick interrupt and
  a post share nothing but the stack, on which the order of two pushes is the
  order of their compare-and-swaps, and of two posts to one semaphore the one
  that wins the test-and-set of `post_pending` pushes the record while the other
  adds to the count, as if it had come second.
* `NewCall` and `Continue`: the active task makes a call, or goes on with it. A
  call that needs the handler takes three steps: the atomic operation on the
  count and the filling of the record (which nobody else looks at before it is
  pushed), the push, and the pend. Between two steps the task may be preempted.
  Tasks execute only when the handler is idle and not pended (`TaskLevel`), which
  is the contract of `rt_syscall_pend` in `syscall.h`.
* `Handler`: `rt_syscall_run` and what it calls, split at every point where an
  interrupt can see or change what it uses: after clearing the pend, after
  taking the stack, after clearing `tick_pending` and `post_pending`, before
  reading the tick, the record's `n` and the count, and in each turn of the
  loops. `hpc` says where the handler is, and `todo`, `current`, `task`, `sem`,
  `waiters`, `advance` are its local variables.

What is abstracted: a record is identified with the task or the semaphore it
belongs to, the `next` pointers with the order of a sequence (pushes are atomic
at their successful compare-and-swap, and since the only other operation takes
the whole stack there is no ABA problem), `unsigned long` has `TickMod` values,
`INT_MAX` is a maximum that is not reached, and the names, stacks, contexts and
cycle counts of tasks are left out. `tick` counts all ticks since boot, so that
properties can speak of elapsed time; the code sees it modulo `TickMod`.
`credit`, `asked` and `due` are history variables.

**`LinkedList`** models `src/list.c` with its pointers: `prev` and `next` of every
head and node, and one action per function. `rt_list_insert_by` takes one action
per turn of its loop, because the loop is what depends on the links. Its
preconditions are the callers': an inserted node is on no list, a removed node
has been initialised. **`Lists`** says what the functions do to sequences, with
the operators of `RtList`; `ListOf` follows the pointers from a head and is the
refinement mapping. So what `Kernel` assumes about lists is what the code does.
**`LinkedListProofs`** has the theorem about the links.

**`Queue`** models `src/queue.c`. Each caller, a task or an interrupt, has a
program of operations and the local variables of `push`, `pop` and `peek` (`q` is
`enq` or `deq`, `last` is `last_enq` or `last_deq`). Every atomic operation and
every copy of an element is a step of its own. Relaxed orderings are modelled as
sequentially consistent, as muntos runs on one core. The semaphores are abstract:
a call takes a unit if there is one. If there is none, a try form fails at once
(`TryFails`) and a timed form may fail later (`TimesOut`), giving back what it took.
A timed form with `ticks = 0` fails at once too, but `rt_sem_timedwait` has then taken
the count down for good (`ZeroTicksFails`, `src/sem.c:145`); `push_lost` and `pop_lost`
count these units. `Runs` has the scheduling:
a caller is not preempted by one of lower priority, while tasks of one priority
take turns (`sched` prefers the next task to an active one of equal priority).
Generations have the four bits of the code. `pushed`, `log` and the two counts of lost
units are history variables; `alone` is the caller that runs from some moment on in `LiveSpec`.
**`QueueProofs`** has the theorems about the semaphores and the slots.

**`Semaphores`**, **`Monitors`**, **`Notify`** and **`Sync`** model the objects built on
semaphores. Each extends the one before it.

* `Semaphores` has the semaphore as tasks see it, without the handler's inner steps,
  which `Kernel` models: the atomic operation on the count is one step, the system
  call (joining the wait list, or the post, and `wake_sem_waiters`) another, and
  between the two any other task may run. A mutex (`src/mutex.c`) is a binary
  semaphore. A task has in `todo` the steps it still has to take; a step takes itself
  off and may put others in front (`Do`), which is a call.
* `Monitors` has `src/cond.c`, `src/barrier.c`, `src/rwlock.c` and `src/once.c`, split at
  every lock, unlock, wait and signal. A timed condition wait that is woken relocks
  with some time left (`TicksLeft`).
* `Notify` has `src/notify.c`. Values are modulo `NoteMod`.
* `Sync` puts them to use: the tasks of `examples/mutex.c`, `examples/rwlock.c` and the
  three versions of `examples/water`, and, for what the examples do not exercise, a
  mailbox (condition variable with timeouts), tasks that meet at a barrier again and
  again, callers of `rt_once` and notifications of every kind. Which use it is, is
  chosen in `Init` and does not change. It also has the one thing `sched` does to tasks
  that matters to them: a task that is suspended and woken by the same run of the handler
  may be `reawakened`, which is to run on with the state READY, and `forgotten` by the
  next run of the handler (the first finding below), while it holds whatever it holds.
  `arrived`, `left`, `complete`, `unseen` and the
  `unbonded_` counts are history variables.

**`Pthread`** models `arch/pthread/pthread.c`. A thread has a mask, a set of pending
signals (signals of one kind that are pending together are one) and a stack of
frames: the bottom one is the code of its task, the others are signal handlers, which
nest as their `sa_mask` allows. Delivery of a signal, the return from a handler (which
restores the mask), `sigwait` and the interval timer are external and do what POSIX
says. The steps of `rt_syscall_handler` (run the system calls, block all signals,
store the context, resume the other thread, wait to be resumed) are actions of their
own, as are those of `rt_start` and `rt_stop`; threads run in parallel, so any of them
may come between two steps. The kernel is reduced to what the port can tell apart: a
set of pending records, a set of runnable tasks, and an arbitrary choice of the next
one, which covers what `sched` does with any priorities. **`PthreadProofs`** has the
theorems about it.

**`AtomicV6`** models `arch/arm/m/atomic-v6.c`: `disable` (read and set the mask), load,
store and `restore` are steps between which an interrupt, with an operation of its
own, or another task may run, unless interrupts are masked. Callers may have masked
interrupts themselves, and tasks may have dropped the privilege it takes to do so.
**`Mpu`** has the macros and functions of `mpu.h` as operators, in terms of addresses
and sizes, and the three ways in which the handlers write a configuration to the
registers of the unit. **`Arm`** composes the two with the switch of contexts: the
layout of `struct context`, what `context_create` puts there, what each handler pushes
and pops with and without floating point and a memory protection unit, the stacking
the processor does by itself, `rt_task_enable_fp` and `rt_task_drop_privilege`. The
build (architecture, MPU, floating point, number of task regions, sizes of stacks) is
chosen in `Init` and does not change. Registers are in groups that are saved together,
values are tags that tell who wrote them, and memory is in blocks of 32 bytes. A
switch is one action: the handler has the lowest exception priority and interrupts
save what they use, so nothing can be seen in between.

**`KernelProperties`** states what the kernel promises, **`MCKernel`** has the
values the configurations give to the constants. The theorems are in
**`KernelProofs`** (waiters and posts), **`SchedulerProofs`** (records, lists and the
task that runs) and **`WaiterProofs`** (tasks that do not run, and the counts).

Operators whose comment begins with "Mutant" are wrong forms of the definition
that follows them. No action uses them: they record, for each property, a
mistake in the code that the property would detect.

## What is checked

| Run | Instance | Shows |
|---|---|---|
| `kernel_sem` | 2 tasks of different priority, 1 semaphore, waits with and without a timeout (1 or 2), 2 calls each, 2 interrupt posts or trywaits, 2 ticks | `TypeOK`; a record is never pushed twice (`RecordsPushedOnce`); lists, task states and `num_waiters` agree (`ListsMatchStates`); `NoWaiterLeftBehind`; units are neither lost nor made up (`NoPostMissed`); a negative count means a waiter (`NegativeMeansWaiters`); timeouts that race with posts come neither early nor late (`OnTime`); tasks get lost only in the way the finding below describes (`ForgottenOnlyIfReawakened`) |
| `kernel_sched` | 3 tasks, two of one priority, one created by another, exiting and created again; sleeps of 1 and 3, period 2, 5 ticks with `TickMod` 4 | `HighestPriorityRuns`, `RunnableTaskRuns`; `OnTime` across a wraparound |
| `kernel_live` | 2 tasks, semaphores with maximum 0 and 1, posts of 2, fairness | every pushed record is processed (`SyscallsProcessed`), every sleeper is woken (`SleepersWake`) |
| `linked_list` | 2 lists, 4 nodes, two with the same key | links agree in both directions (`LinksConsistent`); the pointers implement the sequences and each function does its own job (`ImplementsLists`); the walk of `rt_list_insert_by` ends (`InsertByEnds`) |
| `queue` | 2 slots, 3 callers: all push and pop; one pushes while two peek and pop; one pushes and two pop; one with timed calls, with and without ticks; two shorter uses in which one caller preempts the others for good | units of the semaphores and slots agree, but for the units that timed calls with `ticks = 0` cost (`TokensMatchSlots`); every element is popped once (`NothingLostOrDoubled`); with one pusher and no peeks, order is kept (`OnePusherInOrder`); a caller that preempts the others for good completes its operation (`CompletesAlone`) |
| `sync` | 3 tasks, one of higher priority, in 10 uses of the objects | `MutualExclusion`; what `barrier.h` says of a barrier (`BarrierRounds`); `ReadersSeeWholeWrites`; `OnceAndBefore`; `NotificationArrives`; the balance of the water examples (`BondsMatchWater`); nobody waits for ever unless `sched` forgets a task (`Progress`) |
| `pthread` | 2 tasks, one created by the other, 2 calls each, 2 ticks, a stop at any moment | one thread executes at a time and it is that of the active task (`OneThreadExecutes`); no thread is resumed that was not suspended (`NoSpuriousResume`); a system call has run when it returns (`RunsBeforeReturn`), and never inside the tick handler (`SyscallAfterInterrupts`); `rt_stop` makes `rt_start` return (`StopReturns`) without a late signal ending the process (`NoSignalAfterStop`); every record is processed (`RecordsRun`) |
| `arm` | 2 tasks and the idle task, an interrupt, 15 builds | a task that is switched to finds its registers and its stack as it left them (`RegistersRestored`), the floating-point ones too (`FpContextRestored`), and its own memory and no other accessible (`RunsInOwnRegions`); on armv6-m, operations are atomic (`ReadModifyWriteAtomic`) and leave the mask as it was (`MaskRestored`) |
| `kernel_reawaken`, `queue_peek_order`, `sync_late_relock`, `arm_fp_flag` | as above, with 3 calls each, 1 task, timed waits with 0 ticks left, armv7-r with MPU and floating point | the findings below |

### Bounds

In the kernel the bounds are on the calls of each task (`MaxCalls`), on ticks
(`MaxTick`) and on semaphore calls from interrupts (`MaxIsr`). Two tasks and one
semaphore suffice for every race between a waiter, a poster and interrupts; two calls
let a task wait, be woken and wait again with stale state left behind; two interrupts
meet the case in which the second finds the semaphore's record in use; five ticks
with four tick values let sleeps span a wraparound. Deadlock is not checked: a
system in which every task waits and the bounds are used up may stop.

The lists have no bound other than their number of nodes; four nodes on two lists
give every arrangement an operation can tell apart (a node with neighbours on
both sides, the ends, the other list). In the queue the programs bound the
operations. Two slots and three callers suffice for a push that is skipped and
restored, for a slot that is read by two callers, and for `enq` and `deq` to be
moved back by a delayed store. The searches for a slot go through all sixteen
generations, but no slot goes through sixteen of them within one operation.
Deadlock is not checked in the queue: the programs end.

In `sync` the programs bound the operations too, except for the tasks of the water
examples and those that meet at a barrier, which go round for ever. A barrier of two
has three tasks, so that the next round begins while the last is being left. Three
tasks allow a holder, a waiter and one that comes in between for every object.
Deadlock is not checked because programs end; `Progress` shows that none ends early.

In `pthread`, two tasks and the idle thread are enough for every order of resume and
suspend between two threads with a third suspended; two ticks meet the case in which
one comes while the record of the other is pending. A stop ends the behaviour, so
deadlock is not checked. `arm` has no bound on the number of switches. It has words of
one bit (whether a word has been changed is all the properties ask) and stacks of the
sizes listed in `MCArm`, at every place the alignment of the build allows. In the
armv6-m build one task may drop its privilege (`Droppers`); the idle task, which does so
too, uses neither atomic operations nor floating point.

### Fairness

`kernel_live`: weak fairness of the handler, which the port runs when it is pended and
no interrupt is active; of a task that is inside a call; and of the tick interrupt,
which a timer raises. A task need not make another call. `linked_list` assumes that a
call of `rt_list_insert_by` keeps running, which is so as it runs in the handler.
`queue` assumes only that the processor does not stand still: once one caller is
alone, it is the one that steps. `sync`: weak fairness of each task that can take a
step and has not been forgotten. `Kernel` shows that such a task is active or on the
ready list (`ForgottenOnlyIfReawakened`). Tasks of one priority take turns at every tick,
and a task of higher priority that runs ends or comes to wait in these uses; a timed wait
that nobody ends is ended by a tick. A forgotten task never steps again, and nothing is
assumed about whether a tick comes while a task is reawakened. `pthread`: weak fairness of every thread, which the host schedules; the
timer and new calls of tasks have none.

## Findings

Four runs show that the code does not do what a comment in it says.

* **A reawakened task is forgotten** (`kernel_reawaken`, `src/muntos.c:116`). A
  task that suspends itself and is woken in the same run of the handler continues,
  as the comment there says it should, but its state stays `READY`. The next run
  of the handler takes it for suspended, switches to the next ready task even if
  its priority is lower, and does not put the task back on the ready list. What the
  task holds is lost with it. In the use of `examples/mutex.c` a `rt_mutex_lock` or
  `rt_mutex_timedlock` that is preempted between its decrement and its system call,
  while the holder unlocks, is reawakened with the mutex; if a tick comes before it
  unlocks, nobody gets the mutex again. Without its first disjunct, `Progress` of `Sync`
  is violated in this way.
* **A peek changes the order** (`queue_peek_order`, `src/queue.c:273`). `peek` puts
  the slot back with the next generation, and pops, which look for the generation
  of `deq`, pass over it. Without any concurrency, a task that pushes A and B and
  peeks at A then pops B.
* **A late relock leaves a mutex locked** (`sync_late_relock`, `src/sem.c:145`).
  `rt_sem_timedwait(sem, 0)` on a semaphore without units returns false with the count
  decremented. `rt_cond_timedwait` does this to its mutex when it is signalled in its
  last tick and another task holds the mutex: after the unlock of that task nobody
  holds it and nobody can lock it.
* **The floating-point flag is not restored** (`arm_fp_flag`,
  `arch/arm/r/syscall.S:119`). On armv7-r with `RT_MPU_ENABLE`, `mpuconfigure` has used
  `r1` by the time the handler stores the flag of the new task through it.

The passing runs keep clear of these, and of the following, or state their properties so
that they allow for them (`Progress`, `TokensMatchSlots`), to show what holds otherwise.
Each observation is reproduced by the change that is named.

* Interrupts that post different amounts (`src/muntos.c:336-339`): `post_pending` is
  cleared before the record's `n` is read, so a second post may replace the amount of
  the first. With `IsrPostCounts = {1, 2}` in `kernel_sem.cfg`, `NoPostMissed` is
  violated. With equal amounts, as with `rt_sem_post`, nothing is lost.
* A zero timeout in the kernel itself: with a 0 among the `Timeouts` of
  `kernel_sem.cfg`, `NegativeMeansWaiters` is violated. In the queue, `rt_queue_timedpush`,
  `_timedpop` and `_timedpeek` with `ticks = 0` cost a unit each time they fail, and with it
  one slot that is never filled or one element that is never popped. Here the run includes
  them: `TokensMatchSlots` counts the units lost.
* Several pushers (`src/queue.c:141`): a push that has been skipped makes its slot empty
  again, possibly behind `enq` and `deq`, and what is pushed to it is found only after
  the generations have wrapped around. With `Programs <- ExampleTasks`,
  `Preemptible = {}`, `Rank <- CFirst` and `Busy = {c}` in `queue.cfg`, `InOrder` is
  violated: the tasks and priorities of `examples/queue.c`, which tests for it, on a
  queue of two slots. Nothing is lost.
* A tick that comes between the end of `rt_syscall_run` and the blocking of signals
  pends `SIGSYSCALL` on the thread that is about to be suspended (`pthread.c:177`). A
  task may then run while the record of the tick is pending, which `syscall.h:75` does
  not want: `PendedRunsBeforeTasks`, as an invariant of `pthread.cfg`, is violated. Its
  `tick_pending` stays set in the meantime, so further ticks do not pend either.
* Regions in four builds, each of which violates `RunsInOwnRegions` when it takes the
  place of those in `SoundBuilds` of `MCArm`. `Build("v8base", TRUE, FALSE, 4, {128})`:
  every region is written to the number of the first of its group of four
  (`m/syscall-v6-v8base.S:34`). `Build("r", TRUE, FALSE, 4, {96})`: the subregion bits
  are cut off (`r/syscall.S:46`). `Build("v7", TRUE, FALSE, 4, {300})`: for sizes above
  256 that are not powers of two, `RT_MPU_SIZEBITS` rounds down (`mpu.h:51`).
  `Build("v8", TRUE, FALSE, 3, {128})`: offsets that are one register per region where
  there are two (`m/syscall-v7-v8.S:68`, `:77`, `:86`).
* On armv6-m the atomic operations of a task that has dropped its privilege are not
  atomic, as `cpsid` has no effect in it. `ReadModifyWriteAtomic` speaks of the others.

## What is proved

`KernelProofs` proves, for any sets of tasks and semaphores, any priorities,
maxima and bounds:

* `NoWaiterLeftBehindHolds`: `Spec => []NoWaiterLeftBehind`. Whenever a task
  executes, the tasks on a wait list are all accounted for by a negative count.

The property is not inductive: while the handler works, there may be more waiters
than the count accounts for. The inductive invariant `WakeInv` says that this is
so only while the handler is on its way to compare the two (`Evaluating`) or
while the semaphore's record is pending (`post_pending`), that a pending record
is on a stack which the handler is processing or will take (`PostComing`), and
that the count which `wake_sem_waiters` has read is out of date only if the record
is pending again. `WakeType` has the types this needs. The proof has one lemma
for each group of actions and one step for each action. It assumes what the
`ASSUME`s of `Kernel` state about the constants: a finite set of tasks, disjoint
kinds of records, of which `Null` is none, natural priorities and maxima, at least
two tick values. `RtListProofs` has the lemmas about lists that this and the next
two modules rest on: which nodes a list has after `rt_list_insert_by`,
`rt_list_remove` and `rt_list_pop_front`, and that a list without repeated nodes, or
in the order of the priorities, stays one.

`SchedulerProofs` proves, under the same assumptions:

* `TypesHold`: `Spec => []TypeOK`.
* `RecordsPushedOnceHolds`: `Spec => []RecordsPushedOnce`. No record is pushed while it
  is on the stack, which would make the stack a cycle.
* `ListsMatchStatesHolds`: `Spec => []ListsMatchStates`. The ready list, the sleep list
  and the wait lists hold the tasks whose states say so, at every step of the handler.
* `HighestPriorityRunsHolds`: `Spec => []HighestPriorityRuns`, and
  `RunnableTaskRunsHolds`: `Spec => []RunnableTaskRuns`. The task that executes can
  run, and no ready task has a higher priority.

None of them is inductive, and none can be shown without the others. A record is
pushed once because a task that makes a call is not on the stack already; that is so
because a task whose call is pending is the active one and does not execute before the
handler has taken the call (`PhaseInv`); it does not execute because the handler has
been pended, or is about to be by that very task (`StackInv`). A task that the handler
suspends is on no list, because it is active and the active task is not on the ready
list (`ReadyInv`, `RunInv`); that a woken task is taken off the right list needs its
record to say what it was suspended for (`WaitInv`), the wait lists to hold the tasks
whose records name the semaphore, except for one whose timeout the handler is just
working on (`WaitListInv`, `HandlerInv`), and the sleep list the tasks that sleep
(`SleepListInv`). `PushInv` covers the step between the filling of a record and its push,
where a task may be preempted: the record is not on the stack and nobody else is about
to push it. `SchedulerInv` is their conjunction. Each action has a lemma, with one step
for each part that it can disturb.

`WaiterProofs` proves:

* `ForgottenOnlyIfReawakenedHolds`: `Spec => ForgottenOnlyIfReawakened`, an action
  property. A step takes a task from where the scheduler will find it only if it is the
  task that was suspended and reawakened (the finding of `kernel_reawaken`): there is no
  other way to lose a task. It follows from `SchedulerInv`, by the lists on which a task
  is in each of its states.
* `NegativeMeansWaitersHolds`: `Spec => []NegativeMeansWaiters`, if no timed wait has a
  timeout of zero. That hypothesis is needed: `rt_sem_timedwait` with zero ticks takes a
  unit and does not give it back (see above). The invariant `BalanceInv` counts: below
  zero, the count is at most as far as there are tasks whose wait is not over, and a
  unit that a timed wait gives back when its time is up belongs to a task that is still
  one of them; while `wake_sem_waiters` runs, the tasks it means to leave on the list
  are enough for the count, even if the count is changed meanwhile.

`QueueProofs` proves, for any number of slots, any finite set of callers, and any
programs and priorities of theirs:

* `TokensAlwaysMatchSlots`: `Spec => []TokensMatchSlots`, and the same for `LiveSpec`. The
  slots that can be written to, and those that can be read, are as many as the units of
  the two semaphores, the callers that have taken one, and the units that failed timed
  calls with `ticks = 0` have cost.
* `NoUnitIsLost`: if no program makes a timed call with `ticks = 0`, those lost units are
  none, so that slots and units agree exactly.

The invariant `QueueInv` adds that a slot which a push has claimed belongs to that push
alone until it is published or given up, and that all others can do is to skip it
(`OwnInv`), and what each caller expects of its slot (`Expects`). Nothing is assumed
about generations: a caller that compares a slot with a value of 16 generations ago does
to the slot what its state allows, so the count is right even then. That the *element*
is right is another matter: `NothingLostOrDoubled` is false if a caller is held up while
a slot goes through all 16 generations, so it is checked for uses too short for that.

`LinkedListProofs` proves, for any lists, nodes and keys:

* `LinksStayConsistent`: `Spec => []LinksConsistent`. The inductive invariant
  `LinkInv` adds that heads are always linked and that, while `rt_list_insert_by`
  runs, its node is on no list and its position is a linked cell. Lemmas about
  `insert`, `Unlink` and `rt_list_move_all` carry the argument; each action follows
  from one of them.

`AtomicV6Proofs` proves, for any number of tasks and any width of words:

* `OperationsAreAtomic`: `AtomicSpec => []ReadModifyWriteAtomic`. The inductive
  invariant adds that whoever is between `disable` and `restore`, and may mask
  interrupts, runs with interrupts masked and so is the one who runs
  (`InsideRunsMasked`).
* `MaskIsRestored`: `AtomicSpec => []MaskRestored`. Here the invariant also says what the
  saved mask is worth at each step: it is the mask the caller had chosen (`MaskRead`),
  and it cannot change while somebody else runs.

In `Arm` every change of what these operations rely on is an action of `AtomicV6`
(`Switch`, `Operate`, `Interrupt`, `Drop`), by the way `Arm` is written, so that both hold
of the port too; `arm` checks them there as well. They assume what the `ASSUME`s of
`AtomicV6` state.

`PthreadProofs` proves, for any number of tasks, whichever of them exist before
`rt_start`, and any number of calls and ticks:

* `ThreadsTakeTurns`: `Spec => []OneThreadExecutes`. At most one thread executes at a
  time, and the task that is executed is the active one.
* `OnlyWaitingResumed`: `Spec => []NoSpuriousResume`. The handler of `SIGRESUME`, which
  ends the process, is never called.
* `InterruptsFirst`: `Spec => []SyscallAfterInterrupts`. The system call handler never
  interrupts the tick handler, and no thread is suspended in it.
* `LateSignalsHarmless`: `Spec => []NoSignalAfterStop`. Once `rt_start` has put back the
  default actions of the signals, which would end the process, no thread can get one.
* `CallsRunBeforeReturn`: `Spec => []RunsBeforeReturn`. A task that has made a system call
  does not return from it before the call has been carried out.

The first three follow from one inductive invariant, `Inv`. Its core is that the right to execute is
in one place (`OneToken`): with a thread that does not wait, or in a `SIGRESUME` that is
pending for a thread that does. It belongs to the active task, unless its holder is
between the return of `rt_syscall_run` and its own suspension; then the active task waits,
`newctx` is its thread and `rt_context_prev` that of the holder (`TokenIsActive`). That
`newctx` is right needs the contexts to be stored in time (`Contexts`), and that no
signal disturbs the order needs what is blocked where (`MaskShape`) and which handlers
can be on top of which (`StackShape`): a tick may still come between `rt_syscall_run` and
the blocking of signals, which is the case `TickInBlock`. `StartStop` says that nobody has
the right before `rt_start` gives it to the idle thread and after `rt_stop`. The proof has
lemmas about the frames (moved, pushed, popped, created), one about the steps that leave
the right where it is, and one for each action that hands it over. It assumes what the
`ASSUME` of `Pthread` states.

The other two build on `Inv`. `StopInv` says that the main thread is told to stop only by a
task that has called `rt_stop`, and that before `rt_start` begins and after it has
discarded pending signals there is no timer to send one. `OpenMasks` says that a task
that executes its own code blocks no signal, so that `SIGSYSCALL` is handled at once;
`RecordInv` says where a task's record can be pending: where the call is due, after
`rt_stop`, or for a task that is being created, and that none is left when the handler
switches.

Only model-checked are:

* liveness (`SyscallsProcessed`, `SleepersWake`, `InsertByEnds`, `CompletesAlone`,
  `Progress`, `StopReturns`, `RecordsRun`), which the prover has no rules for;
* the refinement `ImplementsLists`, whose mapping is a recursive function;
* `NoPostMissed`, which adds up counts over a set, a recursive definition;
* `OnTime`, which needs an invariant about ticks that wrap around;
* `NothingLostOrDoubled` and `OnePusherInOrder`, which hold as long as generations do not
  come round during an operation;
* the properties of `Sync`, which are about given programs of tasks, and
  `RegistersRestored`, `FpContextRestored` and `RunsInOwnRegions` of `Arm`, as the writing
  of the regions is a recursive macro in the code and in `Mpu`.

## What is not modelled

* Overflow of a semaphore's count by 2^31 waits, sixteen generations of a queue slot
  within one preemption, and the ambiguity of a periodic sleep that is called 2^32
  ticks late: they need longer behaviours than the runs have.
* Posts and queue operations from interrupts while an object of `Sync` is used: `Kernel`
  has the interrupts, `Sync` only tasks.
* Failures of the pthread functions, which the port does not check.
* Of the Arm port: exception priorities, the choice between `svc` and PendSV in
  `rt_syscall_pend`, `rt_interrupt_is_active`, the interrupt controllers of the R profile
  (`vim_ssi.S`, `vic.h`) and the instructions that enable its coprocessors. `Arm`
  takes a switch to happen when no interrupt is active or masked, which is what they
  are for. The idle task runs without its regions until it is first switched to.
* Of the MPU: memory attributes, regions of `SIZE_MAX` bytes, `rt_mpu_region_set`.
* Logging and cycle counts, the support headers, which have no state, the generated
  Rust bindings, and the examples other than those `Sync` and `MCQueue` name.
