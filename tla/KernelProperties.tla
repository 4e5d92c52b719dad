-------------------------- MODULE KernelProperties --------------------------
(***************************************************************************)
(* What the kernel promises to the tasks and to itself.                    *)
(***************************************************************************)
EXTENDS Kernel

TaskStates == {"RUNNING", "READY", "BLOCKED", "BLOCKED_TIMEOUT", "ASLEEP",
               "EXITED"}

HandlerSteps == {"idle", "take", "next", "post", "load", "wake", "tick",
                 "expire", "timeout", "timedout"}

RecordType == [syscall : Syscalls, sem : Sems \cup {Null}, n : Nat,
               last : 0..TickMod-1]

\* The type of every variable.
TypeOK ==
  /\ active \in AllTasks
  /\ state \in [AllTasks -> TaskStates]
  /\ ready_list \in Seq(AllTasks) /\ sleep_list \in Seq(Tasks)
  /\ wake_tick \in [Tasks -> 0..TickMod-1] /\ woken_tick \in 0..TickMod-1
  /\ tick \in Nat /\ tick_pending \in BOOLEAN
  /\ value \in [Sems -> Int] /\ num_waiters \in [Sems -> Int]
  /\ wait_list \in [Sems -> Seq(Tasks)]
  /\ post_pending \in [Sems -> BOOLEAN] /\ post_n \in [Sems -> Nat]
  /\ pending_syscalls \in Seq(Records) /\ todo \in Seq(Records)
  /\ record \in [Tasks -> RecordType] /\ pend \in BOOLEAN
  /\ hpc \in HandlerSteps /\ current \in Records
  /\ task \in Tasks \cup {Null} /\ sem \in Sems \cup {Null}
  /\ waiters \in Nat /\ advance \in 0..TickMod-1
  /\ pc \in [Tasks -> {"new", "user", "push", "pend"}]
  /\ pushing \in [Tasks -> Tasks]
  /\ last_wake \in [Tasks -> Nat]
  /\ credit \in [Sems -> Int] /\ asked \in [Tasks -> Nat]
  /\ due \in [Tasks -> Nat]
  /\ calls \in [Tasks -> Nat] /\ isrs \in Nat

\* A record is on the stack, or in what the handler has taken from it, at most
\* once.  The stack is linked through the records, so pushing a record that is
\* still on it would drop or repeat system calls: tick_pending and post_pending
\* are there to prevent that (muntos.c:224, sem.c:49).
RecordsPushedOnce == IsInjective(todo \o pending_syscalls)

\* The task whose timed wait is being ended is off its wait list already.
Leaving(t) == hpc \in {"wake", "timedout"} /\ task = t

\* The lists and the task states agree: a task is on the wait list of exactly
\* the semaphore its record names while it is blocked, on the sleep list while
\* it is asleep or in a timed wait, on the ready list only when it is ready,
\* nowhere twice, and num_waiters is the length of the wait list.
ListsMatchStates ==
  /\ IsInjective(ready_list) /\ IsInjective(sleep_list)
  /\ \A t \in Range(ready_list) : state[t] = "READY"
  /\ \A t \in Tasks :
       Contains(sleep_list, t) <=> state[t] \in {"ASLEEP", "BLOCKED_TIMEOUT"}
  /\ \A s \in Sems :
       /\ IsInjective(wait_list[s]) /\ num_waiters[s] = Len(wait_list[s])
       /\ \A t \in Tasks :
            Contains(wait_list[s], t) <=>
              /\ state[t] \in {"BLOCKED", "BLOCKED_TIMEOUT"}
              /\ record[t].sem = s /\ ~Leaving(t)

\* Whenever a task executes, no ready task has a higher priority.
HighestPriorityRuns ==
  TaskLevel => \A t \in Range(ready_list) : Priority[t] <= Priority[active]

\* The executing task is not blocked, asleep or exited, and is on no list.
RunnableTaskRuns ==
  TaskLevel => /\ state[active] \in {"RUNNING", "READY"}
               /\ ~Contains(ready_list, active)

\* No task is left waiting for a semaphore that has a unit for it: whenever
\* tasks execute, all the tasks on a wait list are accounted for by a negative
\* count (wake_sem_waiters, and sem.c:44-48 for posts that find the
\* semaphore's record in use).
NoWaiterLeftBehind ==
  TaskLevel => \A s \in Sems : num_waiters[s] > 0 => value[s] <= -num_waiters[s]

Waits == {"SEM_WAIT", "SEM_TIMEDWAIT"}

\* Task t has taken the count of s below zero and its wait is not over.
WaitsFor(t, s) ==
  /\ record[t].syscall \in Waits /\ record[t].sem = s
  /\ \/ pc[t] = "push" /\ pushing[t] = t
     \/ Contains(pending_syscalls, t) \/ Contains(todo, t)
     \/ Contains(wait_list[s], t)
     \/ Leaving(t)

\* Record r is a post to s that has not been added to the count.
PostUnderway(r, s) ==
  /\ SyscallOf(r) = "SEM_POST" /\ SemOf(r) = s
  /\ \/ \E t \in Tasks : pc[t] = "push" /\ pushing[t] = r
     \/ Contains(pending_syscalls, r) \/ Contains(todo, r)

\* Units in posts to s that have been made and not been added to the count.
PostsUnderway(s) ==
  LET posts == {r \in Tasks \cup Sems : PostUnderway(r, s)}
      adding == hpc = "post" /\ sem = s
  IN MapThenSumSet(PostCount, posts) + (IF adding THEN PostCount(current) ELSE 0)

\* A timed wait of s is ending and has given its unit back.
GivenBack(s) ==
  hpc \in {"timeout", "wake", "timedout"} /\ task # Null /\ sem = s

\* Posts are neither lost nor counted twice: the count of a semaphore without a
\* maximum, plus the waits and the posts that are under way, is always the
\* initial count plus all posts made minus all units acquired ("no posts are
\* missed", muntos.c:333 and sem.c:46); and no unit is acquired before it has
\* been posted.
NoPostMissed ==
  \A s \in Sems :
    /\ credit[s] >= 0
    /\ credit[s] = value[s] + Cardinality({t \in Tasks : WaitsFor(t, s)})
                   + PostsUnderway(s) - (IF GivenBack(s) THEN 1 ELSE 0)

\* "If the value is negative, then the post needs to happen in a system call
\* because there are waiters" (sem.c:84): a negative count means that a task
\* waits for the semaphore or is on its way to.
NegativeMeansWaiters ==
  \A s \in Sems : value[s] < 0 => \E t \in Tasks : WaitsFor(t, s)

\* When rt_sleep, rt_sleep_periodic or a timed out rt_sem_timedwait returns, the
\* ticks it was asked to wait for have passed.
NotEarly ==
  \A t \in Tasks :
    /\ TaskLevel /\ active = t /\ pc[t] = "user"
    /\ \/ record[t].syscall \in {"SLEEP", "SLEEP_PERIODIC"}
       \/ record[t].syscall = "SEM_TIMEDWAIT" /\ record[t].sem = Null
    => tick >= asked[t]

\* Whenever tasks execute, every tick has been processed and every task that is
\* still on the sleep list has a wake tick in the future.
NotLate ==
  TaskLevel => /\ woken_tick = rt_tick
               /\ \A t \in Range(sleep_list) : tick < due[t]

\* Sleeping tasks and timed waits are ended in time, whatever the order in which the
\* records of the tick, the sleep and a post are processed and whether or not ticks
\* wrap around in the meantime (muntos.c:149-162, muntos.c:181-209).
OnTime == NotEarly /\ NotLate

\* Task t can still run: it is executing, on a list, about to be put on one, has
\* exited or has not been created.
Schedulable(t) ==
  \/ t = active \/ Contains(ready_list, t) \/ Contains(sleep_list, t)
  \/ \E s \in Sems : Contains(wait_list[s], t)
  \/ pc[t] = "new" \/ state[t] = "EXITED" \/ record[t].syscall = "TASK_READY"

\* No task is ever forgotten.  A task that was suspended and reawakened "should
\* continue running" (muntos.c:113-115).
NoTaskForgotten == \A t \in Tasks : Schedulable(t)

\* The one way a task is forgotten is a switch away from a task that sched let
\* continue after it had been suspended and reawakened: such a task is active
\* with the state READY.
ForgottenOnlyIfReawakened ==
  [][\A t \in Tasks : Schedulable(t) /\ ~Schedulable(t)' =>
                        active = t /\ state[t] = "READY"]_vars

\* Every system call that has been pushed is processed.
SyscallsProcessed ==
  \A r \in Records :
    Contains(pending_syscalls, r) ~> ~Contains(todo \o pending_syscalls, r)

\* A sleeping task is woken once its time has come.
SleepersWake ==
  \A t \in Tasks :
    (Contains(sleep_list, t) /\ due[t] <= MaxTick) ~> ~Contains(sleep_list, t)

=============================================================================
