----------------------------- MODULE Semaphores -----------------------------
(***************************************************************************)
(* Semaphores and mutexes (src/src/sem.c, src/src/mutex.c) as the objects  *)
(* built on them see them: tasks interleave freely, and a run of the       *)
(* system call handler, which no task can interrupt, is one step.  Kernel  *)
(* models the handler in full, with the interrupts that can observe it.    *)
(*                                                                         *)
(* A task is the sequence of steps it has still to carry out.  A function  *)
(* that calls others replaces its step by the steps of its body.           *)
(***************************************************************************)
EXTENDS RtList, TLC

CONSTANTS
  Tasks,
  Priority,    \* priority of each task, which orders wait lists
  IntMax,      \* INT_MAX
  TicksLeft    \* whether some (1) or none (0) of its time is left when a timed
               \* condition wait relocks its mutex

ASSUME SemaphoresAssumption ==
  /\ Priority \in [Tasks -> Nat] /\ IntMax \in Nat
  /\ TicksLeft # {} /\ TicksLeft \subseteq {0, 1}

VARIABLES
  sem,         \* struct rt_sem: value, max_value, wait_list
  todo,        \* the steps of each task
  result       \* what the last call of each task returned

semVars == <<sem, todo, result>>

\* A step: the operation, the semaphore it is on and its argument.
StepN(op, s, n) == [op |-> op, s |-> s, n |-> n]
Step(op, s) == StepN(op, s, 1)
Op(op) == Step(op, "none")

At(t, op) == todo[t] # <<>> /\ Head(todo[t]).op = op

SemOf(t) == Head(todo[t]).s
ArgOf(t) == Head(todo[t]).n

\* Task t replaces its step by the given ones.
Do(t, steps) == todo' = [todo EXCEPT ![t] = steps \o Tail(@)]

Return(t) == Do(t, <<>>)

Results(t, r) == result' = [result EXCEPT ![t] = r]

-----------------------------------------------------------------------------
rt_sem_init_max(count, max) ==
  [value |-> count, max_value |-> max, wait_list |-> <<>>]
rt_sem_init(count) == rt_sem_init_max(count, IntMax)
rt_sem_init_binary(count) == rt_sem_init_max(count, 1)
rt_mutex_init == rt_sem_init_binary(1)

rt_mutex_lock(m) == Step("sem_wait", m)
rt_mutex_unlock(m) == Step("sem_post", m)

new_value(v, n, max) == IF v <= max - n THEN v + n ELSE max

rt_sem_add_n(s, n) == new_value(sem[s].value, n, sem[s].max_value)

\* rt_sem_post_n of a count that is not negative.
sem_post(t) ==
  LET s == SemOf(t) IN
  /\ At(t, "sem_post") /\ sem[s].value >= 0
  /\ sem' = [sem EXCEPT ![s].value = rt_sem_add_n(s, ArgOf(t))]
  /\ Return(t)
  /\ UNCHANGED result

\* Otherwise rt_sem_post_n makes a system call, before which the count may change.
sem_post_waiters(t) ==
  /\ At(t, "sem_post") /\ sem[SemOf(t)].value < 0
  /\ Do(t, <<StepN("sem_post_syscall", SemOf(t), ArgOf(t))>>)
  /\ UNCHANGED <<sem, result>>

\* The fetch_sub that starts rt_sem_wait.
sem_wait(t) ==
  LET s == SemOf(t) IN
  /\ At(t, "sem_wait")
  /\ sem' = [sem EXCEPT ![s].value = @ - 1]
  /\ Do(t, IF sem[s].value > 0 THEN <<>> ELSE <<Step("sem_wait_syscall", s)>>)
  /\ Results(t, TRUE)

\* The fetch_sub that starts rt_sem_timedwait, which will return false unless it
\* takes a unit or is woken; with no time to wait it returns at once.
sem_timedwait(t) ==
  LET s == SemOf(t) IN
  /\ At(t, "sem_timedwait")
  /\ sem' = [sem EXCEPT ![s].value = @ - 1]
  /\ Do(t, IF sem[s].value > 0 \/ ArgOf(t) = 0 THEN <<>>
           ELSE <<Step("sem_timedwait_syscall", s)>>)
  /\ Results(t, sem[s].value > 0)

\* Mutant: an off-by-one in the test of the count.
sem_trywait_zero(t) ==
  LET s == SemOf(t) IN
  /\ At(t, "sem_trywait")
  /\ sem' = [sem EXCEPT ![s].value = IF @ >= 0 THEN @ - 1 ELSE @]
  /\ Return(t)
  /\ Results(t, sem[s].value >= 0)

sem_trywait(t) ==
  LET s == SemOf(t) IN
  /\ At(t, "sem_trywait")
  /\ sem' = [sem EXCEPT ![s].value = IF @ > 0 THEN @ - 1 ELSE @]
  /\ Return(t)
  /\ Results(t, sem[s].value > 0)

-----------------------------------------------------------------------------
(* The system call handler.                                                *)

insert_by_priority(list, t) ==
  rt_list_insert_by(list, t, {u \in Tasks : Priority[t] > Priority[u]})

\* wake_sem_waiters with count v and wait list list: the tasks it wakes.
Woken(list, v) ==
  LET waiters == IF v < 0 THEN -v ELSE 0 IN
  {list[i] : i \in 1..Len(list) - waiters}

\* The semaphore s has the count v and the waiters of list, of which those that
\* must be woken return; pending[t] is what t has to do apart from that.
wake_sem_waiters(s, v, list, pending) ==
  LET woken == Woken(list, v) IN
  /\ sem' = [sem EXCEPT ![s].value = v,
               ![s].wait_list = SelectSeq(list, LAMBDA t : t \notin woken)]
  /\ todo' = [t \in Tasks |-> IF t \in woken THEN Tail(pending[t]) ELSE pending[t]]
  /\ result' = [t \in Tasks |-> t \in woken \/ result[t]]

\* RT_SYSCALL_SEM_WAIT and RT_SYSCALL_SEM_TIMEDWAIT.
sem_wait_syscall(t) ==
  LET s == SemOf(t)
      blocked == IF At(t, "sem_wait_syscall") THEN "blocked" ELSE "blocked_timeout"
  IN /\ At(t, "sem_wait_syscall") \/ At(t, "sem_timedwait_syscall")
     /\ wake_sem_waiters(s, sem[s].value, insert_by_priority(sem[s].wait_list, t),
                         [todo EXCEPT ![t] = <<Step(blocked, s)>> \o Tail(@)])

\* RT_SYSCALL_SEM_POST.
sem_post_syscall(t) ==
  LET s == SemOf(t) IN
  /\ At(t, "sem_post_syscall")
  /\ wake_sem_waiters(s, rt_sem_add_n(s, ArgOf(t)), sem[s].wait_list,
                      [todo EXCEPT ![t] = Tail(@)])

\* tick_syscall ends the timed wait of t.
sem_timeout(t) ==
  LET s == SemOf(t) IN
  /\ At(t, "blocked_timeout")
  /\ wake_sem_waiters(s, rt_sem_add_n(s, 1), rt_list_remove(sem[s].wait_list, t),
                      [todo EXCEPT ![t] = Tail(@)])

SemStep(t) ==
  \/ sem_post(t) \/ sem_post_waiters(t) \/ sem_post_syscall(t)
  \/ sem_wait(t) \/ sem_timedwait(t) \/ sem_trywait(t) \/ sem_wait_syscall(t)
  \/ sem_timeout(t)

=============================================================================
