------------------------------ MODULE Monitors ------------------------------
(***************************************************************************)
(* Condition variables (src/src/cond.c) and the objects built on mutexes   *)
(* and condition variables: barriers (src/src/barrier.c), reader-writer    *)
(* locks (src/src/rwlock.c) and rt_once (src/src/once.c).                  *)
(***************************************************************************)
EXTENDS Semaphores

VARIABLES
  tasks, count,               \* of the rt_barrier; count does not change
  num_readers, num_writers,   \* of the rt_rwlock
  done,                       \* rt_once.done
  fn,                         \* history: how often rt_once's fn has returned
  arrived, left,              \* history: tasks that have come to the barrier and that
                              \* have left it, without the rounds that have ended
  complete                    \* history: how many more calls of rt_barrier_wait
                              \* returned true than rounds have ended

barrierVars == <<tasks, count, arrived, left, complete>>
rwlockVars == <<num_readers, num_writers>>
onceVars == <<done, fn>>
monitorVars == <<barrierVars, rwlockVars, onceVars>>

\* RT_BARRIER_INIT, RT_RWLOCK_INIT and RT_ONCE_INIT.
MonitorInit(n) ==
  /\ tasks = 0 /\ count = n /\ arrived = 0 /\ left = 0 /\ complete = 0
  /\ num_readers = 0 /\ num_writers = 0
  /\ done = 0 /\ fn = 0

-----------------------------------------------------------------------------
(* Condition variables: semaphores whose count is never positive.          *)

rt_cond_init == rt_sem_init_max(0, 0)

\* The mutex each condition variable is used with.
MutexOf == [cond |-> "mutex", hready |-> "rxn_m", hdone |-> "rxn_m", bcond |-> "bmutex",
            rcond |-> "m", wcond |-> "m"]

\* Mutant: a signal wakes everyone.
rt_cond_signal_all(c) == StepN("sem_post", c, IntMax)

rt_cond_signal(c) == Step("sem_post", c)
rt_cond_broadcast(c) == StepN("sem_post", c, IntMax)

\* Mutant: the waiter is not counted before the mutex is unlocked.
cond_wait_uncounted(t) ==
  LET c == SemOf(t) IN
  /\ At(t, "cond_wait")
  /\ Do(t, <<rt_mutex_unlock(MutexOf[c]), Step("sem_wait", c),
             rt_mutex_lock(MutexOf[c])>>)
  /\ UNCHANGED <<sem, result>>

\* The count is taken down while the mutex is still held.
cond_wait(t) ==
  LET c == SemOf(t) IN
  /\ At(t, "cond_wait")
  /\ sem' = [sem EXCEPT ![c].value = @ - 1]
  /\ Do(t, <<rt_mutex_unlock(MutexOf[c]), Step("sem_wait_syscall", c),
             rt_mutex_lock(MutexOf[c])>>)
  /\ UNCHANGED result

\* With no time to wait the call ends once the mutex is unlocked.
cond_timedwait(t) ==
  LET c == SemOf(t) IN
  /\ At(t, "cond_timedwait")
  /\ sem' = [sem EXCEPT ![c].value = @ - 1]
  /\ Do(t, <<rt_mutex_unlock(MutexOf[c])>> \o
           IF ArgOf(t) = 0 THEN <<>>
           ELSE <<Step("sem_timedwait_syscall", c), Step("cond_relock", c)>>)
  /\ Results(t, FALSE)

\* A timed wait that was woken relocks the mutex in the time that is left; one
\* that was not returns without the mutex.
cond_relock(t) ==
  /\ At(t, "cond_relock")
  /\ IF result[t]
     THEN \E ticks \in TicksLeft :
            Do(t, <<StepN("sem_timedwait", MutexOf[SemOf(t)], ticks)>>)
     ELSE Return(t)
  /\ UNCHANGED <<sem, result>>

CondStep(t) ==
  /\ cond_wait(t) \/ cond_timedwait(t) \/ cond_relock(t)
  /\ UNCHANGED monitorVars

-----------------------------------------------------------------------------
(* Barriers.                                                               *)

\* Mutant: nothing keeps tasks of the next round out.
rt_barrier_wait_ungated == <<rt_mutex_lock("bmutex"), Op("barrier_enter")>>

rt_barrier_wait ==
  <<Step("sem_wait", "gate"), rt_mutex_lock("bmutex"), Op("barrier_enter")>>

\* The last task to arrive wakes the others.
barrier_enter(t) ==
  /\ At(t, "barrier_enter")
  /\ tasks' = tasks + 1
  /\ Do(t, <<IF tasks' = count THEN rt_cond_broadcast("bcond")
             ELSE Step("cond_wait", "bcond"),
             Op("barrier_leave")>>)
  /\ arrived' = arrived + 1
  /\ UNCHANGED <<count, left, complete>>

\* The last one to leave lets the tasks of the next round in.
barrier_leave(t) ==
  /\ At(t, "barrier_leave")
  /\ tasks' = tasks - 1
  /\ Do(t, (IF tasks' = 0 THEN <<StepN("sem_post", "gate", count)>> ELSE <<>>)
           \o <<rt_mutex_unlock("bmutex")>>)
  /\ LET trues == complete + IF tasks' = 0 THEN 1 ELSE 0 IN
     IF left + 1 = count
     THEN left' = 0 /\ arrived' = arrived - count /\ complete' = trues - 1
     ELSE left' = left + 1 /\ complete' = trues /\ UNCHANGED arrived
  /\ UNCHANGED count

BarrierStep(t) ==
  /\ barrier_enter(t) \/ barrier_leave(t)
  /\ UNCHANGED <<sem, result, rwlockVars, onceVars>>

-----------------------------------------------------------------------------
(* Reader-writer locks.                                                    *)

rt_rwlock_rlock == <<rt_mutex_lock("m"), Op("rlock_check")>>

rlock_check(t) ==
  /\ At(t, "rlock_check")
  /\ IF num_writers > 0
     THEN /\ Do(t, <<Step("cond_wait", "rcond"), Op("rlock_check")>>)
          /\ UNCHANGED num_readers
     ELSE num_readers' = num_readers + 1 /\ Do(t, <<rt_mutex_unlock("m")>>)
  /\ UNCHANGED num_writers

rt_rwlock_runlock == <<rt_mutex_lock("m"), Op("runlock_leave")>>

runlock_leave(t) ==
  /\ At(t, "runlock_leave")
  /\ num_readers' = num_readers - 1
  /\ Do(t, (IF num_readers' = 0 THEN <<rt_cond_broadcast("wcond")>> ELSE <<>>)
           \o <<rt_mutex_unlock("m")>>)
  /\ UNCHANGED num_writers

rt_rwlock_wlock == <<rt_mutex_lock("m"), Op("wlock_enter")>>

wlock_enter(t) ==
  /\ At(t, "wlock_enter")
  /\ num_writers' = num_writers + 1
  /\ Do(t, <<Op("wlock_check")>>)
  /\ UNCHANGED num_readers

\* Mutant: an off-by-one in the number of readers to wait for.
wlock_check_one(t) ==
  /\ At(t, "wlock_check")
  /\ Do(t, IF num_readers > 1
           THEN <<Step("cond_wait", "wcond"), Op("wlock_check")>> ELSE <<>>)
  /\ UNCHANGED rwlockVars

\* The writer keeps the mutex until it unlocks.
wlock_check(t) ==
  /\ At(t, "wlock_check")
  /\ Do(t, IF num_readers > 0
           THEN <<Step("cond_wait", "wcond"), Op("wlock_check")>> ELSE <<>>)
  /\ UNCHANGED rwlockVars

rt_rwlock_wunlock == <<Op("wunlock_leave")>>

wunlock_leave(t) ==
  /\ At(t, "wunlock_leave")
  /\ num_writers' = num_writers - 1
  /\ Do(t, (IF num_writers' = 0 THEN <<rt_cond_broadcast("rcond")>> ELSE <<>>)
           \o <<rt_mutex_unlock("m")>>)
  /\ UNCHANGED num_readers

RwLockStep(t) ==
  /\ \/ rlock_check(t) \/ runlock_leave(t)
     \/ wlock_enter(t) \/ wlock_check(t) \/ wunlock_leave(t)
  /\ UNCHANGED <<sem, result, barrierVars, onceVars>>

-----------------------------------------------------------------------------
(* rt_once.                                                                *)

once(t) ==
  /\ At(t, "once")
  /\ Do(t, IF done = 0 THEN <<rt_mutex_lock("omutex"), Op("once_check"),
                              rt_mutex_unlock("omutex")>> ELSE <<>>)
  /\ UNCHANGED onceVars

\* Mutant: done is not looked at again under the mutex.
once_check_unchecked(t) ==
  /\ At(t, "once_check")
  /\ Do(t, <<Op("fn"), Op("once_done")>>)
  /\ UNCHANGED onceVars

once_check(t) ==
  /\ At(t, "once_check")
  /\ Do(t, IF done = 0 THEN <<Op("fn"), Op("once_done")>> ELSE <<>>)
  /\ UNCHANGED onceVars

once_fn(t) ==
  /\ At(t, "fn")
  /\ fn' = fn + 1
  /\ Return(t)
  /\ UNCHANGED done

once_done(t) ==
  /\ At(t, "once_done")
  /\ done' = 1
  /\ Return(t)
  /\ UNCHANGED fn

OnceStep(t) ==
  /\ once(t) \/ once_check(t) \/ once_fn(t) \/ once_done(t)
  /\ UNCHANGED <<sem, result, barrierVars, rwlockVars>>

MonitorStep(t) ==
  \/ SemStep(t) /\ UNCHANGED monitorVars
  \/ CondStep(t) \/ BarrierStep(t) \/ RwLockStep(t) \/ OnceStep(t)

=============================================================================
