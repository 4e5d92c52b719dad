-------------------------------- MODULE Sync --------------------------------
(***************************************************************************)
(* The synchronisation objects of muntos in use.  The tasks are those of   *)
(* the examples (src/examples/mutex.c, src/examples/rwlock.c and the three *)
(* ways to make water of src/examples/water) and applications of rt_once,  *)
(* notifications and timed condition waits.  Of the scheduler, it has the  *)
(* way in which sched loses a task; otherwise tasks interleave freely.     *)
(***************************************************************************)
EXTENDS Notify, FiniteSets

CONSTANT Uses   \* what the tasks do: the count of the barrier and their steps

VARIABLES
  x, y,       \* the variables that mutex.c and rwlock.c protect
  copy,       \* the copy of x that each task has made
  h,          \* rxn.h
  unbonded_h, \* 2 * water_formed - hydrogen_bonded
  unbonded_o, \* water_formed - oxygen_bonded
  reawakened, \* the active task, if it runs with the state READY
  forgotten   \* tasks that sched has switched away from in that state

waterVars == <<h, unbonded_h, unbonded_o>>
appVars == <<x, y, copy, waterVars>>
schedVars == <<reawakened, forgotten>>
vars == <<semVars, monitorVars, noteVars, appVars, schedVars>>

\* The semaphores of the objects.
Objects ==
  [mutex |-> rt_mutex_init, cond |-> rt_cond_init,
   gate |-> rt_sem_init(count), bmutex |-> rt_mutex_init, bcond |-> rt_cond_init,
   m |-> rt_mutex_init, rcond |-> rt_cond_init, wcond |-> rt_cond_init,
   omutex |-> rt_mutex_init, note |-> rt_sem_init_binary(0),
   hready |-> rt_cond_init, hdone |-> rt_cond_init, rxn_m |-> rt_mutex_init,
   hsem |-> rt_sem_init(2), osem |-> rt_sem_init(1),
   h2ready |-> rt_sem_init(0), hdone_sem |-> rt_sem_init(0)]

Init ==
  /\ \E u \in Uses : MonitorInit(u.count) /\ todo = u.todo
  /\ sem = Objects /\ result = [t \in Tasks |-> TRUE]
  /\ rt_notify_init(0)
  /\ x = 0 /\ y = 0 /\ copy = [t \in Tasks |-> 0]
  /\ h = 0 /\ unbonded_h = 0 /\ unbonded_o = 0
  /\ reawakened = {} /\ forgotten = {}

-----------------------------------------------------------------------------
(* mutex.c: tasks increment x, which is a load and a store.                *)

increment == <<Op("load"), Op("store"), rt_mutex_unlock("mutex")>>
increment_lock == <<rt_mutex_lock("mutex")>> \o increment
increment_trylock == <<Step("sem_trywait", "mutex"), Op("trylock_result")>>
increment_timedlock == <<Step("sem_timedwait", "mutex"), Op("timedlock_result")>>

increment_result(t) ==
  /\ \/ At(t, "trylock_result") /\ Do(t, IF result[t] THEN increment ELSE increment_trylock)
     \/ At(t, "timedlock_result") /\ Do(t, IF result[t] THEN increment ELSE increment_timedlock)
  /\ UNCHANGED <<x, y, copy>>

increment_load(t) ==
  /\ At(t, "load")
  /\ copy' = [copy EXCEPT ![t] = x]
  /\ Return(t)
  /\ UNCHANGED <<x, y>>

increment_store(t) ==
  /\ At(t, "store")
  /\ x' = copy[t] + 1
  /\ Return(t)
  /\ UNCHANGED <<y, copy>>

-----------------------------------------------------------------------------
(* A mailbox: a condition variable, waited on for some time, says that x   *)
(* is not zero.                                                            *)

put == <<rt_mutex_lock("mutex"), Op("put"), rt_cond_signal("cond"), rt_mutex_unlock("mutex")>>
get == <<rt_mutex_lock("mutex"), Op("get")>>

mailbox_put(t) ==
  /\ At(t, "put")
  /\ x' = x + 1
  /\ Return(t)
  /\ UNCHANGED <<y, copy>>

mailbox_get(t) ==
  /\ At(t, "get")
  /\ x' = IF x = 0 THEN x ELSE x - 1
  /\ Do(t, IF x = 0 THEN <<Step("cond_timedwait", "cond"), Op("get_again")>>
           ELSE <<rt_mutex_unlock("mutex")>>)
  /\ UNCHANGED <<y, copy>>

mailbox_get_again(t) ==
  /\ At(t, "get_again")
  /\ Do(t, IF result[t] THEN <<Op("get")>> ELSE <<>>)
  /\ UNCHANGED <<x, y, copy>>

-----------------------------------------------------------------------------
(* rwlock.c.                                                               *)

reader == rt_rwlock_rlock \o <<Op("read_x"), Op("read_y")>> \o rt_rwlock_runlock
writer == rt_rwlock_wlock \o <<Op("write_x"), Op("write_y")>> \o rt_rwlock_wunlock

reader_step(t) ==
  /\ \/ At(t, "read_x") /\ copy' = [copy EXCEPT ![t] = x]
     \/ At(t, "read_y") /\ UNCHANGED copy
  /\ Return(t)
  /\ UNCHANGED <<x, y>>

writer_step(t) ==
  /\ \/ At(t, "write_x") /\ x' = x + 1 /\ UNCHANGED y
     \/ At(t, "write_y") /\ y' = y + 1 /\ UNCHANGED x
  /\ Return(t)
  /\ UNCHANGED copy

\* Tasks that use what the function given to rt_once has set up, and that meet at a
\* barrier again and again.
use(t) ==
  /\ \/ At(t, "use") /\ Return(t)
     \/ At(t, "meet") /\ Do(t, rt_barrier_wait \o <<Op("meet")>>)
  /\ UNCHANGED <<x, y, copy>>

SharedStep(t) ==
  /\ \/ increment_result(t) \/ increment_load(t) \/ increment_store(t)
     \/ mailbox_put(t) \/ mailbox_get(t) \/ mailbox_get_again(t)
     \/ reader_step(t) \/ writer_step(t) \/ use(t)
  /\ UNCHANGED <<sem, result, waterVars>>

-----------------------------------------------------------------------------
(* water: hydrogen and oxygen, with semaphores, with condition variables   *)
(* and with a barrier.  The loops of water.c do not end.                   *)

hydrogen_loop(t) ==
  \/ /\ At(t, "h_sem")
     /\ h' = (h + 1) % 2   \* only the lowest bit is looked at
     /\ Do(t, (IF h = 1 THEN <<Step("sem_post", "h2ready")>> ELSE <<>>) \o
              <<Step("sem_wait", "hdone_sem"), Op("h_bonded"), Op("h_sem")>>)
  \/ /\ At(t, "h_cond")
     /\ Do(t, <<rt_mutex_lock("rxn_m"), Op("h_ready"), rt_cond_signal("hready"),
                Step("cond_wait", "hdone"), rt_mutex_unlock("rxn_m"),
                Op("h_bonded"), Op("h_cond")>>)
     /\ UNCHANGED h
  \/ /\ At(t, "h_barrier")
     /\ Do(t, <<Step("sem_wait", "hsem")>> \o rt_barrier_wait \o rt_barrier_wait
              \o <<Step("sem_post", "hsem"), Op("h_bonded"), Op("h_barrier")>>)
     /\ UNCHANGED h

oxygen_loop(t) ==
  \/ /\ At(t, "o_sem")
     /\ Do(t, <<Step("sem_wait", "h2ready"), Op("make_water"),
                Step("sem_post", "hdone_sem"), Step("sem_post", "hdone_sem"),
                Op("o_bonded"), Op("o_sem")>>)
  \/ /\ At(t, "o_cond")
     /\ Do(t, <<rt_mutex_lock("rxn_m"), Op("o_check"), Op("make_water"), Op("h_used"),
                rt_mutex_unlock("rxn_m"), rt_cond_signal("hdone"),
                rt_cond_signal("hdone"), Op("o_bonded"), Op("o_cond")>>)
  \/ /\ At(t, "o_barrier")
     /\ Do(t, <<Step("sem_wait", "osem")>> \o rt_barrier_wait \o <<Op("make_water")>>
              \o rt_barrier_wait \o
              <<Step("sem_post", "osem"), Op("o_bonded"), Op("o_barrier")>>)

\* cond.c: the accesses to rxn.h.
reaction(t) ==
  \/ At(t, "h_ready") /\ h' = h + 1 /\ Return(t)
  \/ At(t, "h_used") /\ h' = h - 2 /\ Return(t)
  \/ /\ At(t, "o_check")
     /\ Do(t, IF h < 2 THEN <<Step("cond_wait", "hready"), Op("o_check")>> ELSE <<>>)
     /\ UNCHANGED h

make_water(t) ==
  /\ At(t, "make_water")
  /\ unbonded_h' = unbonded_h + 2 /\ unbonded_o' = unbonded_o + 1
  /\ Return(t)

bonded(t) ==
  /\ \/ At(t, "h_bonded") /\ unbonded_h' = unbonded_h - 1 /\ UNCHANGED unbonded_o
     \/ At(t, "o_bonded") /\ unbonded_o' = unbonded_o - 1 /\ UNCHANGED unbonded_h
  /\ Return(t)

WaterStep(t) ==
  /\ \/ (hydrogen_loop(t) \/ reaction(t)) /\ UNCHANGED <<unbonded_h, unbonded_o>>
     \/ oxygen_loop(t) /\ UNCHANGED waterVars
     \/ (make_water(t) \/ bonded(t)) /\ UNCHANGED h
  /\ UNCHANGED <<sem, result, x, y, copy>>

-----------------------------------------------------------------------------
(* The scheduler.  A task that is suspended and reawakened by one run of   *)
(* the handler goes on with the state READY if it is first on the ready    *)
(* list, and otherwise waits there for its turn.  In the state READY it is *)
(* on no list, and the next run of the handler drops it, unless it has     *)
(* been suspended again or has ended.                                      *)

Suspends(t) == At(t, "sem_wait_syscall") \/ At(t, "sem_timedwait_syscall")
Blocked(t) == At(t, "blocked") \/ At(t, "blocked_timeout")

Drop == forgotten' = forgotten \cup reawakened /\ reawakened' = {}

\* What sched does at the end of the step of t, if it is a run of the handler.  The
\* ready list, which has at least the idle task, is not modelled.
sched(t) ==
  \/ /\ Suspends(t) /\ Blocked(t)'
     /\ reawakened' = {} /\ UNCHANGED forgotten
  \/ /\ Suspends(t) /\ ~Blocked(t)'
     /\ reawakened' \in {{}, {t}} /\ UNCHANGED forgotten
  \/ At(t, "sem_post_syscall") /\ Drop
  \/ /\ ~Suspends(t) /\ ~At(t, "sem_post_syscall")
     /\ reawakened' = {u \in reawakened : todo'[u] # <<>>} /\ UNCHANGED forgotten

\* A tick, or an interrupt that makes a system call, while a reawakened task runs.
Preempt ==
  /\ reawakened # {}
  /\ Drop
  /\ UNCHANGED <<semVars, monitorVars, noteVars, appVars>>

\* No task runs before the reawakened one has been switched away from.
TaskStep(t) ==
  /\ reawakened \subseteq {t} /\ t \notin forgotten
  /\ \/ MonitorStep(t) /\ UNCHANGED <<noteVars, appVars>>
     \/ NotifyStep(t) /\ UNCHANGED appVars
     \/ (SharedStep(t) \/ WaterStep(t)) /\ UNCHANGED <<monitorVars, noteVars>>
  /\ sched(t)

Next == Preempt \/ \E t \in Tasks : TaskStep(t)

Spec == Init /\ [][Next]_vars

\* A task that sched has not forgotten is on the ready list or active whenever it can
\* run.  Tasks of one priority take turns, at the latest at each tick, and a task of
\* higher priority runs out of steps or waits: every such task gets to run.
Fairness == \A t \in Tasks : WF_vars(TaskStep(t))

LiveSpec == Spec /\ Fairness

-----------------------------------------------------------------------------
(* Properties.                                                             *)

\* The steps that only the owner of a mutex carries out.
Section ==
  [load |-> "mutex", store |-> "mutex", put |-> "mutex", get |-> "mutex",
   barrier_enter |-> "bmutex", barrier_leave |-> "bmutex",
   rlock_check |-> "m", runlock_leave |-> "m", wlock_enter |-> "m",
   wlock_check |-> "m", write_x |-> "m", write_y |-> "m", wunlock_leave |-> "m",
   once_check |-> "omutex", fn |-> "omutex", once_done |-> "omutex",
   h_ready |-> "rxn_m", o_check |-> "rxn_m", make_water |-> "rxn_m", h_used |-> "rxn_m"]

Inside(t, m) ==
  /\ todo[t] # <<>> /\ Head(todo[t]).op \in DOMAIN Section
  /\ Section[Head(todo[t]).op] = m

\* Mutexes exclude (mutex.c), also when they are unlocked and locked again by a
\* condition wait, are tried or waited for with a timeout: no two tasks are inside
\* the section of one mutex.
MutualExclusion ==
  \A t, u \in Tasks : \A m \in {"mutex", "bmutex", "m", "omutex", "rxn_m"} :
    Inside(t, m) /\ Inside(u, m) => t = u

\* The tasks that have taken a count down and have not yet made their system call.
AboutToWait(s) ==
  {t \in Tasks : \E i \in 1..Len(todo[t]) :
     todo[t][i] \in {Step("sem_wait_syscall", s), Step("sem_timedwait_syscall", s)}}

\* What rt_sem_post_n relies on (sem.c:84): a negative count means that there are
\* waiters, as many as it says, on the wait list or about to join it.
NegativeMeansWaiters ==
  \A s \in DOMAIN sem :
    -sem[s].value <= Len(sem[s].wait_list) + Cardinality(AboutToWait(s))

\* A barrier holds tasks back until all of their round have come, and exactly one of
\* them gets true, also when tasks of the next round are already waiting ("returns
\* true to one of those threads and false to the others", barrier.h:15).
BarrierRounds ==
  /\ arrived >= 0 /\ (left > 0 => arrived >= count)
  /\ left = 0 => complete = 0

\* A reader never sees the state between the two stores of a writer (rwlock.c).
ReadersSeeWholeWrites == \A t \in Tasks : At(t, "read_y") => copy[t] = y

\* rt_once returns only once fn has returned, and fn runs only once, however many
\* tasks come while it runs (once.h:9).
OnceAndBefore == fn <= 1 /\ \A t \in Tasks : At(t, "use") => fn = 1

\* A waiter does not miss a notification: unless the notifier has still to post,
\* the waiter finds a unit, or has been woken and will read the value.
NotificationArrives ==
  unseen > 0 =>
    \/ sem["note"].value > 0
    \/ sem["note"].value = 0 /\ AboutToWait("note") # {}
    \/ \E t \in Tasks : \/ At(t, "note_get") /\ result[t]
                        \/ At(t, "sem_post") /\ SemOf(t) = "note"
                        \/ At(t, "sem_post_syscall") /\ SemOf(t) = "note"

\* The balance that water.c checks at the end (water.c:61), at every moment and
\* for each of the three implementations: hydrogen and oxygen that have bonded are
\* those of the molecules formed, less at most one molecule's worth.
BondsMatchWater == unbonded_h \in 0..2 /\ unbonded_o \in 0..1

\* Nobody waits for a wakeup that does not come: unless sched forgets a task
\* (muntos.c:116), which the others may then wait for, all tasks come to their end or,
\* where they loop, water is made and tasks meet again and again.
Progress ==
  \/ <>(forgotten # {})
  \/ <>(\A t \in Tasks : todo[t] = <<>>)
  \/ []<>(\E t \in Tasks : At(t, "make_water") \/ At(t, "meet"))

=============================================================================
