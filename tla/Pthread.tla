------------------------------ MODULE Pthread -------------------------------
(***************************************************************************)
(* The port to POSIX threads (src/arch/pthread/pthread.c).  Each task is a *)
(* thread, and all but one wait for SIGRESUME with all signals blocked.    *)
(* The handler of SIGTICK is the tick interrupt and that of SIGSYSCALL the *)
(* system call handler.  Of the kernel only what the port can observe is   *)
(* kept: the records on the stack of pending system calls, tick_pending,   *)
(* which tasks can run and which is active.                                *)
(***************************************************************************)
EXTENDS Integers, Sequences, FiniteSets

CONSTANTS
  Tasks,       \* every task but the idle task
  Created,     \* those created before rt_start
  Idle, Main,  \* the idle thread and the one that calls rt_start
  TickRecord, Null,
  MaxCalls,    \* bound: calls made by each task
  MaxTicks     \* bound: ticks of the timer

Threads == Tasks \cup {Idle, Main}
Signals == {"SIGTICK", "SIGSYSCALL", "SIGRESUME"}
Calls == {"yield", "sleep", "exit"}

ASSUME PthreadAssumption ==
  /\ Created \subseteq Tasks /\ Idle \notin Tasks /\ Main \notin Tasks \cup {Idle}
  /\ TickRecord \notin Tasks /\ Null \notin Threads
  /\ MaxCalls \in Nat /\ MaxTicks \in Nat

VARIABLES
  mask,              \* the signals each thread blocks
  pending,           \* the signals sent to each thread and not taken
  timer,             \* whether the timer runs
  timer_tick,        \* a SIGTICK for the process is pending
  action,            \* what is done with signals: "handle", "ignore", "default"
  frames,            \* where each thread is, in its function and in the handlers
                     \* on top of it, with the mask to restore
  pending_syscalls,  \* the records on the stack
  taken,             \* those that rt_syscall_run has taken
  request,           \* what each task asks for with its record
  tick_pending,
  runnable,          \* the tasks that are running or ready
  active,            \* active_task
  rt_context_prev,   \* the task whose ctx it points to
  ctx,               \* rt_task.ctx
  newctx,            \* what rt_syscall_run returned
  calls, ticks       \* how much of the bounds is used

signalVars == <<mask, pending, timer, timer_tick, action>>
kernelVars == <<pending_syscalls, taken, tick_pending, runnable, active,
                rt_context_prev, ctx, newctx>>
taskVars == <<request, calls>>
vars == <<signalVars, frames, kernelVars, taskVars, ticks>>

Frame(label, old) == [at |-> label, mask |-> old]

NewThread(t) == <<Frame("pthread_fn", {})>>

\* Mutant: rt_start does not block signals in the main thread.
InitialMask_open == [t \in Threads |-> IF t = Main THEN {} ELSE Signals]

InitialMask == [t \in Threads |-> Signals]

\* Threads of tasks created before rt_start wait in pthread_fn; rt_start has
\* blocked all signals and is about to create the idle thread.
Init ==
  /\ mask = InitialMask
  /\ pending = [t \in Threads |-> {}]
  /\ timer = FALSE /\ timer_tick = FALSE /\ action = "default"
  /\ frames = [t \in Threads |-> IF t = Main THEN <<Frame("start", {})>>
                                 ELSE IF t \in Created THEN NewThread(t)
                                 ELSE <<>>]
  /\ pending_syscalls = Created /\ taken = {} /\ tick_pending = FALSE
  /\ runnable = {} /\ active = Idle /\ rt_context_prev = Null /\ newctx = Null
  /\ ctx = [t \in Tasks \cup {Idle} |-> IF t \in Created THEN t ELSE Null]
  /\ request = [t \in Tasks |-> "ready"]
  /\ calls = [t \in Tasks |-> 0] /\ ticks = 0

-----------------------------------------------------------------------------
At(t, label) == frames[t] # <<>> /\ Head(frames[t]).at = label

\* A thread takes the signals that it does not block before anything else.
Runs(t, label) == At(t, label) /\ pending[t] \subseteq mask[t]

Moved(t, label) == [frames EXCEPT ![t][1].at = label]
Goto(t, label) == frames' = Moved(t, label)

Block(t) == mask' = [mask EXCEPT ![t] = Signals]
Unblock(t) == mask' = [mask EXCEPT ![t] = {}]

pthread_kill(t, sigs) == pending' = [pending EXCEPT ![t] = @ \cup sigs]

\* Mutant: the tick handler does not block SIGSYSCALL.
sa_mask_none == [SIGTICK |-> {}, SIGSYSCALL |-> {}, SIGRESUME |-> Signals]

sa_mask == [SIGTICK |-> {"SIGSYSCALL"}, SIGSYSCALL |-> {}, SIGRESUME |-> Signals]

handler == [SIGTICK |-> "tick_handler", SIGSYSCALL |-> "syscall_handler",
            SIGRESUME |-> "resume_handler"]

\* The system calls the handler of a signal in a thread that does not block it.
Deliver(t, sig) ==
  /\ frames[t] # <<>> /\ sig \notin mask[t]
  /\ action = "handle"
  /\ \/ sig \in pending[t] /\ pending' = [pending EXCEPT ![t] = @ \ {sig}]
                           /\ UNCHANGED timer_tick
     \/ sig = "SIGTICK" /\ timer_tick /\ timer_tick' = FALSE /\ UNCHANGED pending
  /\ frames' = [frames EXCEPT ![t] = <<Frame(handler[sig], mask[t])>> \o @]
  /\ mask' = [mask EXCEPT ![t] = @ \cup sa_mask[sig] \cup {sig}]
  /\ UNCHANGED <<timer, action, kernelVars, taskVars, ticks>>

handler_return(t) ==
  /\ Runs(t, "return") \/ Runs(t, "tick_return")
  /\ frames' = [frames EXCEPT ![t] = Tail(@)]
  /\ mask' = [mask EXCEPT ![t] = Head(frames[t]).mask]
  /\ UNCHANGED <<pending, timer, timer_tick, action, kernelVars, taskVars, ticks>>

TimerExpires ==
  /\ timer /\ ticks < MaxTicks
  /\ ticks' = ticks + 1
  /\ timer_tick' = TRUE
  /\ UNCHANGED <<mask, pending, timer, action, frames, kernelVars, taskVars>>

-----------------------------------------------------------------------------
(* Tasks.                                                                  *)

\* pthread_fn and rt_syscall_handler wait to be resumed, and unblock all signals.
WaitLabels == {"pthread_fn", "suspended"}

sigwait_resume(t) ==
  /\ \E label \in WaitLabels : At(t, label)
  /\ "SIGRESUME" \in pending[t]
  /\ pending' = [pending EXCEPT ![t] = @ \ {"SIGRESUME"}]
  /\ Goto(t, IF At(t, "suspended") THEN "unblock" ELSE "start_fn")
  /\ UNCHANGED <<mask, timer, timer_tick, action, kernelVars, taskVars, ticks>>

resumed(t) ==
  /\ \/ Runs(t, "unblock") /\ Goto(t, "return")
     \/ Runs(t, "start_fn") /\ Goto(t, IF t = Idle THEN "idle_fn" ELSE "task")
  /\ Unblock(t)
  /\ UNCHANGED <<pending, timer, timer_tick, action, kernelVars, taskVars, ticks>>

\* A task makes a call that fills in its record.
NewCall(t) ==
  /\ Runs(t, "task") /\ calls[t] < MaxCalls
  /\ calls' = [calls EXCEPT ![t] = @ + 1]
  /\ \E c \in Calls :
       /\ request' = [request EXCEPT ![t] = c]
       /\ Goto(t, IF c = "yield" THEN "pend" ELSE "push")
  /\ UNCHANGED <<signalVars, kernelVars, ticks>>

\* rt_syscall pushes the record of the task,
rt_syscall(t) ==
  /\ Runs(t, "push")
  /\ pending_syscalls' = pending_syscalls \cup {t}
  /\ Goto(t, "pend")
  /\ UNCHANGED <<signalVars, taken, tick_pending, runnable, active,
                 rt_context_prev, ctx, newctx, taskVars, ticks>>

\* Mutant: the signal is not sent.
rt_syscall_pend_dropped(t) == UNCHANGED pending

rt_syscall_pend(t) == pthread_kill(t, {"SIGSYSCALL"})

\* and calls rt_syscall_pend, as the tick handler does.
PendSyscall(t) ==
  /\ \/ Runs(t, "pend") /\ Goto(t, "task")
     \/ Runs(t, "tick_pend") /\ Goto(t, "tick_return")
  /\ rt_syscall_pend(t)
  /\ UNCHANGED <<mask, timer, timer_tick, action, kernelVars, taskVars, ticks>>

\* rt_task_init by task t: context_create makes a thread that blocks all signals.
context_create(t, u) ==
  /\ Runs(t, "task") /\ calls[t] < MaxCalls /\ u \in Tasks /\ frames[u] = <<>>
  /\ calls' = [calls EXCEPT ![t] = @ + 1]
  /\ frames' = [Moved(t, "pend") EXCEPT ![u] = NewThread(u)]
  /\ mask' = [mask EXCEPT ![u] = Signals]
  /\ ctx' = [ctx EXCEPT ![u] = u]
  /\ request' = [request EXCEPT ![u] = "ready"]
  /\ pending_syscalls' = pending_syscalls \cup {u}
  /\ UNCHANGED <<pending, timer, timer_tick, action, taken, tick_pending, runnable,
                 active, rt_context_prev, newctx, ticks>>

\* rt_stop: the calling thread blocks all signals, so that no system call it makes
\* afterwards, such as the one that ends the task, is ever run.
rt_stop(t) ==
  /\ Runs(t, "task")
  /\ Block(t)
  /\ Goto(t, "stop")
  /\ UNCHANGED <<pending, timer, timer_tick, action, kernelVars, taskVars, ticks>>

rt_stop_kill(t) ==
  /\ Runs(t, "stop")
  /\ pthread_kill(Main, {"SIGRESUME"})
  /\ Goto(t, "stopped")
  /\ UNCHANGED <<mask, timer, timer_tick, action, kernelVars, taskVars, ticks>>

rt_task_exit(t) ==
  /\ Runs(t, "stopped")
  /\ request' = [request EXCEPT ![t] = "exit"]
  /\ pending_syscalls' = pending_syscalls \cup {t}
  /\ pthread_kill(t, {"SIGSYSCALL"})
  /\ Goto(t, "ended")
  /\ UNCHANGED <<mask, timer, timer_tick, action, taken, tick_pending, runnable, active,
                 rt_context_prev, ctx, newctx, calls, ticks>>

\* Mutant: the signal that the idle thread has waited for is not sent again.
sigwait_idle_lost ==
  \/ \E sig \in pending[Idle] : pending' = [pending EXCEPT ![Idle] = @ \ {sig}]
                               /\ UNCHANGED timer_tick
  \/ timer_tick /\ timer_tick' = FALSE /\ UNCHANGED pending

\* The signal that sigwait takes is pending for the thread once it is sent again.
sigwait_idle ==
  \/ pending[Idle] # {} /\ UNCHANGED <<pending, timer_tick>>
  \/ timer_tick /\ timer_tick' = FALSE /\ pthread_kill(Idle, {"SIGTICK"})

\* idle_fn waits for a signal with all of them blocked, sends the one it gets to
\* itself and unblocks them.
idle_fn ==
  /\ \/ /\ Runs(Idle, "idle_fn")
        /\ Block(Idle) /\ Goto(Idle, "idle_wait") /\ UNCHANGED <<pending, timer_tick>>
     \/ /\ At(Idle, "idle_wait") /\ Goto(Idle, "idle_unblock")
        /\ sigwait_idle /\ UNCHANGED mask
     \/ /\ Runs(Idle, "idle_unblock")
        /\ Unblock(Idle) /\ Goto(Idle, "idle_fn") /\ UNCHANGED <<pending, timer_tick>>
  /\ UNCHANGED <<timer, action, kernelVars, taskVars, ticks>>

-----------------------------------------------------------------------------
(* Signal handlers.                                                        *)

\* rt_tick_advance: the record is pushed unless it is on the stack.
tick_handler(t) ==
  /\ Runs(t, "tick_handler")
  /\ tick_pending' = TRUE
  /\ pending_syscalls' = pending_syscalls \cup IF tick_pending THEN {} ELSE {TickRecord}
  /\ Goto(t, IF tick_pending THEN "tick_return" ELSE "tick_pend")
  /\ UNCHANGED <<signalVars, taken, runnable, active, rt_context_prev, ctx, newctx,
                 taskVars, ticks>>

\* rt_syscall_run takes the records that are on the stack,
syscall_handler(t) ==
  /\ Runs(t, "syscall_handler")
  /\ taken' = pending_syscalls /\ pending_syscalls' = {}
  /\ Goto(t, "run")
  /\ UNCHANGED <<signalVars, tick_pending, runnable, active, rt_context_prev, ctx,
                 newctx, taskVars, ticks>>

\* does what they ask for, and schedules: some task runs next, the idle task if
\* there is no other.
rt_syscall_run(t) ==
  LET suspended == {u \in taken \cap Tasks : request[u] \in {"sleep", "exit"}}
      readied == {u \in taken \cap Tasks : request[u] = "ready"}
      ready == (runnable \ suspended) \cup readied
      sleeping == {u \in Tasks \ ready : request[u] = "sleep"}
  IN /\ Runs(t, "run")
     /\ \E woken \in IF TickRecord \in taken THEN SUBSET sleeping ELSE {{}} :
          runnable' = ready \cup woken
     /\ tick_pending' = (tick_pending /\ TickRecord \notin taken)
     /\ taken' = {}
     /\ active' \in IF runnable' = {} THEN {Idle} ELSE runnable'
     /\ rt_context_prev' = IF active' = active THEN rt_context_prev ELSE active
     /\ newctx' = IF active' = active THEN Null ELSE ctx[active']
     /\ Goto(t, IF newctx' = Null THEN "return" ELSE "block")
     /\ UNCHANGED <<signalVars, pending_syscalls, ctx, taskVars, ticks>>

\* Mutant: signals are not blocked.
SuspendMask_none(t) == UNCHANGED mask

SuspendMask(t) == Block(t)

rt_syscall_handler_block(t) ==
  /\ Runs(t, "block")
  /\ SuspendMask(t)
  /\ Goto(t, "store_prev")
  /\ UNCHANGED <<pending, timer, timer_tick, action, kernelVars, taskVars, ticks>>

StorePrev(t) == ctx' = [ctx EXCEPT ![rt_context_prev] = t]

rt_syscall_handler_prev(t) ==
  /\ Runs(t, "store_prev")
  /\ StorePrev(t)
  /\ Goto(t, "kill")
  /\ UNCHANGED <<signalVars, pending_syscalls, taken, tick_pending, runnable, active,
                 rt_context_prev, newctx, taskVars, ticks>>

\* Mutant: the thread goes on without waiting.
Suspended_not == "return"

Suspended == "suspended"

rt_syscall_handler_kill(t) ==
  /\ Runs(t, "kill")
  /\ pthread_kill(newctx, {"SIGRESUME"})
  /\ Goto(t, Suspended)
  /\ UNCHANGED <<mask, timer, timer_tick, action, kernelVars, taskVars, ticks>>

-----------------------------------------------------------------------------
(* rt_start, in the main thread.                                           *)

rt_start_create ==
  /\ Runs(Main, "start")
  /\ frames' = [Moved(Main, "start_resume") EXCEPT ![Idle] = NewThread(Idle)]
  /\ action' = "handle" /\ timer' = TRUE
  /\ UNCHANGED <<mask, pending, timer_tick>>

rt_start_kill ==
  /\ \/ /\ Runs(Main, "start_resume")
        /\ pthread_kill(Idle, {"SIGRESUME"}) /\ Goto(Main, "start_syscall")
     \/ /\ Runs(Main, "start_syscall")
        /\ pthread_kill(Idle, {"SIGSYSCALL"}) /\ Goto(Main, "main_wait")
  /\ UNCHANGED <<mask, timer, timer_tick, action>>

\* The thread is resumed when the scheduler is to stop, and stops the timer.
rt_start_stop ==
  /\ At(Main, "main_wait") /\ "SIGRESUME" \in pending[Main]
  /\ pending' = [pending EXCEPT ![Main] = {}]
  /\ timer' = FALSE
  /\ Goto(Main, "ignore")
  /\ UNCHANGED <<mask, timer_tick, action>>

\* Mutant: pending signals are kept.
DropPending_kept == UNCHANGED <<pending, timer_tick>>

\* To ignore signals discards the ones that are pending.
DropPending == pending' = [t \in Threads |-> {}] /\ timer_tick' = FALSE

rt_start_ignore ==
  /\ Runs(Main, "ignore")
  /\ action' = "ignore" /\ DropPending
  /\ Goto(Main, "main_unblock")
  /\ UNCHANGED <<mask, timer>>

rt_start_return ==
  /\ \/ /\ Runs(Main, "main_unblock")
        /\ Unblock(Main) /\ Goto(Main, "default") /\ UNCHANGED action
     \/ /\ Runs(Main, "default")
        /\ action' = "default" /\ Goto(Main, "returned") /\ UNCHANGED mask
  /\ UNCHANGED <<pending, timer, timer_tick>>

rt_start ==
  /\ \/ rt_start_create \/ rt_start_kill \/ rt_start_stop \/ rt_start_ignore
     \/ rt_start_return
  /\ UNCHANGED <<kernelVars, taskVars, ticks>>

-----------------------------------------------------------------------------
ThreadStep(t) ==
  \/ \E sig \in Signals : Deliver(t, sig)
  \/ handler_return(t) \/ sigwait_resume(t) \/ resumed(t)
  \/ rt_syscall(t) \/ PendSyscall(t) \/ rt_stop_kill(t) \/ rt_task_exit(t)
  \/ tick_handler(t) \/ syscall_handler(t) \/ rt_syscall_run(t)
  \/ rt_syscall_handler_block(t) \/ rt_syscall_handler_prev(t)
  \/ rt_syscall_handler_kill(t)

TaskCall(t) == NewCall(t) \/ rt_stop(t) \/ \E u \in Tasks : context_create(t, u)

Next ==
  \/ \E t \in Threads : ThreadStep(t)
  \/ \E t \in Tasks : TaskCall(t)
  \/ idle_fn \/ rt_start \/ TimerExpires

Spec == Init /\ [][Next]_vars

\* Every thread that can run does.  Whether a task makes another call is up to the
\* application.
Fairness ==
  /\ \A t \in Threads : WF_vars(ThreadStep(t))
  /\ WF_vars(idle_fn) /\ WF_vars(rt_start)

LiveSpec == Spec /\ Fairness

-----------------------------------------------------------------------------
(* Properties.                                                             *)

\* A thread that executes and does not merely wait to be resumed.  The main thread and
\* the one that has called rt_stop no longer take part.
Executing(t) ==
  /\ t # Main /\ frames[t] # <<>>
  /\ Head(frames[t]).at \notin WaitLabels \cup {"stopped", "ended"}

\* Thread t executes the code of its task.
InTask(t) ==
  /\ Executing(t) /\ Len(frames[t]) = 1 /\ pending[t] \subseteq mask[t]
  /\ Head(frames[t]).at # "start_fn"

\* The port makes one core of many threads: only one thread executes at a time,
\* also while one resumes another and waits (pthread.c:179), and when a task is
\* executed it is the one the scheduler has chosen.
OneThreadExecutes ==
  /\ \A t, u \in Threads : Executing(t) /\ Executing(u) => t = u
  /\ \A t \in Threads : InTask(t) => t = active

\* No thread is resumed that was not suspended (pthread.c:157).
NoSpuriousResume == \A t \in Threads : ~At(t, "resume_handler")

\* The system call a task makes has been run when the call returns (syscall.h:73),
\* whether or not a tick has come in between and whoever has run in the meantime.
RunsBeforeReturn == \A t \in Tasks : InTask(t) /\ At(t, "task") =>
                      t \notin pending_syscalls \cup taken

\* A system call pended by an interrupt runs once no interrupt is running
\* (syscall.h:75): the handler of SIGTICK is never interrupted by that of SIGSYSCALL,
\* and no thread is suspended in it.
SyscallAfterInterrupts ==
  \A t \in Threads : \A i \in 2..Len(frames[t]) :
    frames[t][i].at \notin {"tick_handler", "tick_pend", "tick_return"}

\* What syscall.h:75 asks of rt_syscall_pend when an interrupt calls it: the system
\* call runs before another task gets to run.
PendedRunsBeforeTasks ==
  \A t \in Threads : InTask(t) /\ t # Idle => TickRecord \notin pending_syscalls

\* rt_stop does not let a late signal have its default action, which would end the
\* process (pthread.c:288).
NoSignalAfterStop ==
  action = "default" =>
    \A t \in Threads : /\ pending[t] \subseteq mask[t]
                       /\ timer_tick => "SIGTICK" \in mask[t]

\* rt_stop makes rt_start return.
StopReturns == \A t \in Tasks : At(t, "stop") ~> At(Main, "returned")

\* A record that a task or the creation of a task has pushed is processed, unless
\* the scheduler is stopped.
RecordsRun ==
  \A t \in Tasks : t \in pending_syscalls ~>
    \/ t \notin pending_syscalls
    \/ \E u \in Tasks : At(u, "stopped") \/ At(u, "ended")

=============================================================================
