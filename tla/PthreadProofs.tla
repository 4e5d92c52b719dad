--------------------------- MODULE PthreadProofs ----------------------------
(***************************************************************************)
(* Proofs about the port to POSIX threads: for any number of tasks, calls  *)
(* and ticks, one thread executes at a time, none is resumed that does not *)
(* wait for it, and system calls never run inside the tick handler.  The   *)
(* invariant Inv says where the right to execute is at each step: with the *)
(* thread that executes, or in a SIGRESUME that is pending.                *)
(***************************************************************************)
EXTENDS Pthread, TLAPS

TaskThreads == Tasks \cup {Idle}

TaskLabels == {"pthread_fn", "start_fn", "task", "push", "pend", "stop", "stopped", "ended"}
IdleLabels == {"pthread_fn", "start_fn", "idle_fn", "idle_wait", "idle_unblock"}
TickLabels == {"tick_handler", "tick_pend", "tick_return"}
SyscallLabels == {"syscall_handler", "run", "block", "store_prev", "kill", "suspended",
                  "unblock", "return"}
MainLabels == {"start", "start_resume", "start_syscall", "main_wait", "ignore",
               "main_unblock", "default", "returned"}
Labels == TaskLabels \cup IdleLabels \cup TickLabels \cup SyscallLabels \cup MainLabels

\* Where a thread has all signals blocked,
BlockedLabels == {"pthread_fn", "start_fn", "stop", "stopped", "ended", "idle_wait",
                  "idle_unblock", "store_prev", "kill", "suspended", "unblock"}
\* where it has SIGSYSCALL blocked,
HandlerLabels == {"syscall_handler", "run", "block"}
\* where the scheduler has chosen another task, and where rt_stop has been called.
SwitchLabels == {"block", "store_prev", "kill"}
StoppedLabels == {"stopped", "ended"}

FrameType == [at : Labels, mask : SUBSET Signals]

Types ==
  /\ frames \in [Threads -> Seq(FrameType)]
  /\ mask \in [Threads -> SUBSET Signals] /\ pending \in [Threads -> SUBSET Signals]
  /\ active \in TaskThreads /\ runnable \subseteq Tasks
  /\ pending_syscalls \subseteq Tasks \cup {TickRecord}
  /\ taken \subseteq Tasks \cup {TickRecord}
  /\ ctx \in [TaskThreads -> TaskThreads \cup {Null}]
  /\ newctx \in TaskThreads \cup {Null}
  /\ rt_context_prev \in TaskThreads \cup {Null}
  /\ request \in [Tasks -> Calls \cup {"ready"}]

Exists(t) == frames[t] # <<>>
Top(t) == frames[t][1].at

\* rt_start runs in the main thread, where no handler is ever called.
MainRuns ==
  /\ Len(frames[Main]) = 1 /\ Top(Main) \in MainLabels
  /\ Top(Main) = "start" \/ action = "handle" => mask[Main] = Signals
  /\ Top(Main) \in {"main_unblock", "default", "returned"} => action # "handle"

\* Nothing refers to a thread that has not been created.
OnlyExisting ==
  \A t \in TaskThreads : ~Exists(t) =>
    /\ mask[t] = Signals
    /\ t \in Tasks => /\ t \notin pending_syscalls \cup taken \cup runnable
                      /\ t # active /\ request[t] # "sleep"
    /\ t = Idle => Top(Main) = "start"

\* The frames of a thread: a function at the bottom and handlers on top of it, of which
\* only the topmost can be that of SIGTICK or have signals blocked.
Shape(t) ==
  /\ frames[t][Len(frames[t])].at \in IF t = Idle THEN IdleLabels ELSE TaskLabels
  /\ \A i \in 1..(Len(frames[t]) - 1) : frames[t][i].at \in TickLabels \cup SyscallLabels
  /\ \A i \in 2..Len(frames[t]) :
       /\ frames[t][i].at \notin BlockedLabels \cup TickLabels
       /\ frames[t][i].at \in HandlerLabels =>
            i = 2 /\ Top(t) \in TickLabels /\ "SIGSYSCALL" \in frames[t][1].mask

StackShape == \A t \in TaskThreads : Exists(t) => Shape(t)

\* What blocks which signals.
Masked(t) ==
  /\ Top(t) \in BlockedLabels => mask[t] = Signals
  /\ Top(t) \in HandlerLabels \cup TickLabels => "SIGSYSCALL" \in mask[t]
  /\ Top(t) \in TickLabels => "SIGTICK" \in mask[t]

MaskShape == \A t \in TaskThreads : Exists(t) => Masked(t)

Waiting(t) == Exists(t) /\ Top(t) \in WaitLabels
Stopped(t) == Exists(t) /\ Top(t) \in StoppedLabels
Live(t) == Exists(t) /\ Top(t) \notin WaitLabels \cup StoppedLabels
Resumed(t) == "SIGRESUME" \in pending[t]

\* A tick has interrupted thread t before it has blocked signals to be suspended.
TickInBlock(t) == Len(frames[t]) > 1 /\ Top(t) \in TickLabels /\ frames[t][2].at = "block"
Switching(t) == Top(t) \in SwitchLabels \/ TickInBlock(t)

\* At most one thread executes or has been told to.
OneToken ==
  \A t, u \in TaskThreads : (Live(t) \/ Resumed(t)) /\ (Live(u) \/ Resumed(u)) => t = u

\* There is none before rt_start resumes the idle thread and after rt_stop.
StartStop ==
  /\ Top(Main) \in {"start", "start_resume"} =>
       /\ active = Idle
       /\ \A t \in TaskThreads : ~Resumed(t) /\ (Exists(t) => Waiting(t))
  /\ \A t, u \in TaskThreads : Stopped(t) => ~Live(u) /\ ~Resumed(u)

\* It is the one that the scheduler has chosen, unless it is about to resume that one.
TokenIsActive ==
  \A t \in TaskThreads :
    /\ Resumed(t) => Waiting(t) /\ t = active
    /\ Live(t) => IF Switching(t)
                  THEN /\ active # t /\ newctx = active /\ Waiting(active)
                       /\ rt_context_prev = t
                  ELSE active = t

\* Every thread that can be switched to has its context stored.
Contexts ==
  /\ \A t \in Tasks : Exists(t) => ctx[t] = t
  /\ \/ ctx[Idle] = Idle \/ active = Idle
     \/ Exists(Idle) /\ (Top(Idle) \in {"block", "store_prev"} \/ TickInBlock(Idle))

Inv ==
  /\ Types /\ MainRuns /\ OnlyExisting /\ StackShape /\ MaskShape
  /\ OneToken /\ StartStop /\ TokenIsActive /\ Contexts

-----------------------------------------------------------------------------
(* How actions change the frames.                                          *)

\* A number that is positive and not one is above one.
LEMMA AboveOne == \A n \in Nat : n >= 1 /\ n # 1 => n > 1 /\ n \in 2..n /\ 1 \in 1..(n - 1)
OBVIOUS

\* The head of a sequence.
LEMMA HeadIsFirst ==
  ASSUME NEW S, NEW f \in Seq(S), f # <<>> PROVE Head(f) = f[1] /\ f[1] \in S
OBVIOUS

\* What it means to move the topmost frame of a thread on.
LEMMA MovedFrames ==
  ASSUME Types, NEW t \in Threads, Exists(t), NEW l \in Labels, frames' = Moved(t, l)
  PROVE  /\ frames' \in [Threads -> Seq(FrameType)]
         /\ \A u \in Threads \ {t} : frames'[u] = frames[u]
         /\ frames'[t] # <<>> /\ Len(frames'[t]) = Len(frames[t])
         /\ frames'[t][1].at = l /\ frames'[t][1].mask = frames[t][1].mask
         /\ \A i \in 2..Len(frames[t]) : frames'[t][i] = frames[t][i]
<1> DEFINE f == frames[t]
           g == [f EXCEPT ![1].at = l]
<1>1. f \in Seq(FrameType) /\ f # <<>> /\ Len(f) \in Nat /\ Len(f) >= 1
  BY DEF Types, Exists
<1>2. f[1] \in FrameType
  BY <1>1
<1>3. [f[1] EXCEPT !.at = l] \in FrameType
  BY <1>2 DEF FrameType
<1>4. /\ g \in Seq(FrameType) /\ Len(g) = Len(f)
      /\ g[1] = [f[1] EXCEPT !.at = l]
      /\ \A i \in 2..Len(f) : g[i] = f[i]
  BY <1>1, <1>3
<1>5. g # <<>>
  BY <1>1, <1>4
<1>6. frames' = [frames EXCEPT ![t] = g]
  BY DEF Moved
<1>7. frames'[t] = g /\ \A u \in Threads \ {t} : frames'[u] = frames[u]
  BY <1>6 DEF Types
<1>8. frames' \in [Threads -> Seq(FrameType)]
  BY <1>4, <1>6 DEF Types
<1>9. g[1].at = l /\ g[1].mask = f[1].mask
  BY <1>2, <1>4 DEF FrameType
<1> QED
  BY <1>4, <1>5, <1>7, <1>8, <1>9

\* A label that may replace the topmost one of thread t.
Fits(t, l) ==
  /\ IF Len(frames[t]) = 1 THEN l \in IF t = Idle THEN IdleLabels ELSE TaskLabels
                           ELSE l \in TickLabels \cup SyscallLabels
  /\ l \in TickLabels <=> Top(t) \in TickLabels

\* Moving on keeps the shape of the stacks and leaves the other threads where they are.
LEMMA MovedShape ==
  ASSUME Types, StackShape, NEW t \in TaskThreads, Exists(t),
         NEW l \in Labels, frames' = Moved(t, l), Fits(t, l)
  PROVE  /\ frames' \in [Threads -> Seq(FrameType)]
         /\ StackShape'
         /\ \A u \in Threads \ {t} : frames'[u] = frames[u]
         /\ frames'[t] # <<>> /\ frames'[t][1].at = l
         /\ TickInBlock(t)' <=> TickInBlock(t)
<1>1. t \in Threads
  BY DEF TaskThreads, Threads
<1>2. /\ frames' \in [Threads -> Seq(FrameType)]
      /\ \A u \in Threads \ {t} : frames'[u] = frames[u]
      /\ frames'[t] # <<>> /\ Len(frames'[t]) = Len(frames[t])
      /\ frames'[t][1].at = l /\ frames'[t][1].mask = frames[t][1].mask
      /\ \A i \in 2..Len(frames[t]) : frames'[t][i] = frames[t][i]
  BY <1>1, MovedFrames
<1>3. Len(frames[t]) \in Nat /\ Len(frames[t]) >= 1
  BY <1>1 DEF Types, Exists
<1>4. Shape(t)
  BY DEF StackShape
<1>5. Shape(t)'
  <2>1. frames'[t][Len(frames'[t])].at \in IF t = Idle THEN IdleLabels ELSE TaskLabels
    <3>1. CASE Len(frames[t]) = 1
      BY <1>2, <3>1 DEF Fits
    <3>2. CASE Len(frames[t]) # 1
      <4>1. Len(frames[t]) \in 2..Len(frames[t])
        BY <1>3, <3>2, AboveOne, Zenon
      <4>2. frames'[t][Len(frames'[t])] = frames[t][Len(frames[t])]
        BY <1>2, <4>1
      <4> QED
        BY <1>4, <4>2 DEF Shape
    <3> QED
      BY <3>1, <3>2
  <2>2. ASSUME NEW i \in 1..(Len(frames'[t]) - 1)
        PROVE  frames'[t][i].at \in TickLabels \cup SyscallLabels
    BY <1>2, <1>3, <1>4, <2>2 DEF Shape, Fits
  <2>3. ASSUME NEW i \in 2..Len(frames'[t])
        PROVE  /\ frames'[t][i].at \notin BlockedLabels \cup TickLabels
               /\ frames'[t][i].at \in HandlerLabels =>
                    /\ i = 2 /\ frames'[t][1].at \in TickLabels
                    /\ "SIGSYSCALL" \in frames'[t][1].mask
    <3>1. i \in 2..Len(frames[t]) /\ frames'[t][i] = frames[t][i]
      BY <1>2, <2>3
    <3> QED
      BY <1>2, <1>4, <3>1, Zenon DEF Shape, Fits, Top
  <2> QED
    BY <2>1, <2>2, <2>3 DEF Shape, Top
<1>6. ASSUME NEW u \in TaskThreads \ {t}, Exists(u)' PROVE Shape(u)'
  <2>1. frames'[u] = frames[u]
    BY <1>2 DEF TaskThreads, Threads
  <2>2. Exists(u)
    BY <1>6, <2>1 DEF Exists
  <2>3. Shape(u)
    BY <2>2 DEF StackShape
  <2> QED
    BY <2>1, <2>3 DEF Shape, Top
<1>7. StackShape'
  BY <1>5, <1>6 DEF StackShape
<1>8. TickInBlock(t)' <=> TickInBlock(t)
  <2>1. Len(frames[t]) > 1 => frames'[t][2] = frames[t][2]
    BY <1>2, <1>3
  <2> QED
    BY <1>2, <2>1 DEF TickInBlock, Top, Fits
<1> QED
  BY <1>2, <1>7, <1>8

\* The handler of a signal is called on top of the frames of a thread that does not
\* block it.
LEMMA PushedShape ==
  ASSUME Types, StackShape, NEW t \in TaskThreads, Exists(t),
         NEW l \in {"tick_handler", "syscall_handler"},
         Top(t) \notin BlockedLabels \cup TickLabels,
         Top(t) \in HandlerLabels => l = "tick_handler" /\ "SIGSYSCALL" \in mask[t],
         frames' = [frames EXCEPT ![t] = <<Frame(l, mask[t])>> \o @]
  PROVE  /\ frames' \in [Threads -> Seq(FrameType)]
         /\ StackShape'
         /\ \A u \in Threads \ {t} : frames'[u] = frames[u]
         /\ frames'[t] # <<>> /\ frames'[t][1].at = l
         /\ TickInBlock(t)' <=> l = "tick_handler" /\ Top(t) = "block"
<1> DEFINE f == frames[t]
           r == Frame(l, mask[t])
           g == <<r>> \o f
<1>1. t \in Threads
  BY DEF TaskThreads, Threads
<1>2. f \in Seq(FrameType) /\ f # <<>> /\ Len(f) \in Nat /\ Len(f) >= 1
  BY <1>1 DEF Types, Exists
<1>3. r \in FrameType /\ r.at = l /\ r.mask = mask[t]
  BY <1>1 DEF Types, Frame, FrameType, Labels, TickLabels, SyscallLabels
<1>4. /\ g \in Seq(FrameType) /\ Len(g) = Len(f) + 1 /\ g[1] = r
      /\ \A i \in 2..Len(g) : g[i] = f[i - 1]
  BY <1>2, <1>3
<1>5. g # <<>> /\ g[2] = f[1] /\ g[Len(g)] = f[Len(f)]
  BY <1>2, <1>4
<1>6. frames'[t] = g /\ \A u \in Threads \ {t} : frames'[u] = frames[u]
  BY <1>1 DEF Types
<1>7. frames' \in [Threads -> Seq(FrameType)]
  BY <1>4, Zenon DEF Types
<1>8. Shape(t)
  BY DEF StackShape
<1>9. Shape(t)'
  <2>1. g[Len(g)].at \in IF t = Idle THEN IdleLabels ELSE TaskLabels
    BY <1>5, <1>8 DEF Shape
  <2>2. ASSUME NEW i \in 1..(Len(g) - 1) PROVE g[i].at \in TickLabels \cup SyscallLabels
    <3>1. CASE i = 1
      BY <1>3, <1>4, <3>1 DEF TickLabels, SyscallLabels
    <3>2. CASE i # 1
      <4>1. i \in 2..Len(g) /\ i - 1 \in 1..(Len(f) - 1)
        BY <1>2, <1>4, <3>2
      <4> QED
        BY <1>4, <1>8, <4>1 DEF Shape
    <3> QED
      BY <3>1, <3>2
  <2>3. ASSUME NEW i \in 2..Len(g)
        PROVE  /\ g[i].at \notin BlockedLabels \cup TickLabels
               /\ g[i].at \in HandlerLabels =>
                    i = 2 /\ g[1].at \in TickLabels /\ "SIGSYSCALL" \in g[1].mask
    <3>1. CASE i = 2
      BY <1>3, <1>4, <1>5, <3>1 DEF Top, TickLabels
    <3>2. CASE i # 2
      <4>1. i - 1 \in 2..Len(f)
        BY <1>2, <1>4, <3>2
      <4> QED
        BY <1>4, <1>8, <4>1 DEF Shape
    <3> QED
      BY <3>1, <3>2
  <2> HIDE DEF g
  <2> QED
    BY <1>6, <2>1, <2>2, <2>3, Zenon DEF Shape, Top
<1>10. ASSUME NEW u \in TaskThreads \ {t}, Exists(u)' PROVE Shape(u)'
  <2>1. frames'[u] = frames[u]
    BY <1>6 DEF TaskThreads, Threads
  <2>2. Exists(u)
    BY <1>10, <2>1 DEF Exists
  <2>3. Shape(u)
    BY <2>2 DEF StackShape
  <2> QED
    BY <2>1, <2>3 DEF Shape, Top
<1>11. StackShape'
  BY <1>9, <1>10 DEF StackShape
<1> HIDE DEF g
<1>12. TickInBlock(t)' <=> l = "tick_handler" /\ Top(t) = "block"
  BY <1>2, <1>3, <1>4, <1>5, <1>6 DEF TickInBlock, Top, TickLabels
<1> QED
  BY <1>3, <1>4, <1>5, <1>6, <1>7, <1>11, <1>12

\* A handler returns to the frame below it.
LEMMA PoppedShape ==
  ASSUME Types, StackShape, NEW t \in TaskThreads, Exists(t),
         Top(t) \in {"return", "tick_return"},
         frames' = [frames EXCEPT ![t] = Tail(@)]
  PROVE  /\ frames' \in [Threads -> Seq(FrameType)]
         /\ StackShape'
         /\ \A u \in Threads \ {t} : frames'[u] = frames[u]
         /\ frames'[t] # <<>> /\ frames'[t][1] = frames[t][2] /\ Len(frames[t]) > 1
         /\ frames'[t][1].at \notin BlockedLabels \cup TickLabels
         /\ frames'[t][1].at \in HandlerLabels =>
              Top(t) \in TickLabels /\ "SIGSYSCALL" \in frames[t][1].mask
<1> DEFINE f == frames[t]
           g == Tail(f)
<1>1. t \in Threads
  BY DEF TaskThreads, Threads
<1>2. f \in Seq(FrameType) /\ f # <<>> /\ Len(f) \in Nat /\ Len(f) >= 1
  BY <1>1 DEF Types, Exists
<1>3. Shape(t)
  BY DEF StackShape
<1>4. Len(f) > 1
  <2>1. Len(f) = 1 => Top(t) \in TaskLabels \cup IdleLabels
    BY <1>3 DEF Shape, Top
  <2>2. Top(t) \notin TaskLabels \cup IdleLabels
    BY DEF TaskLabels, IdleLabels
  <2>3. Len(f) # 1
    BY <2>1, <2>2
  <2> QED
    BY <1>2, <2>3, AboveOne, Zenon
<1>5. /\ g \in Seq(FrameType) /\ Len(g) = Len(f) - 1
      /\ \A i \in 1..Len(g) : g[i] = f[i + 1]
  BY <1>2
<1>6. g # <<>> /\ g[1] = f[2] /\ g[Len(g)] = f[Len(f)]
  <2>1. Len(g) \in Nat /\ 1 \in 1..Len(g) /\ Len(g) \in 1..Len(g) /\ Len(g) + 1 = Len(f)
    <3> HIDE DEF f, g
    <3> QED
      BY <1>2, <1>4, <1>5
  <2> HIDE DEF f, g
  <2>2. g[1] = f[1 + 1] /\ g[Len(g)] = f[Len(g) + 1]
    BY <1>5, <2>1
  <2> QED
    BY <2>1, <2>2
<1>7. frames'[t] = g /\ \A u \in Threads \ {t} : frames'[u] = frames[u]
  BY <1>1 DEF Types
<1>8. frames' \in [Threads -> Seq(FrameType)]
  BY <1>5, Zenon DEF Types
<1>9. ASSUME NEW i \in 2..Len(f)
      PROVE  /\ f[i].at \notin BlockedLabels \cup TickLabels
             /\ f[i].at \in HandlerLabels =>
                  i = 2 /\ Top(t) \in TickLabels /\ "SIGSYSCALL" \in f[1].mask
  BY <1>3 DEF Shape
<1>10. Shape(t)'
  <2>1. g[Len(g)].at \in IF t = Idle THEN IdleLabels ELSE TaskLabels
    BY <1>3, <1>6 DEF Shape
  <2>2. ASSUME NEW i \in 1..(Len(g) - 1) PROVE g[i].at \in TickLabels \cup SyscallLabels
    <3>1. i + 1 \in 1..(Len(f) - 1) /\ i \in 1..Len(g)
      BY <1>2, <1>5
    <3> QED
      BY <1>3, <1>5, <3>1 DEF Shape
  <2>3. ASSUME NEW i \in 2..Len(g)
        PROVE  g[i].at \notin BlockedLabels \cup TickLabels /\ g[i].at \notin HandlerLabels
    <3>1. i + 1 \in 2..Len(f) /\ i \in 1..Len(g) /\ i + 1 # 2
      BY <1>2, <1>5
    <3> QED
      BY <1>5, <1>9, <3>1
  <2> HIDE DEF g
  <2> QED
    BY <1>7, <2>1, <2>2, <2>3, Zenon DEF Shape, Top
<1>11. ASSUME NEW u \in TaskThreads \ {t}, Exists(u)' PROVE Shape(u)'
  <2>1. frames'[u] = frames[u]
    BY <1>7 DEF TaskThreads, Threads
  <2>2. Exists(u)
    BY <1>11, <2>1 DEF Exists
  <2>3. Shape(u)
    BY <2>2 DEF StackShape
  <2> QED
    BY <2>1, <2>3 DEF Shape, Top
<1>12. StackShape'
  BY <1>10, <1>11 DEF StackShape
<1>13. 2 \in 2..Len(f)
  BY <1>2, <1>4
<1> HIDE DEF g
<1> QED
  BY <1>4, <1>6, <1>7, <1>8, <1>9, <1>12, <1>13

-----------------------------------------------------------------------------
(* Who executes.                                                           *)

\* A thread whose frames do not change is where it was.
LEMMA SameStatus ==
  ASSUME NEW u, frames'[u] = frames[u]
  PROVE  /\ Exists(u)' <=> Exists(u)
         /\ Waiting(u)' <=> Waiting(u)
         /\ Stopped(u)' <=> Stopped(u)
         /\ Live(u)' <=> Live(u)
         /\ Switching(u)' <=> Switching(u)
         /\ TickInBlock(u)' <=> TickInBlock(u)
         /\ Top(u)' = Top(u)
BY DEF Live, Waiting, Stopped, Exists, Top, Switching, TickInBlock

\* The steps of a thread that executes and goes on to do so leave all the others
\* waiting, if nobody is resumed and nobody else is chosen.
LEMMA TokenStays ==
  ASSUME Inv, NEW t \in TaskThreads, Live(t),
         \A u \in Threads \ {t} : frames'[u] = frames[u],
         frames'[t] # <<>>,
         frames'[t][1].at \notin WaitLabels \cup StoppedLabels,
         Switching(t)' <=> Switching(t),
         \A u \in TaskThreads :
           "SIGRESUME" \in pending'[u] <=> "SIGRESUME" \in pending[u],
         UNCHANGED <<active, newctx, rt_context_prev>>
  PROVE  OneToken' /\ StartStop' /\ TokenIsActive'
<1>1. ASSUME NEW u \in TaskThreads
      PROVE  /\ Exists(u)' <=> Exists(u)
             /\ Waiting(u)' <=> Waiting(u)
             /\ Stopped(u)' <=> Stopped(u)
             /\ Live(u)' <=> Live(u)
             /\ Switching(u)' <=> Switching(u)
             /\ Resumed(u)' <=> Resumed(u)
  <2>1. Resumed(u)' <=> Resumed(u)
    BY DEF Resumed
  <2>2. CASE u = t
    BY <2>1, <2>2, Zenon DEF Live, Waiting, Stopped, Exists, Top
  <2>3. CASE u # t
    <3>1. frames'[u] = frames[u]
      BY <2>3 DEF TaskThreads, Threads
    <3> QED
      BY <2>1, <3>1, SameStatus
  <2> QED
    BY <2>2, <2>3
<1>2. Top(Main)' = Top(Main)
  BY PthreadAssumption, Zenon DEF Top, TaskThreads, Threads
<1>3. OneToken'
  BY <1>1, Zenon DEF OneToken, Inv
<1>4. StartStop'
  BY <1>1, <1>2, Zenon DEF StartStop, Inv
<1>5. TokenIsActive'
  <2>1. active \in TaskThreads
    BY DEF Inv, Types
  <2> QED
    BY <1>1, <2>1 DEF TokenIsActive, Inv
<1> QED
  BY <1>3, <1>4, <1>5, Zenon

\* Contexts stay stored, and the idle thread is as long without one as it is on its way
\* to be suspended.
LEMMA ContextsStay ==
  ASSUME Inv, NEW t \in TaskThreads, Exists(t),
         \A u \in Threads \ {t} : frames'[u] = frames[u],
         frames'[t] # <<>>,
         Top(t) \in {"block", "store_prev"} \/ TickInBlock(t) =>
           frames'[t][1].at \in {"block", "store_prev"} \/ TickInBlock(t)',
         UNCHANGED <<active, ctx>>
  PROVE  Contexts'
<1>1. \A u \in TaskThreads : Exists(u)' <=> Exists(u)
  BY DEF Exists, TaskThreads, Threads
<1>2. \A u \in Tasks : Exists(u)' => ctx'[u] = u
  BY <1>1 DEF Contexts, Inv, TaskThreads
<1>3. Idle \in TaskThreads /\ Idle \in Threads
  BY DEF TaskThreads, Threads
<1>4. CASE t = Idle
  BY <1>1, <1>2, <1>3, <1>4, Zenon DEF Contexts, Inv, Top
<1>5. CASE t # Idle
  BY <1>1, <1>2, <1>3, <1>5 DEF Contexts, Inv, Top, TickInBlock
<1> QED
  BY <1>4, <1>5

\* What the other variables are in the next state.
OtherTypes ==
  /\ mask \in [Threads -> SUBSET Signals] /\ pending \in [Threads -> SUBSET Signals]
  /\ pending_syscalls \subseteq Tasks \cup {TickRecord}
  /\ taken \subseteq Tasks \cup {TickRecord} /\ runnable \subseteq Tasks
  /\ request \in [Tasks -> Calls \cup {"ready"}]

\* A step of thread t that changes neither what is known of other threads nor who is
\* to execute.
LEMMA OthersStay ==
  ASSUME Inv, NEW t \in TaskThreads, Exists(t),
         \A u \in Threads \ {t} : frames'[u] = frames[u] /\ mask'[u] = mask[u],
         frames'[t] # <<>>, Masked(t)',
         pending_syscalls' \cup taken' \cup runnable'
           \subseteq pending_syscalls \cup taken \cup runnable \cup {t, TickRecord},
         \A u \in Tasks \ {t} : request'[u] = request[u],
         UNCHANGED <<action, active>>
  PROVE  MainRuns' /\ OnlyExisting' /\ MaskShape'
<1>1. Main \in Threads \ {t}
  BY PthreadAssumption DEF TaskThreads, Threads
<1>2. MainRuns'
  BY <1>1 DEF Inv, MainRuns, Top
<1>3. ASSUME NEW u \in TaskThreads, u # t
      PROVE  u \in Threads /\ frames'[u] = frames[u] /\ mask'[u] = mask[u]
  BY <1>3 DEF TaskThreads, Threads
<1>4. MaskShape'
  <2> SUFFICES ASSUME NEW u \in TaskThreads, Exists(u)' PROVE Masked(u)'
    BY DEF MaskShape
  <2>1. CASE u # t
    BY <1>3, <2>1, Zenon DEF Inv, MaskShape, Masked, Exists, Top
  <2> QED
    BY <2>1
<1>5. OnlyExisting'
  <2> SUFFICES ASSUME NEW u \in TaskThreads, ~Exists(u)'
               PROVE  /\ mask'[u] = Signals
                      /\ u \in Tasks =>
                           /\ u \notin pending_syscalls' \cup taken' \cup runnable'
                           /\ u # active' /\ request'[u] # "sleep"
                      /\ u = Idle => Top(Main)' = "start"
    BY DEF OnlyExisting
  <2>1. u # t
    BY DEF Exists
  <2>2. ~Exists(u)
    BY <1>3, <2>1 DEF Exists
  <2>3. u \in Tasks => u # TickRecord
    BY PthreadAssumption, Zenon
  <2> QED
    BY <1>1, <1>3, <2>1, <2>2, <2>3, Zenon DEF Inv, OnlyExisting, Top
<1> QED
  BY <1>2, <1>4, <1>5

\* A step in which the thread that executes moves on and does nothing to the others.
LEMMA QuietStep ==
  ASSUME Inv, NEW t \in TaskThreads, Live(t), NEW l \in Labels, frames' = Moved(t, l),
         Fits(t, l), l \notin WaitLabels \cup StoppedLabels,
         l \in SwitchLabels <=> Top(t) \in SwitchLabels,
         Top(t) \in {"block", "store_prev"} => l \in {"block", "store_prev"},
         OtherTypes',
         \A u \in TaskThreads :
           "SIGRESUME" \in pending'[u] <=> "SIGRESUME" \in pending[u],
         \A u \in Threads \ {t} : mask'[u] = mask[u],
         l \in BlockedLabels => mask'[t] = Signals,
         l \in HandlerLabels \cup TickLabels => "SIGSYSCALL" \in mask'[t],
         l \in TickLabels => "SIGTICK" \in mask'[t],
         pending_syscalls' \cup taken' \cup runnable'
           \subseteq pending_syscalls \cup taken \cup runnable \cup {t, TickRecord},
         \A u \in Tasks \ {t} : request'[u] = request[u],
         UNCHANGED <<action, active, newctx, rt_context_prev, ctx>>
  PROVE  Inv'
<1>1. Exists(t) /\ Types /\ StackShape
  BY Zenon DEF Live, Inv
<1>2. /\ frames' \in [Threads -> Seq(FrameType)] /\ StackShape'
      /\ \A u \in Threads \ {t} : frames'[u] = frames[u]
      /\ frames'[t] # <<>> /\ frames'[t][1].at = l
      /\ TickInBlock(t)' <=> TickInBlock(t)
  BY <1>1, MovedShape, Zenon
<1>3. Switching(t)' <=> Switching(t)
  BY <1>2, Zenon DEF Switching, Top
<1>4. OneToken' /\ StartStop' /\ TokenIsActive' /\ Contexts'
  BY <1>1, <1>2, <1>3, TokenStays, ContextsStay
<1>5. Masked(t)'
  BY <1>2, Zenon DEF Masked, Top
<1>6. MainRuns' /\ OnlyExisting' /\ MaskShape'
  BY <1>1, <1>2, <1>5, OthersStay, Zenon
<1>7. Types'
  BY <1>1, <1>2 DEF Types, OtherTypes
<1> QED
  BY <1>2, <1>4, <1>6, <1>7, Zenon DEF Inv

\* Where a thread is says how many frames it has.
LEMMA AtTop ==
  ASSUME Inv, NEW t \in Threads, NEW l \in Labels \ MainLabels, At(t, l)
  PROVE  /\ t \in TaskThreads /\ Exists(t) /\ Top(t) = l
         /\ l \in TickLabels \cup SyscallLabels => Len(frames[t]) # 1
         /\ l \in TaskLabels \cup IdleLabels => Len(frames[t]) = 1
         /\ l \notin WaitLabels \cup StoppedLabels => Live(t)
         /\ l \in {"idle_fn", "idle_wait", "idle_unblock"} => t = Idle
         /\ l \in {"task", "push", "pend", "stop", "stopped", "ended"} => t \in Tasks
<1>1. Exists(t) /\ Top(t) = l
  <2>1. frames[t] \in Seq(FrameType)
    BY DEF Inv, Types
  <2> QED
    BY <2>1 DEF At, Exists, Top
<1>2. t \in TaskThreads
  BY <1>1 DEF Inv, MainRuns, TaskThreads, Threads
<1>3. Shape(t)
  BY <1>1, <1>2 DEF Inv, StackShape
<1>4. Len(frames[t]) \in Nat /\ Len(frames[t]) >= 1
  BY <1>1 DEF Inv, Types, Exists
<1>5. Len(frames[t]) = 1 => l \in IF t = Idle THEN IdleLabels ELSE TaskLabels
  BY <1>1, <1>3 DEF Shape, Top
<1>6. Len(frames[t]) # 1 => l \in TickLabels \cup SyscallLabels
  <2> SUFFICES ASSUME Len(frames[t]) # 1 PROVE l \in TickLabels \cup SyscallLabels
    OBVIOUS
  <2>1. 1 \in 1..(Len(frames[t]) - 1)
    BY <1>4, AboveOne, Zenon
  <2> QED
    BY <1>1, <1>3, <2>1 DEF Shape, Top
<1>7. l \in TickLabels \cup SyscallLabels => l \notin TaskLabels \cup IdleLabels
  BY DEF TickLabels, SyscallLabels, TaskLabels, IdleLabels
<1>8. l \in TaskLabels \cup IdleLabels => Len(frames[t]) = 1
  BY <1>6, <1>7
<1>9. l \in TickLabels \cup SyscallLabels => Len(frames[t]) # 1
  BY <1>5, <1>7
<1>10. l \in {"idle_fn", "idle_wait", "idle_unblock"} => t = Idle
  BY <1>5, <1>8 DEF IdleLabels, TaskLabels
<1>11. l \in {"task", "push", "pend", "stop", "stopped", "ended"} => t \in Tasks
  BY <1>2, <1>5, <1>8, Zenon DEF IdleLabels, TaskLabels, TaskThreads
<1> QED
  BY <1>1, <1>2, <1>8, <1>9, <1>10, <1>11, Zenon DEF Live

\* Where thread t goes from k in such a step.
QuietMove(t, k, l) ==
  \/ k = "task" /\ l \in {"push", "pend", "stop"}
  \/ k = "push" /\ l = "pend"
  \/ k = "pend" /\ l = "task"
  \/ k = "start_fn" /\ l = IF t = Idle THEN "idle_fn" ELSE "task"
  \/ k = "idle_fn" /\ l = "idle_wait"
  \/ k = "idle_wait" /\ l = "idle_unblock"
  \/ k = "idle_unblock" /\ l = "idle_fn"
  \/ k = "tick_handler" /\ l \in {"tick_pend", "tick_return"}
  \/ k = "tick_pend" /\ l = "tick_return"
  \/ k = "syscall_handler" /\ l = "run"
  \/ k = "block" /\ l = "store_prev"
  \/ k = "unblock" /\ l = "return"

\* Signals are blocked or unblocked where they have to be.
QuietMask(t, l) ==
  \/ UNCHANGED mask /\ l \notin {"stop", "idle_wait", "store_prev"}
  \/ mask' = [mask EXCEPT ![t] = Signals]
  \/ mask' = [mask EXCEPT ![t] = {}] /\ l \in {"task", "idle_fn", "return"}

\* Such a step keeps the invariant.
LEMMA QuietMoveKeeps ==
  ASSUME Inv, NEW t \in Threads, NEW k \in Labels \ MainLabels, NEW l, At(t, k),
         QuietMove(t, k, l), frames' = Moved(t, l), QuietMask(t, l), OtherTypes',
         \A u \in TaskThreads :
           "SIGRESUME" \in pending'[u] <=> "SIGRESUME" \in pending[u],
         pending_syscalls' \cup taken' \cup runnable'
           \subseteq pending_syscalls \cup taken \cup runnable \cup {t, TickRecord},
         \A u \in Tasks \ {t} : request'[u] = request[u],
         UNCHANGED <<action, active, newctx, rt_context_prev, ctx>>
  PROVE  Inv'
<1>1. k \notin WaitLabels \cup StoppedLabels
  BY Zenon DEF QuietMove, WaitLabels, StoppedLabels
<1>2. /\ t \in TaskThreads /\ Exists(t) /\ Top(t) = k /\ Live(t)
      /\ k \in TickLabels \cup SyscallLabels => Len(frames[t]) # 1
      /\ k \in TaskLabels \cup IdleLabels => Len(frames[t]) = 1
      /\ k \in {"idle_fn", "idle_wait", "idle_unblock"} => t = Idle
      /\ k \in {"task", "push", "pend"} => t # Idle
  BY <1>1, AtTop, PthreadAssumption, Zenon
<1>3. /\ l \in Labels /\ l \notin WaitLabels \cup StoppedLabels
      /\ l \in SwitchLabels <=> k \in SwitchLabels
      /\ k \in {"block", "store_prev"} => l \in {"block", "store_prev"}
  BY Zenon
  DEF QuietMove, Labels, TaskLabels, IdleLabels, TickLabels, SyscallLabels, WaitLabels,
         StoppedLabels, SwitchLabels
<1>4. Fits(t, l)
  <2>1. l \in TickLabels <=> k \in TickLabels
    BY Zenon DEF QuietMove, TickLabels
  <2>2. CASE k \in TickLabels \cup SyscallLabels
    BY <1>2, <2>1, <2>2, Zenon DEF Fits, QuietMove, TickLabels, SyscallLabels
  <2>3. CASE k \in {"task", "push", "pend"}
    BY <1>2, <2>1, <2>3 DEF Fits, QuietMove, TaskLabels
  <2>4. CASE k \in {"start_fn", "idle_fn", "idle_wait", "idle_unblock"}
    BY <1>2, <2>1, <2>4, Zenon DEF Fits, QuietMove, IdleLabels, TaskLabels
  <2> QED
    BY <2>2, <2>3, <2>4 DEF QuietMove, TickLabels, SyscallLabels
<1>5. Masked(t) /\ mask \in [Threads -> SUBSET Signals]
  BY <1>2 DEF Inv, MaskShape, Types
<1>6. /\ \A u \in Threads \ {t} : mask'[u] = mask[u]
      /\ mask'[t] = Signals \/ (mask'[t] = {} /\ l \in {"task", "idle_fn", "return"})
         \/ (mask'[t] = mask[t] /\ l \notin {"stop", "idle_wait", "store_prev"})
  BY <1>5, Zenon DEF QuietMask
<1>7. /\ l \in BlockedLabels => mask'[t] = Signals
      /\ l \in HandlerLabels \cup TickLabels => "SIGSYSCALL" \in mask'[t]
      /\ l \in TickLabels => "SIGTICK" \in mask'[t]
  <2>1. CASE mask'[t] = Signals
    BY <2>1, Zenon DEF Signals
  <2>2. CASE mask'[t] = {} /\ l \in {"task", "idle_fn", "return"}
    BY <2>2 DEF BlockedLabels, HandlerLabels, TickLabels
  <2>3. CASE mask'[t] = mask[t] /\ l \notin {"stop", "idle_wait", "store_prev"}
    <3>1. /\ l \in BlockedLabels => k \in BlockedLabels
          /\ l \in HandlerLabels => k \in HandlerLabels
          /\ l \in TickLabels => k \in TickLabels
      BY <2>3 DEF QuietMove, BlockedLabels, HandlerLabels, TickLabels
    <3> QED
      BY <1>2, <1>5, <2>3, <3>1, Zenon DEF Masked
  <2> QED
    BY <1>6, <2>1, <2>2, <2>3, Zenon
<1> QED
  BY <1>2, <1>3, <1>4, <1>6, <1>7, QuietStep

\* The quiet steps of a task: the call it makes, the push of its record, the request for
\* the system call, and the start of rt_stop.
LEMMA TaskKeeps ==
  ASSUME Inv, NEW t \in Threads,
         \/ t \in Tasks /\ NewCall(t)
         \/ rt_stop(t) \/ rt_syscall(t) \/ PendSyscall(t)
  PROVE  Inv'
<1>1. {"task", "push", "pend", "tick_pend"} \subseteq Labels \ MainLabels
  BY DEF Labels, TaskLabels, TickLabels, MainLabels
<1>2. OtherTypes
  BY DEF Inv, Types, OtherTypes
<1>3. CASE t \in Tasks /\ NewCall(t)
  <2>1. PICK c \in Calls : /\ request' = [request EXCEPT ![t] = c]
                           /\ frames' = Moved(t, IF c = "yield" THEN "pend" ELSE "push")
    BY <1>3, Zenon DEF NewCall, Goto
  <2>2. /\ At(t, "task")
        /\ UNCHANGED <<mask, pending, action, pending_syscalls, taken, runnable, active,
                       newctx, rt_context_prev, ctx>>
    BY <1>3, Zenon DEF NewCall, Runs, signalVars, kernelVars
  <2>3. OtherTypes' /\ \A u \in Tasks \ {t} : request'[u] = request[u]
    BY <1>2, <2>1, <2>2, Zenon DEF OtherTypes
  <2>4. CASE c = "yield"
    <3>1. QuietMove(t, "task", "pend") /\ QuietMask(t, "pend") /\ frames' = Moved(t, "pend")
      BY <2>1, <2>2, <2>4 DEF QuietMove, QuietMask
    <3> QED
      BY <1>1, <2>2, <2>3, <3>1, QuietMoveKeeps, Zenon
  <2>5. CASE c # "yield"
    <3>1. QuietMove(t, "task", "push") /\ QuietMask(t, "push") /\ frames' = Moved(t, "push")
      BY <2>1, <2>2, <2>5, Zenon DEF QuietMove, QuietMask
    <3> QED
      BY <1>1, <2>2, <2>3, <3>1, QuietMoveKeeps, Zenon
  <2> QED
    BY <2>4, <2>5
<1>4. CASE rt_stop(t)
  <2>1. /\ At(t, "task") /\ frames' = Moved(t, "stop")
        /\ mask' = [mask EXCEPT ![t] = Signals]
        /\ UNCHANGED <<pending, action, pending_syscalls, taken, runnable, active,
                       newctx, rt_context_prev, ctx, request>>
    BY <1>4 DEF rt_stop, Runs, Goto, Block, kernelVars, taskVars
  <2>2. OtherTypes' /\ QuietMove(t, "task", "stop") /\ QuietMask(t, "stop")
    BY <1>2, <2>1 DEF OtherTypes, QuietMove, QuietMask
  <2> QED
    BY <1>1, <2>1, <2>2, QuietMoveKeeps, Zenon
<1>5. CASE rt_syscall(t)
  <2>1. /\ At(t, "push") /\ frames' = Moved(t, "pend")
        /\ pending_syscalls' = pending_syscalls \cup {t}
        /\ UNCHANGED <<mask, pending, action, taken, runnable, active,
                       newctx, rt_context_prev, ctx, request>>
    BY <1>5, Zenon DEF rt_syscall, Runs, Goto, signalVars, taskVars
  <2>2. t \in Tasks
    BY <1>1, <2>1, AtTop, Zenon
  <2>3. OtherTypes' /\ QuietMove(t, "push", "pend") /\ QuietMask(t, "pend")
    BY <1>2, <2>1, <2>2 DEF OtherTypes, QuietMove, QuietMask
  <2> QED
    BY <1>1, <2>1, <2>3, QuietMoveKeeps, Zenon
<1>6. CASE PendSyscall(t)
  <2>1. /\ pending' = [pending EXCEPT ![t] = @ \cup {"SIGSYSCALL"}]
        /\ UNCHANGED <<mask, action, pending_syscalls, taken, runnable, active,
                       newctx, rt_context_prev, ctx, request>>
    BY <1>6 DEF PendSyscall, rt_syscall_pend, pthread_kill, kernelVars, taskVars
  <2>2. /\ OtherTypes'
        /\ \A u \in TaskThreads :
             "SIGRESUME" \in pending'[u] <=> "SIGRESUME" \in pending[u]
    BY <1>2, <2>1 DEF OtherTypes, Signals, TaskThreads, Threads
  <2>3. CASE Runs(t, "pend") /\ Goto(t, "task")
    <3>1. /\ At(t, "pend") /\ frames' = Moved(t, "task")
          /\ QuietMove(t, "pend", "task") /\ QuietMask(t, "task")
      BY <2>1, <2>3, Zenon DEF Runs, Goto, QuietMove, QuietMask
    <3> QED
      BY <1>1, <2>1, <2>2, <3>1, QuietMoveKeeps, Zenon
  <2>4. CASE Runs(t, "tick_pend") /\ Goto(t, "tick_return")
    <3>1. /\ At(t, "tick_pend") /\ frames' = Moved(t, "tick_return")
          /\ QuietMove(t, "tick_pend", "tick_return") /\ QuietMask(t, "tick_return")
      BY <2>1, <2>4 DEF Runs, Goto, QuietMove, QuietMask
    <3> QED
      BY <1>1, <2>1, <2>2, <3>1, QuietMoveKeeps
  <2> QED
    BY <1>6, <2>3, <2>4 DEF PendSyscall
<1> QED
  BY <1>3, <1>4, <1>5, <1>6

\* Those of a thread that has been resumed, of the idle thread and of the handlers.
LEMMA HandlersKeep ==
  ASSUME Inv, NEW t \in Threads,
         \/ resumed(t) \/ tick_handler(t) \/ syscall_handler(t)
         \/ rt_syscall_handler_block(t)
  PROVE  Inv'
<1>1. {"unblock", "start_fn", "tick_handler", "syscall_handler", "block"}
        \subseteq Labels \ MainLabels
  BY DEF Labels, TaskLabels, TickLabels, SyscallLabels, MainLabels
<1>2. OtherTypes
  BY DEF Inv, Types, OtherTypes
<1>3. CASE resumed(t)
  <2>1. /\ mask' = [mask EXCEPT ![t] = {}]
        /\ UNCHANGED <<pending, action, pending_syscalls, taken, runnable, active,
                       newctx, rt_context_prev, ctx, request>>
    BY <1>3 DEF resumed, Unblock, kernelVars, taskVars
  <2>2. OtherTypes'
    BY <1>2, <2>1, Zenon DEF OtherTypes
  <2>3. CASE Runs(t, "unblock") /\ Goto(t, "return")
    <3>1. /\ At(t, "unblock") /\ frames' = Moved(t, "return")
          /\ QuietMove(t, "unblock", "return") /\ QuietMask(t, "return")
      BY <2>1, <2>3 DEF Runs, Goto, QuietMove, QuietMask
    <3> QED
      BY <1>1, <2>1, <2>2, <3>1, QuietMoveKeeps, Zenon
  <2>4. CASE Runs(t, "start_fn") /\ Goto(t, IF t = Idle THEN "idle_fn" ELSE "task")
    <3> DEFINE l == IF t = Idle THEN "idle_fn" ELSE "task"
    <3>1. /\ At(t, "start_fn") /\ frames' = Moved(t, l)
          /\ QuietMove(t, "start_fn", l) /\ QuietMask(t, l)
      BY <2>1, <2>4 DEF Runs, Goto, QuietMove, QuietMask
    <3> HIDE DEF l
    <3> QED
      BY <1>1, <2>1, <2>2, <3>1, QuietMoveKeeps, Zenon
  <2> QED
    BY <1>3, <2>3, <2>4 DEF resumed
<1>4. CASE tick_handler(t)
  <2> DEFINE l == IF tick_pending THEN "tick_return" ELSE "tick_pend"
  <2>1. /\ At(t, "tick_handler") /\ frames' = Moved(t, l)
        /\ pending_syscalls' = pending_syscalls \cup
                                 IF tick_pending THEN {} ELSE {TickRecord}
        /\ UNCHANGED <<mask, pending, action, taken, runnable, active,
                       newctx, rt_context_prev, ctx, request>>
    BY <1>4, Zenon DEF tick_handler, Runs, Goto, signalVars, taskVars
  <2>2. OtherTypes' /\ QuietMove(t, "tick_handler", l) /\ QuietMask(t, l)
    BY <1>2, <2>1, Zenon DEF OtherTypes, QuietMove, QuietMask
  <2> HIDE DEF l
  <2> QED
    BY <1>1, <2>1, <2>2, QuietMoveKeeps, Zenon
<1>5. CASE syscall_handler(t)
  <2>1. /\ At(t, "syscall_handler") /\ frames' = Moved(t, "run")
        /\ taken' = pending_syscalls /\ pending_syscalls' = {}
        /\ UNCHANGED <<mask, pending, action, runnable, active,
                       newctx, rt_context_prev, ctx, request>>
    BY <1>5, Zenon DEF syscall_handler, Runs, Goto, signalVars, taskVars
  <2>2. OtherTypes' /\ QuietMove(t, "syscall_handler", "run") /\ QuietMask(t, "run")
    BY <1>2, <2>1 DEF OtherTypes, QuietMove, QuietMask
  <2> QED
    BY <1>1, <2>1, <2>2, QuietMoveKeeps, Zenon
<1>6. CASE rt_syscall_handler_block(t)
  <2>1. /\ At(t, "block") /\ frames' = Moved(t, "store_prev")
        /\ mask' = [mask EXCEPT ![t] = Signals]
        /\ UNCHANGED <<pending, action, pending_syscalls, taken, runnable, active,
                       newctx, rt_context_prev, ctx, request>>
    BY <1>6, Zenon DEF rt_syscall_handler_block, SuspendMask, Block, Runs, Goto, kernelVars,
                taskVars
  <2>2. OtherTypes' /\ QuietMove(t, "block", "store_prev") /\ QuietMask(t, "store_prev")
    BY <1>2, <2>1 DEF OtherTypes, QuietMove, QuietMask
  <2> QED
    BY <1>1, <2>1, <2>2, QuietMoveKeeps, Zenon
<1> QED
  BY <1>3, <1>4, <1>5, <1>6

\* The idle thread waits for a signal, and lets the handler have it.
LEMMA IdleKeeps == ASSUME Inv, idle_fn PROVE Inv'
<1>1. {"idle_fn", "idle_wait", "idle_unblock"} \subseteq Labels \ MainLabels
      /\ Idle \in Threads
  BY DEF Labels, IdleLabels, MainLabels, Threads
<1>2. OtherTypes
  BY DEF Inv, Types, OtherTypes
<1>3. UNCHANGED <<action, pending_syscalls, taken, runnable, active, newctx,
                  rt_context_prev, ctx, request>>
  BY Zenon DEF idle_fn, kernelVars, taskVars
<1>4. CASE /\ Runs(Idle, "idle_fn")
           /\ Block(Idle) /\ Goto(Idle, "idle_wait") /\ UNCHANGED <<pending, timer_tick>>
  <2>1. /\ At(Idle, "idle_fn") /\ frames' = Moved(Idle, "idle_wait") /\ UNCHANGED pending
        /\ QuietMove(Idle, "idle_fn", "idle_wait") /\ QuietMask(Idle, "idle_wait")
        /\ mask' = [mask EXCEPT ![Idle] = Signals]
    BY <1>4 DEF Runs, Block, Goto, QuietMove, QuietMask
  <2>2. OtherTypes'
    BY <1>2, <1>3, <2>1, Zenon DEF OtherTypes
  <2> QED
    BY <1>1, <1>3, <2>1, <2>2, QuietMoveKeeps, Zenon
<1>5. CASE /\ At(Idle, "idle_wait") /\ Goto(Idle, "idle_unblock")
           /\ sigwait_idle /\ UNCHANGED mask
  <2>1. /\ At(Idle, "idle_wait") /\ frames' = Moved(Idle, "idle_unblock")
        /\ QuietMove(Idle, "idle_wait", "idle_unblock") /\ QuietMask(Idle, "idle_unblock")
        /\ UNCHANGED mask
        /\ \/ UNCHANGED pending
           \/ pending' = [pending EXCEPT ![Idle] = @ \cup {"SIGTICK"}]
    BY <1>5, Zenon DEF Goto, QuietMove, QuietMask, sigwait_idle, pthread_kill
  <2>2. /\ OtherTypes'
        /\ \A u \in TaskThreads :
             "SIGRESUME" \in pending'[u] <=> "SIGRESUME" \in pending[u]
    BY <1>2, <1>3, <2>1 DEF OtherTypes, Signals, TaskThreads, Threads
  <2> QED
    BY <1>1, <1>3, <2>1, <2>2, QuietMoveKeeps, Zenon
<1>6. CASE /\ Runs(Idle, "idle_unblock")
           /\ Unblock(Idle) /\ Goto(Idle, "idle_fn") /\ UNCHANGED <<pending, timer_tick>>
  <2>1. /\ At(Idle, "idle_unblock") /\ frames' = Moved(Idle, "idle_fn")
        /\ QuietMove(Idle, "idle_unblock", "idle_fn") /\ QuietMask(Idle, "idle_fn")
        /\ mask' = [mask EXCEPT ![Idle] = {}] /\ UNCHANGED pending
    BY <1>6 DEF Runs, Unblock, Goto, QuietMove, QuietMask
  <2>2. OtherTypes'
    BY <1>2, <1>3, <2>1, Zenon DEF OtherTypes
  <2> QED
    BY <1>1, <1>3, <2>1, <2>2, QuietMoveKeeps, Zenon
<1> QED
  BY <1>4, <1>5, <1>6 DEF idle_fn

\* A handler is called only in the thread that executes: the others block all signals.
LEMMA DeliverKeeps ==
  ASSUME Inv, NEW t \in Threads, NEW sig \in Signals, Deliver(t, sig) PROVE Inv'
<1>1. /\ frames[t] # <<>> /\ sig \notin mask[t] /\ action = "handle"
      /\ \/ sig \in pending[t] /\ pending' = [pending EXCEPT ![t] = @ \ {sig}]
         \/ sig = "SIGTICK" /\ UNCHANGED pending
      /\ frames' = [frames EXCEPT ![t] = <<Frame(handler[sig], mask[t])>> \o @]
      /\ mask' = [mask EXCEPT ![t] = @ \cup sa_mask[sig] \cup {sig}]
      /\ UNCHANGED <<action, pending_syscalls, taken, runnable, active, newctx,
                     rt_context_prev, ctx, request>>
  BY Zenon DEF Deliver, kernelVars, taskVars
<1>2. Exists(t) /\ mask[t] # Signals
  BY <1>1, Zenon DEF Exists
<1>3. t \in TaskThreads
  BY <1>1, <1>2 DEF Inv, MainRuns, Threads, TaskThreads
<1>4. Masked(t) /\ Types /\ StackShape
  BY <1>2, <1>3, Zenon DEF Inv, MaskShape
<1>5. Top(t) \notin BlockedLabels
  BY <1>2, <1>4 DEF Masked
<1>6. Live(t) /\ ~Waiting(t)
  BY <1>2, <1>5, Zenon DEF Live, Waiting, BlockedLabels, WaitLabels, StoppedLabels
<1>7. sig # "SIGRESUME"
  <2>1. ~Resumed(t)
    BY <1>3, <1>6, Zenon DEF Inv, TokenIsActive
  <2> QED
    BY <1>1, <2>1 DEF Resumed
<1>8. /\ Top(t) \notin TickLabels
      /\ Top(t) \in HandlerLabels => sig = "SIGTICK" /\ "SIGSYSCALL" \in mask[t]
  BY <1>1, <1>4, <1>7, Zenon DEF Masked, Signals
<1> DEFINE l == handler[sig]
<1>9. /\ sig = "SIGTICK" => l = "tick_handler" /\ sa_mask[sig] = {"SIGSYSCALL"}
      /\ sig = "SIGSYSCALL" => l = "syscall_handler" /\ sa_mask[sig] = {}
      /\ sig \in {"SIGTICK", "SIGSYSCALL"}
  BY <1>7 DEF handler, sa_mask, Signals
<1>10. l \in {"tick_handler", "syscall_handler"}
  BY <1>9, Zenon
<1> HIDE DEF l
<1>11. frames' = [frames EXCEPT ![t] = <<Frame(l, mask[t])>> \o @]
  BY <1>1 DEF l
<1>12. /\ frames' \in [Threads -> Seq(FrameType)] /\ StackShape'
       /\ \A u \in Threads \ {t} : frames'[u] = frames[u]
       /\ frames'[t] # <<>> /\ frames'[t][1].at = l
       /\ TickInBlock(t)' <=> l = "tick_handler" /\ Top(t) = "block"
  BY <1>2, <1>3, <1>4, <1>5, <1>8, <1>9, <1>10, <1>11, PushedShape, Zenon
<1>13. Switching(t)' <=> Switching(t)
  BY <1>5, <1>8, <1>9, <1>10, <1>12
  DEF Switching, TickInBlock, Top, SwitchLabels, BlockedLabels, HandlerLabels
<1>14. /\ pending' \in [Threads -> SUBSET Signals]
       /\ \A u \in TaskThreads :
            "SIGRESUME" \in pending'[u] <=> "SIGRESUME" \in pending[u]
  <2>1. CASE UNCHANGED pending
    BY <1>4, <2>1 DEF Types
  <2>2. CASE pending' = [pending EXCEPT ![t] = @ \ {sig}]
    <3>1. \A u \in Threads : pending'[u] = IF u = t THEN pending[u] \ {sig} ELSE pending[u]
      BY <1>4, <2>2, Zenon DEF Types
    <3>2. pending[t] \ {sig} \in SUBSET Signals
      BY <1>4 DEF Types
    <3>3. pending' \in [Threads -> SUBSET Signals]
      BY <1>4, <2>2, <3>2 DEF Types
    <3> QED
      BY <1>7, <3>1, <3>3, Zenon DEF TaskThreads, Threads
  <2> QED
    BY <1>1, <2>1, <2>2, Zenon
<1>15. OneToken' /\ StartStop' /\ TokenIsActive' /\ Contexts'
  <2>1. frames'[t][1].at \notin WaitLabels \cup StoppedLabels
    BY <1>10, <1>12, Zenon DEF WaitLabels, StoppedLabels
  <2>2. Top(t) \in {"block", "store_prev"} \/ TickInBlock(t) => TickInBlock(t)'
    BY <1>5, <1>8, <1>9, <1>12, Zenon DEF TickInBlock, BlockedLabels, HandlerLabels
  <2> QED
    BY <1>1, <1>2, <1>3, <1>6, <1>12, <1>13, <1>14, <2>1, <2>2, TokenStays, ContextsStay,
       Zenon
<1>16. /\ \A u \in Threads \ {t} : mask'[u] = mask[u]
       /\ mask'[t] = mask[t] \cup sa_mask[sig] \cup {sig}
       /\ mask' \in [Threads -> SUBSET Signals]
  BY <1>1, <1>4, <1>9 DEF Types, Signals
<1>17. Masked(t)'
  BY <1>9, <1>10, <1>12, <1>16, Zenon
  DEF Masked, Top, BlockedLabels, HandlerLabels, TickLabels
<1>18. MainRuns' /\ OnlyExisting' /\ MaskShape'
  BY <1>1, <1>2, <1>3, <1>12, <1>16, <1>17, OthersStay, Zenon
<1>19. Types'
  BY <1>1, <1>4, <1>12, <1>14, <1>16, Zenon DEF Types
<1> QED
  BY <1>12, <1>15, <1>18, <1>19, Zenon DEF Inv

\* It returns to where the thread has been interrupted.
LEMMA ReturnKeeps ==
  ASSUME Inv, NEW t \in Threads, handler_return(t) PROVE Inv'
<1>1. /\ At(t, "return") \/ At(t, "tick_return")
      /\ frames' = [frames EXCEPT ![t] = Tail(@)]
      /\ mask' = [mask EXCEPT ![t] = Head(frames[t]).mask]
      /\ UNCHANGED <<pending, action, pending_syscalls, taken, runnable, active, newctx,
                     rt_context_prev, ctx, request>>
  BY Zenon DEF handler_return, Runs, kernelVars, taskVars
<1>2. {"return", "tick_return"} \subseteq Labels \ MainLabels
  BY DEF Labels, TickLabels, SyscallLabels, MainLabels
<1>3. {"return", "tick_return"} \cap (WaitLabels \cup StoppedLabels) = {}
  BY Zenon DEF WaitLabels, StoppedLabels
<1>4. t \in TaskThreads /\ Exists(t) /\ Live(t) /\ Top(t) \in {"return", "tick_return"}
  <2>1. CASE At(t, "return")
    BY <1>2, <1>3, <2>1, AtTop, Zenon
  <2>2. CASE At(t, "tick_return")
    BY <1>2, <1>3, <2>2, AtTop
  <2> QED
    BY <1>1, <2>1, <2>2, Zenon
<1>5. Types /\ StackShape
  BY DEF Inv
<1>6. /\ frames' \in [Threads -> Seq(FrameType)] /\ StackShape'
      /\ \A u \in Threads \ {t} : frames'[u] = frames[u]
      /\ frames'[t] # <<>> /\ frames'[t][1] = frames[t][2] /\ Len(frames[t]) > 1
      /\ frames'[t][1].at \notin BlockedLabels \cup TickLabels
      /\ frames'[t][1].at \in HandlerLabels =>
           Top(t) \in TickLabels /\ "SIGSYSCALL" \in frames[t][1].mask
  BY <1>1, <1>4, <1>5, PoppedShape, Zenon
<1>7. /\ Switching(t)' <=> frames'[t][1].at = "block"
      /\ Switching(t) <=> frames'[t][1].at = "block"
      /\ TickInBlock(t) => frames'[t][1].at = "block"
  BY <1>4, <1>6
  DEF Switching, TickInBlock, Top, SwitchLabels, BlockedLabels, HandlerLabels
<1>8. OneToken' /\ StartStop' /\ TokenIsActive' /\ Contexts'
  <2>1. frames'[t][1].at \notin WaitLabels \cup StoppedLabels
    BY <1>6 DEF BlockedLabels, WaitLabels, StoppedLabels
  <2> QED
    BY <1>1, <1>4, <1>6, <1>7, <2>1, TokenStays, ContextsStay, Zenon
<1>9. Head(frames[t]) = frames[t][1] /\ frames[t][1] \in FrameType
  BY <1>4, <1>5 DEF Types, Exists
<1>10. /\ \A u \in Threads \ {t} : mask'[u] = mask[u]
       /\ mask'[t] = frames[t][1].mask
       /\ mask' \in [Threads -> SUBSET Signals]
  BY <1>1, <1>5, <1>9, Zenon DEF Types, FrameType
<1>11. Masked(t)'
  BY <1>6, <1>10 DEF Masked, Top
<1>12. MainRuns' /\ OnlyExisting' /\ MaskShape'
  BY <1>1, <1>4, <1>6, <1>10, <1>11, OthersStay, Zenon
<1>13. Types'
  BY <1>1, <1>5, <1>6, <1>10, Zenon DEF Types
<1> QED
  BY <1>6, <1>8, <1>12, <1>13, Zenon DEF Inv

-----------------------------------------------------------------------------
(* Steps that hand over.                                                   *)

\* A thread that has been resumed executes.
LEMMA ResumeKeeps ==
  ASSUME Inv, NEW t \in Threads, sigwait_resume(t) PROVE Inv'
<1>1. PICK k \in WaitLabels : At(t, k)
  BY Zenon DEF sigwait_resume
<1> DEFINE l == IF At(t, "suspended") THEN "unblock" ELSE "start_fn"
<1>2. /\ "SIGRESUME" \in pending[t]
      /\ pending' = [pending EXCEPT ![t] = @ \ {"SIGRESUME"}]
      /\ frames' = Moved(t, l)
      /\ UNCHANGED <<mask, action, pending_syscalls, taken, runnable, active, newctx,
                     rt_context_prev, ctx, request>>
  BY DEF sigwait_resume, Goto, kernelVars, taskVars
<1>3. k \in Labels \ MainLabels
  BY DEF Labels, TaskLabels, SyscallLabels, MainLabels, WaitLabels
<1>4. /\ t \in TaskThreads /\ Exists(t) /\ Top(t) = k
      /\ k \in TickLabels \cup SyscallLabels => Len(frames[t]) # 1
      /\ k \in TaskLabels \cup IdleLabels => Len(frames[t]) = 1
  BY <1>1, <1>3, AtTop
<1>5. k = "suspended" <=> At(t, "suspended")
  BY <1>1, <1>4 DEF At, Top, Exists
<1>6. \/ k = "suspended" /\ l = "unblock"
      \/ k = "pthread_fn" /\ l = "start_fn"
  BY <1>5, Zenon DEF WaitLabels
<1> HIDE DEF l
<1>7. /\ l \in Labels /\ Fits(t, l) /\ l \notin WaitLabels \cup StoppedLabels
      /\ l \notin SwitchLabels /\ l \in BlockedLabels /\ k \in BlockedLabels
      /\ k \notin TickLabels /\ l \notin HandlerLabels \cup TickLabels
  BY <1>4, <1>6 DEF Labels, TaskLabels, IdleLabels, TickLabels, SyscallLabels, Fits,
                    WaitLabels, StoppedLabels, SwitchLabels, BlockedLabels, HandlerLabels
<1>8. Types /\ StackShape
  BY Zenon DEF Inv
<1>9. /\ frames' \in [Threads -> Seq(FrameType)] /\ StackShape'
      /\ \A u \in Threads \ {t} : frames'[u] = frames[u]
      /\ frames'[t] # <<>> /\ frames'[t][1].at = l
      /\ TickInBlock(t)' <=> TickInBlock(t)
  BY <1>2, <1>4, <1>7, <1>8, MovedShape, Zenon
<1>10. mask[t] = Signals
  BY <1>4, <1>7 DEF Inv, MaskShape, Masked
<1>11. Masked(t)'
  BY <1>2, <1>7, <1>9, <1>10, Zenon DEF Masked, Top
<1>12. MainRuns' /\ OnlyExisting' /\ MaskShape'
  BY <1>2, <1>4, <1>9, <1>11, OthersStay, Zenon
<1>13. pending' \in [Threads -> SUBSET Signals]
       /\ \A u \in Threads : Resumed(u)' <=> u # t /\ Resumed(u)
  BY <1>2, <1>8, Zenon DEF Types, Resumed
<1>14. Types'
  BY <1>2, <1>8, <1>9, <1>13, Zenon DEF Types
<1>15. Resumed(t) /\ t = active /\ Waiting(t)
  BY <1>2, <1>4, Zenon DEF Inv, TokenIsActive, Resumed
<1>16. ASSUME NEW u \in TaskThreads
       PROVE  /\ u \in Threads /\ ~Stopped(u)
              /\ u # t => ~Live(u) /\ ~Resumed(u)
  BY <1>4, <1>15 DEF Inv, OneToken, StartStop, TaskThreads, Threads
<1>17. ASSUME NEW u \in TaskThreads
       PROVE  /\ ~Resumed(u)' /\ ~Stopped(u)'
              /\ Live(u)' => u = t
  <2>1. CASE u = t
    BY <1>7, <1>9, <1>13, <1>16, <2>1, Zenon DEF Stopped, Top, Exists
  <2>2. CASE u # t
    BY <1>9, <1>13, <1>16, <2>2, SameStatus, Zenon
  <2> QED
    BY <2>1, <2>2
<1>18. ~Switching(t)'
  BY <1>4, <1>7, <1>9, Zenon DEF Switching, TickInBlock, Top
<1>19. OneToken' /\ TokenIsActive'
  BY <1>2, <1>15, <1>17, <1>18 DEF OneToken, TokenIsActive
<1>20. StartStop'
  <2>1. Top(Main) \notin {"start", "start_resume"}
    BY <1>4, <1>15 DEF Inv, StartStop
  <2>2. Top(Main)' = Top(Main)
    BY <1>4, <1>9, SameStatus, PthreadAssumption, Zenon DEF TaskThreads, Threads
  <2> QED
    BY <1>17, <2>1, <2>2 DEF StartStop
<1>21. Contexts'
  <2>1. ctx[Idle] = Idle \/ active = Idle
    <3>1. Idle \in TaskThreads
      BY DEF TaskThreads
    <3>2. Live(Idle) => Idle = t
      BY <1>16, <3>1
    <3>3. Exists(Idle) /\ (Top(Idle) \in {"block", "store_prev"} \/ TickInBlock(Idle))
            => Live(Idle)
      BY DEF Live, TickInBlock, TickLabels, WaitLabels, StoppedLabels
    <3> QED
      BY <1>15, <3>2, <3>3 DEF Inv, Contexts
  <2>2. ASSUME NEW u \in Tasks, Exists(u)' PROVE ctx[u] = u
    <3>1. u \in Threads /\ (u # t => frames'[u] = frames[u])
      BY <1>9 DEF Threads
    <3>2. Exists(u)
      BY <1>4, <2>2, <3>1, SameStatus, Zenon
    <3> QED
      BY <3>2, Zenon DEF Inv, Contexts
  <2> QED
    BY <1>2, <2>1, <2>2, Zenon DEF Contexts
<1> QED
  BY <1>9, <1>12, <1>14, <1>19, <1>20, <1>21, Zenon DEF Inv

\* The scheduler chooses a thread that waits, or the one it runs in.
LEMMA RunKeeps ==
  ASSUME Inv, NEW t \in Threads, rt_syscall_run(t) PROVE Inv'
<1> DEFINE suspended == {u \in taken \cap Tasks : request[u] \in {"sleep", "exit"}}
           readied == {u \in taken \cap Tasks : request[u] = "ready"}
           ready == (runnable \ suspended) \cup readied
           sleeping == {u \in Tasks \ ready : request[u] = "sleep"}
           l == IF newctx' = Null THEN "return" ELSE "block"
<1>0. PICK a : a = active'
  OBVIOUS
<1>1. /\ At(t, "run") /\ frames' = Moved(t, l) /\ taken' = {}
      /\ a \in IF runnable' = {} THEN {Idle} ELSE runnable'
      /\ rt_context_prev' = IF a = active THEN rt_context_prev ELSE active
      /\ newctx' = IF a = active THEN Null ELSE ctx[a]
      /\ UNCHANGED <<mask, pending, action, pending_syscalls, ctx, request>>
  BY <1>0, Zenon DEF rt_syscall_run, Runs, Goto, signalVars, taskVars
<1>2. \A u \in runnable' :
        u \in Tasks /\ (u \in runnable \cup taken \/ request[u] = "sleep")
  <2>1. PICK woken \in IF TickRecord \in taken THEN SUBSET sleeping ELSE {{}} :
          runnable' = ready \cup woken
    BY DEF rt_syscall_run
  <2>2. woken \subseteq sleeping
    <3> HIDE DEF sleeping
    <3> QED
      BY <2>1
  <2>3. runnable \subseteq Tasks
    BY DEF Inv, Types
  <2> QED
    BY <2>1, <2>2, <2>3, Zenon
<1> HIDE DEF suspended, readied, ready, sleeping, l
<1>3. /\ "run" \in Labels \ MainLabels /\ "run" \notin WaitLabels \cup StoppedLabels
      /\ "run" \in SyscallLabels /\ "run" \in HandlerLabels
      /\ "run" \notin SwitchLabels \cup TickLabels
  BY DEF Labels, SyscallLabels, MainLabels, WaitLabels, StoppedLabels, HandlerLabels,
         SwitchLabels, TickLabels
<1>4. /\ t \in TaskThreads /\ Exists(t) /\ Top(t) = "run" /\ Live(t)
      /\ Len(frames[t]) # 1
  BY <1>1, <1>3, AtTop, Zenon
<1>5. ~TickInBlock(t) /\ active = t
  BY <1>3, <1>4, Zenon DEF Inv, TokenIsActive, Switching, TickInBlock
<1>6. ASSUME NEW u \in TaskThreads
      PROVE  /\ u \in Threads /\ ~Resumed(u) /\ ~Stopped(u)
             /\ Live(u) => u = t
             /\ Exists(u) /\ u # t => Waiting(u)
  <2>1. Resumed(u) => u = t
    BY <1>4 DEF Inv, OneToken
  <2>2. ~Resumed(t)
    BY <1>3, <1>4 DEF Inv, TokenIsActive, Waiting
  <2>3. ~Stopped(u)
    BY <1>4 DEF Inv, StartStop
  <2>4. Live(u) => u = t
    BY <1>4 DEF Inv, OneToken
  <2> QED
    BY <2>1, <2>2, <2>3, <2>4 DEF Live, Waiting, Stopped, TaskThreads, Threads
<1>7. Top(Main) \notin {"start", "start_resume"}
  BY <1>3, <1>4, Zenon DEF Inv, StartStop, Waiting
<1>8. Exists(Idle) /\ Idle \in TaskThreads
  BY <1>7, Zenon DEF Inv, OnlyExisting, TaskThreads
<1>9. \A u \in runnable' : u \in TaskThreads /\ Exists(u)
  BY <1>2 DEF Inv, OnlyExisting, TaskThreads
<1>10. a \in TaskThreads /\ Exists(a)
  BY <1>1, <1>8, <1>9, Zenon
<1>11. ctx[Idle] = Idle \/ t = Idle
  <2>1. Exists(Idle) /\ (Top(Idle) \in {"block", "store_prev"} \/ TickInBlock(Idle))
          => Live(Idle)
    BY Zenon DEF Live, TickInBlock, TickLabels, WaitLabels, StoppedLabels
  <2> QED
    BY <1>5, <1>6, <1>8, <2>1, Zenon DEF Inv, Contexts
<1>12. a # t => ctx[a] = a
  BY <1>10, <1>11 DEF Inv, Contexts, TaskThreads
<1>13. IF a = t THEN newctx' = Null /\ l = "return" /\ rt_context_prev' = rt_context_prev
                ELSE newctx' = a /\ l = "block" /\ rt_context_prev' = t
  BY <1>1, <1>5, <1>6, <1>10, <1>12, PthreadAssumption, Zenon DEF l
<1>14. /\ l \in Labels /\ Fits(t, l) /\ l \notin WaitLabels \cup StoppedLabels
       /\ l \notin BlockedLabels \cup TickLabels
       /\ l \in SwitchLabels <=> l = "block"
  BY <1>4, <1>13 DEF Labels, TickLabels, SyscallLabels, Fits, WaitLabels, StoppedLabels,
                     SwitchLabels, BlockedLabels
<1>15. Types /\ StackShape
  BY DEF Inv
<1>16. /\ frames' \in [Threads -> Seq(FrameType)] /\ StackShape'
       /\ \A u \in Threads \ {t} : frames'[u] = frames[u]
       /\ frames'[t] # <<>> /\ frames'[t][1].at = l
       /\ TickInBlock(t)' <=> TickInBlock(t)
  BY <1>1, <1>4, <1>14, <1>15, MovedShape, Zenon
<1>17. Types'
  <2>1. runnable' \subseteq Tasks
    BY <1>2, Zenon
  <2>2. /\ newctx' \in TaskThreads \cup {Null} /\ active' \in TaskThreads
        /\ rt_context_prev' \in TaskThreads \cup {Null}
    BY <1>0, <1>4, <1>10, <1>13, <1>15, Zenon DEF Types
  <2> QED
    BY <1>1, <1>15, <1>16, <2>1, <2>2 DEF Types
<1>18. ASSUME NEW u \in TaskThreads
       PROVE  /\ Exists(u)' <=> Exists(u)
              /\ ~Resumed(u)' /\ ~Stopped(u)'
              /\ Live(u)' => u = t
              /\ Waiting(u) => Waiting(u)'
  <2>1. ~Resumed(u)'
    BY <1>1, <1>6, Zenon DEF Resumed
  <2>2. CASE u = t
    BY <1>3, <1>4, <1>14, <1>16, <2>1, <2>2, Zenon DEF Stopped, Waiting, Exists, Top
  <2>3. CASE u # t
    BY <1>6, <1>16, <2>1, <2>3, SameStatus, Zenon
  <2> QED
    BY <2>2, <2>3
<1>19. Main \in Threads \ {t} /\ Top(Main)' = Top(Main)
  BY <1>4, <1>16, SameStatus, PthreadAssumption, Zenon DEF TaskThreads, Threads
<1>20. MainRuns'
  BY <1>1, <1>16, <1>19, Zenon DEF Inv, MainRuns
<1>21. MaskShape'
  <2> SUFFICES ASSUME NEW u \in TaskThreads, Exists(u)' PROVE Masked(u)'
    BY DEF MaskShape
  <2>1. CASE u = t
    BY <1>1, <1>3, <1>4, <1>14, <1>16, <2>1, Zenon DEF Inv, MaskShape, Masked, Top
  <2>2. CASE u # t
    BY <1>1, <1>6, <1>16, <1>18, <2>2, Zenon DEF Inv, MaskShape, Masked, Top
  <2> QED
    BY <2>1, <2>2
<1>22. OnlyExisting'
  <2> SUFFICES ASSUME NEW u \in TaskThreads, ~Exists(u)'
               PROVE  /\ mask'[u] = Signals
                      /\ u \in Tasks =>
                           /\ u \notin pending_syscalls' \cup taken' \cup runnable'
                           /\ u # active' /\ request'[u] # "sleep"
                      /\ u = Idle => Top(Main)' = "start"
    BY Zenon DEF OnlyExisting
  <2>1. ~Exists(u) /\ u \notin runnable' /\ u # a
    BY <1>9, <1>10, <1>18
  <2> QED
    BY <1>0, <1>1, <1>19, <2>1, Zenon DEF Inv, OnlyExisting
<1>23. OneToken' /\ StartStop'
  BY <1>7, <1>18, <1>19, Zenon DEF OneToken, StartStop
<1>24. TokenIsActive'
  <2>1. Switching(t)' <=> a # t
    BY <1>5, <1>13, <1>14, <1>16 DEF Switching, Top
  <2>2. a # t => newctx' = a /\ rt_context_prev' = t /\ Waiting(a)'
    BY <1>6, <1>10, <1>13, <1>18, Zenon
  <2> QED
    BY <1>0, <1>18, <2>1, <2>2, Zenon DEF TokenIsActive, Waiting, Exists, Top
<1>25. Contexts'
  <2>1. \A u \in Tasks : Exists(u)' => ctx'[u] = u
    BY <1>1, <1>18, Zenon DEF Inv, Contexts, TaskThreads
  <2>2. t = Idle /\ a # t => Exists(Idle)' /\ Top(Idle)' = "block"
    BY <1>13, <1>16 DEF Exists, Top
  <2> QED
    BY <1>0, <1>1, <1>11, <2>1, <2>2 DEF Contexts
<1> QED
  BY <1>16, <1>17, <1>20, <1>21, <1>22, <1>23, <1>24, <1>25, Zenon DEF Inv

\* The thread that is to be suspended stores its context,
LEMMA PrevKeeps ==
  ASSUME Inv, NEW t \in Threads, rt_syscall_handler_prev(t) PROVE Inv'
<1>1. /\ At(t, "store_prev") /\ frames' = Moved(t, "kill")
      /\ ctx' = [ctx EXCEPT ![rt_context_prev] = t]
      /\ UNCHANGED <<mask, pending, action, pending_syscalls, taken, runnable, active,
                     newctx, rt_context_prev, request>>
  BY Zenon DEF rt_syscall_handler_prev, StorePrev, Runs, Goto, signalVars, taskVars
<1>2. /\ "store_prev" \in Labels \ MainLabels
      /\ "store_prev" \notin WaitLabels \cup StoppedLabels \cup TickLabels
      /\ "store_prev" \in SyscallLabels \cap BlockedLabels \cap SwitchLabels
      /\ "kill" \in Labels \cap SyscallLabels \cap BlockedLabels \cap SwitchLabels
      /\ "kill" \notin WaitLabels \cup StoppedLabels \cup TickLabels \cup HandlerLabels
  BY Zenon DEF Labels, SyscallLabels, MainLabels, WaitLabels, StoppedLabels, HandlerLabels,
         SwitchLabels, TickLabels, BlockedLabels
<1>3. /\ t \in TaskThreads /\ Exists(t) /\ Top(t) = "store_prev" /\ Live(t)
      /\ Len(frames[t]) # 1
  BY <1>1, <1>2, AtTop, Zenon
<1>4. Switching(t) /\ rt_context_prev = t /\ active # t
  BY <1>2, <1>3, Zenon DEF Inv, TokenIsActive, Switching
<1>5. Types /\ StackShape /\ Fits(t, "kill")
  BY <1>2, <1>3 DEF Inv, Fits
<1>6. /\ frames' \in [Threads -> Seq(FrameType)] /\ StackShape'
      /\ \A u \in Threads \ {t} : frames'[u] = frames[u]
      /\ frames'[t] # <<>> /\ frames'[t][1].at = "kill"
  BY <1>1, <1>2, <1>3, <1>5, MovedShape, Zenon
<1>7. OneToken' /\ StartStop' /\ TokenIsActive'
  <2>1. Switching(t)'
    BY <1>2, <1>6 DEF Switching, Top
  <2> QED
    BY <1>1, <1>2, <1>3, <1>4, <1>6, <2>1, TokenStays, Zenon
<1>8. mask[t] = Signals
  BY <1>2, <1>3, Zenon DEF Inv, MaskShape, Masked
<1>9. Masked(t)'
  BY <1>1, <1>2, <1>6, <1>8 DEF Masked, Top
<1>10. MainRuns' /\ OnlyExisting' /\ MaskShape'
  BY <1>1, <1>3, <1>6, <1>9, OthersStay, Zenon
<1>11. ctx' \in [TaskThreads -> TaskThreads \cup {Null}]
       /\ \A u \in TaskThreads : ctx'[u] = IF u = t THEN t ELSE ctx[u]
  BY <1>1, <1>3, <1>4, <1>5 DEF Types
<1>12. Contexts'
  <2>1. \A u \in TaskThreads : u # t => (Exists(u)' <=> Exists(u)) /\ ~Live(u)
    BY <1>3, <1>6, Zenon DEF Inv, OneToken, Exists, TaskThreads, Threads
  <2>2. \A u \in Tasks : Exists(u)' => ctx'[u] = u
    BY <1>11, <2>1, Zenon DEF Inv, Contexts, TaskThreads
  <2>3. Exists(Idle) /\ (Top(Idle) \in {"block", "store_prev"} \/ TickInBlock(Idle))
          => Live(Idle)
    BY DEF Live, TickInBlock, TickLabels, WaitLabels, StoppedLabels
  <2>4. ctx'[Idle] = Idle \/ active' = Idle
    BY <1>1, <1>11, <2>1, <2>3 DEF Inv, Contexts, TaskThreads
  <2> QED
    BY <2>2, <2>4, Zenon DEF Contexts
<1>13. Types'
  BY <1>1, <1>5, <1>6, <1>11, Zenon DEF Types
<1> QED
  BY <1>6, <1>7, <1>10, <1>12, <1>13, Zenon DEF Inv

\* and resumes the chosen one, which waits, before it waits itself.
LEMMA KillKeeps ==
  ASSUME Inv, NEW t \in Threads, rt_syscall_handler_kill(t) PROVE Inv'
<1>1. /\ At(t, "kill") /\ frames' = Moved(t, "suspended")
      /\ pending' = [pending EXCEPT ![newctx] = @ \cup {"SIGRESUME"}]
      /\ UNCHANGED <<mask, action, pending_syscalls, taken, runnable, active,
                     newctx, rt_context_prev, ctx, request>>
  BY DEF rt_syscall_handler_kill, pthread_kill, Suspended, Runs, Goto, kernelVars, taskVars
<1>2. /\ "kill" \in Labels \ MainLabels
      /\ "kill" \notin WaitLabels \cup StoppedLabels \cup TickLabels
      /\ "kill" \in SyscallLabels \cap BlockedLabels \cap SwitchLabels
      /\ "suspended" \in Labels \cap SyscallLabels \cap BlockedLabels \cap WaitLabels
      /\ "suspended" \notin StoppedLabels \cup TickLabels \cup HandlerLabels
  BY DEF Labels, SyscallLabels, MainLabels, WaitLabels, StoppedLabels, HandlerLabels,
         SwitchLabels, TickLabels, BlockedLabels
<1>3. /\ t \in TaskThreads /\ Exists(t) /\ Top(t) = "kill" /\ Live(t)
      /\ Len(frames[t]) # 1
  BY <1>1, <1>2, AtTop, Zenon
<1>4. Switching(t) /\ newctx = active /\ active # t /\ Waiting(active)
  BY <1>2, <1>3 DEF Inv, TokenIsActive, Switching
<1>5. Types /\ StackShape /\ Fits(t, "suspended")
  BY <1>2, <1>3, Zenon DEF Inv, Fits
<1>6. /\ frames' \in [Threads -> Seq(FrameType)] /\ StackShape'
      /\ \A u \in Threads \ {t} : frames'[u] = frames[u]
      /\ frames'[t] # <<>> /\ frames'[t][1].at = "suspended"
  BY <1>1, <1>2, <1>3, <1>5, MovedShape, Zenon
<1>7. active \in TaskThreads /\ active \in Threads
  BY <1>5, Zenon DEF Types, TaskThreads, Threads
<1>8. ASSUME NEW u \in TaskThreads
      PROVE  /\ u \in Threads /\ ~Resumed(u) /\ ~Stopped(u)
             /\ Live(u) => u = t
  BY <1>2, <1>3, Zenon
  DEF Inv, OneToken, StartStop, TokenIsActive, Waiting, TaskThreads, Threads
<1>9. pending' \in [Threads -> SUBSET Signals]
      /\ \A u \in TaskThreads : Resumed(u)' => u = active
  <2>1. \A u \in Threads : pending'[u] = IF u = active THEN pending[u] \cup {"SIGRESUME"}
                                                       ELSE pending[u]
    BY <1>1, <1>4, <1>5, <1>7, Zenon DEF Types
  <2>2. pending[active] \cup {"SIGRESUME"} \in SUBSET Signals
    BY <1>5, <1>7 DEF Types, Signals
  <2>3. pending' \in [Threads -> SUBSET Signals]
    BY <1>1, <1>4, <1>5, <2>2, Zenon DEF Types
  <2> QED
    BY <1>8, <2>1, <2>3 DEF Resumed
<1>10. ASSUME NEW u \in TaskThreads
       PROVE  ~Live(u)' /\ ~Stopped(u)' /\ (u # t => (Waiting(u)' <=> Waiting(u)))
  <2>1. CASE u = t
    BY <1>2, <1>6, <2>1, Zenon DEF Live, Stopped, Top
  <2>2. CASE u # t
    BY <1>6, <1>8, <2>2, SameStatus, Zenon
  <2> QED
    BY <2>1, <2>2
<1>11. OneToken' /\ TokenIsActive'
  BY <1>1, <1>4, <1>7, <1>9, <1>10 DEF OneToken, TokenIsActive
<1>12. StartStop'
  <2>1. Top(Main) \notin {"start", "start_resume"}
    BY <1>2, <1>3 DEF Inv, StartStop, Waiting
  <2>2. Top(Main)' = Top(Main)
    BY <1>3, <1>6, SameStatus, PthreadAssumption, Zenon DEF TaskThreads, Threads
  <2> QED
    BY <1>10, <2>1, <2>2 DEF StartStop
<1>13. Contexts'
  <2>1. ~(Top(t) \in {"block", "store_prev"} \/ TickInBlock(t))
    BY <1>2, <1>3, Zenon DEF TickInBlock
  <2> QED
    BY <1>1, <1>3, <1>6, <2>1, ContextsStay, Zenon
<1>14. mask[t] = Signals
  BY <1>2, <1>3, Zenon DEF Inv, MaskShape, Masked
<1>15. Masked(t)'
  BY <1>1, <1>2, <1>6, <1>14, Zenon DEF Masked, Top
<1>16. MainRuns' /\ OnlyExisting' /\ MaskShape'
  BY <1>1, <1>3, <1>6, <1>15, OthersStay, Zenon
<1>17. Types'
  BY <1>1, <1>5, <1>6, <1>9, Zenon DEF Types
<1> QED
  BY <1>6, <1>11, <1>12, <1>13, <1>16, <1>17, Zenon DEF Inv

\* Once the thread that has called rt_stop has resumed the main thread, none of the
\* tasks executes.
LEMMA StoppedKeeps ==
  ASSUME Inv, NEW t \in Threads, rt_stop_kill(t) \/ rt_task_exit(t) PROVE Inv'
<1>1. PICK k \in {"stop", "stopped"}, l \in StoppedLabels, s \in Threads,
           sigs \in {{"SIGRESUME"}, {"SIGSYSCALL"}} :
        /\ At(t, k) /\ frames' = Moved(t, l)
        /\ pending' = [pending EXCEPT ![s] = @ \cup sigs]
        /\ \/ s = Main /\ sigs = {"SIGRESUME"}
           \/ s = t /\ sigs = {"SIGSYSCALL"}
  <2>1. Main \in Threads
    BY DEF Threads
  <2>2. CASE rt_stop_kill(t)
    BY <2>1, <2>2, Zenon DEF rt_stop_kill, Runs, Goto, pthread_kill, StoppedLabels
  <2>3. CASE rt_task_exit(t)
    BY <2>3, Zenon DEF rt_task_exit, Runs, Goto, pthread_kill, StoppedLabels
  <2> QED
    BY <2>2, <2>3
<1>2. /\ UNCHANGED <<mask, action, taken, runnable, active, newctx, rt_context_prev, ctx>>
      /\ pending_syscalls' \subseteq pending_syscalls \cup {t}
      /\ request' = request \/ request' = [request EXCEPT ![t] = "exit"]
  BY Zenon DEF rt_stop_kill, rt_task_exit, kernelVars, taskVars
<1>3. /\ {"stop", "stopped"} \subseteq Labels \ MainLabels
      /\ k \notin WaitLabels \cup TickLabels \cup SyscallLabels
      /\ k \in TaskLabels \cap BlockedLabels
      /\ l \in Labels \cap TaskLabels \cap BlockedLabels
      /\ l \notin WaitLabels \cup TickLabels \cup HandlerLabels
  BY Zenon DEF Labels, TaskLabels, SyscallLabels, MainLabels, WaitLabels, StoppedLabels,
         HandlerLabels, TickLabels, BlockedLabels
<1>4. /\ t \in TaskThreads /\ Exists(t) /\ Top(t) = k /\ t \in Tasks
      /\ Len(frames[t]) = 1
  BY <1>1, <1>3, AtTop, Zenon
<1>5. Types /\ StackShape /\ Fits(t, l)
  BY <1>3, <1>4, PthreadAssumption DEF Inv, Fits
<1>6. /\ frames' \in [Threads -> Seq(FrameType)] /\ StackShape'
      /\ \A u \in Threads \ {t} : frames'[u] = frames[u]
      /\ frames'[t] # <<>> /\ frames'[t][1].at = l
  BY <1>1, <1>3, <1>4, <1>5, MovedShape, Zenon
<1>7. Live(t) \/ Stopped(t)
  BY <1>3, <1>4, Zenon DEF Live, Stopped
<1>8. ASSUME NEW u \in TaskThreads
      PROVE  u \in Threads /\ ~Resumed(u) /\ (u # t => ~Live(u))
  <2>1. ~Waiting(t)
    BY <1>3, <1>4 DEF Waiting
  <2> QED
    BY <1>4, <1>7, <2>1, Zenon
    DEF Inv, OneToken, StartStop, TokenIsActive, TaskThreads, Threads
<1>9. pending' \in [Threads -> SUBSET Signals] /\ \A u \in TaskThreads : ~Resumed(u)'
  <2>1. \A u \in Threads : pending'[u] = IF u = s THEN pending[u] \cup sigs ELSE pending[u]
    BY <1>1, <1>5, Zenon DEF Types
  <2>2. pending[s] \cup sigs \in SUBSET Signals
    BY <1>1, <1>5, Zenon DEF Types, Signals
  <2>3. pending' \in [Threads -> SUBSET Signals]
    BY <1>1, <1>5, <2>2 DEF Types
  <2>4. Main \notin TaskThreads
    BY PthreadAssumption DEF TaskThreads
  <2> QED
    BY <1>1, <1>8, <2>1, <2>3, <2>4 DEF Resumed
<1>10. ASSUME NEW u \in TaskThreads PROVE ~Live(u)'
  <2>1. CASE u = t
    BY <1>6, <2>1 DEF Live, Top
  <2>2. CASE u # t
    BY <1>6, <1>8, <2>2, SameStatus, Zenon
  <2> QED
    BY <2>1, <2>2, Zenon
<1>11. OneToken' /\ TokenIsActive'
  BY <1>9, <1>10 DEF OneToken, TokenIsActive
<1>12. StartStop'
  <2>1. Top(Main) \notin {"start", "start_resume"}
    BY <1>3, <1>4 DEF Inv, StartStop, Waiting
  <2>2. Top(Main)' = Top(Main)
    BY <1>4, <1>6, SameStatus, PthreadAssumption, Zenon DEF TaskThreads, Threads
  <2> QED
    BY <1>9, <1>10, <2>1, <2>2, Zenon DEF StartStop
<1>13. Contexts'
  <2>1. ~(Top(t) \in {"block", "store_prev"} \/ TickInBlock(t))
    BY <1>3, <1>4, Zenon DEF TickInBlock, SyscallLabels
  <2> QED
    BY <1>2, <1>4, <1>6, <2>1, ContextsStay, Zenon
<1>14. mask[t] = Signals
  BY <1>3, <1>4 DEF Inv, MaskShape, Masked
<1>15. Masked(t)'
  BY <1>2, <1>3, <1>6, <1>14, Zenon DEF Masked, Top
<1>16. request' \in [Tasks -> Calls \cup {"ready"}]
       /\ \A u \in Tasks \ {t} : request'[u] = request[u]
  BY <1>2, <1>5, Zenon DEF Types, Calls
<1>17. MainRuns' /\ OnlyExisting' /\ MaskShape'
  BY <1>2, <1>4, <1>6, <1>15, <1>16, OthersStay, Zenon
<1>18. Types'
  BY <1>2, <1>4, <1>5, <1>6, <1>9, <1>16 DEF Types
<1> QED
  BY <1>6, <1>11, <1>12, <1>13, <1>17, <1>18, Zenon DEF Inv

-----------------------------------------------------------------------------
(* New threads, and rt_start.                                              *)

\* A thread with a single frame is in its function.
LEMMA SingleShape ==
  ASSUME NEW t, Len(frames'[t]) = 1,
         frames'[t][1].at \in IF t = Idle THEN IdleLabels ELSE TaskLabels
  PROVE  Shape(t)' /\ ~TickInBlock(t)'
<1>1. frames'[t][Len(frames'[t])].at \in IF t = Idle THEN IdleLabels ELSE TaskLabels
  OBVIOUS
<1>2. /\ 1..(Len(frames'[t]) - 1) = {} /\ 2..Len(frames'[t]) = {}
      /\ ~(Len(frames'[t]) > 1)
  OBVIOUS
<1> QED
  BY <1>1, <1>2, Zenon DEF Shape, TickInBlock

\* What it means to move thread t on and to create thread u.
LEMMA CreatedFrames ==
  ASSUME Types, NEW t \in Threads, NEW u \in Threads, t # u, Exists(t), Len(frames[t]) = 1,
         NEW l \in Labels, frames' = [Moved(t, l) EXCEPT ![u] = NewThread(u)]
  PROVE  /\ frames' \in [Threads -> Seq(FrameType)]
         /\ \A v \in Threads \ {t, u} : frames'[v] = frames[v]
         /\ frames'[t] # <<>> /\ Len(frames'[t]) = 1 /\ frames'[t][1].at = l
         /\ frames'[u] # <<>> /\ Len(frames'[u]) = 1 /\ frames'[u][1].at = "pthread_fn"
<1> DEFINE f == frames[t]
           g == [f EXCEPT ![1].at = l]
           n == NewThread(u)
<1>1. f \in Seq(FrameType) /\ f # <<>> /\ Len(f) \in Nat /\ Len(f) >= 1
  BY DEF Types, Exists
<1>2. f[1] \in FrameType
  BY <1>1, HeadIsFirst, Zenon
<1>3. [f[1] EXCEPT !.at = l] \in FrameType /\ [f[1] EXCEPT !.at = l].at = l
  BY <1>2 DEF FrameType
<1>4. g \in Seq(FrameType) /\ Len(g) = Len(f) /\ g[1].at = l /\ g # <<>>
  <2>1. /\ g \in Seq(FrameType) /\ Len(g) = Len(f)
        /\ g[1] = [f[1] EXCEPT !.at = l]
    BY <1>1, <1>3
  <2>2. g # <<>>
    BY <1>1, <2>1
  <2> QED
    BY <1>3, <2>1, <2>2
<1>5. /\ n \in Seq(FrameType) /\ Len(n) = 1 /\ n # <<>>
      /\ n[1].at = "pthread_fn"
  <2>1. Frame("pthread_fn", {}) \in FrameType /\ Frame("pthread_fn", {}).at = "pthread_fn"
    BY DEF Frame, FrameType, Labels, TaskLabels
  <2> QED
    BY <2>1 DEF NewThread
<1> HIDE DEF g, n
<1> DEFINE m == [frames EXCEPT ![t] = g]
<1>6. frames' = [m EXCEPT ![u] = n]
  BY DEF Moved, g, n
<1>7. /\ frames' \in [Threads -> Seq(FrameType)]
      /\ \A v \in Threads : frames'[v] = IF v = u THEN n ELSE IF v = t THEN g ELSE frames[v]
  <2>1. /\ m \in [Threads -> Seq(FrameType)]
        /\ \A v \in Threads : m[v] = IF v = t THEN g ELSE frames[v]
    BY <1>4 DEF Types
  <2> HIDE DEF m
  <2> QED
    BY <1>5, <1>6, <2>1, Zenon
<1> QED
  BY <1>4, <1>5, <1>7, Zenon

\* The thread of a task that is created waits, with all signals blocked.
LEMMA CreateKeeps ==
  ASSUME Inv, NEW t \in Tasks, NEW u \in Tasks, context_create(t, u) PROVE Inv'
<1>1. /\ At(t, "task") /\ frames[u] = <<>>
      /\ frames' = [Moved(t, "pend") EXCEPT ![u] = NewThread(u)]
      /\ mask' = [mask EXCEPT ![u] = Signals]
      /\ ctx' = [ctx EXCEPT ![u] = u]
      /\ request' = [request EXCEPT ![u] = "ready"]
      /\ pending_syscalls' = pending_syscalls \cup {u}
      /\ UNCHANGED <<pending, action, taken, runnable, active, rt_context_prev, newctx>>
  BY Zenon DEF context_create, Runs
<1>2. /\ "task" \in Labels \ MainLabels
      /\ "task" \notin WaitLabels \cup StoppedLabels \cup SwitchLabels \cup TickLabels
      /\ "task" \in TaskLabels
      /\ "pend" \in Labels \cap TaskLabels
      /\ "pend" \notin WaitLabels \cup StoppedLabels \cup SwitchLabels \cup TickLabels
      /\ "pend" \notin BlockedLabels \cup HandlerLabels
      /\ "pthread_fn" \in TaskLabels \cap WaitLabels \cap BlockedLabels
      /\ "pthread_fn" \notin HandlerLabels \cup TickLabels \cup StoppedLabels
  BY DEF Labels, TaskLabels, MainLabels, WaitLabels, StoppedLabels, SwitchLabels,
         TickLabels, HandlerLabels, BlockedLabels
<1>3. /\ t \in Threads /\ u \in Threads /\ u \in TaskThreads /\ t # Idle /\ u # Idle
      /\ Idle \in Threads /\ Idle \in TaskThreads /\ Main \in Threads \ {t, u}
  BY PthreadAssumption DEF Threads, TaskThreads
<1>4. /\ t \in TaskThreads /\ Exists(t) /\ Top(t) = "task" /\ Live(t)
      /\ Len(frames[t]) = 1
  BY <1>1, <1>2, <1>3, AtTop, Zenon
<1>5. t # u /\ ~Exists(u) /\ Types
  BY <1>1, <1>4, Zenon DEF Exists, Inv
<1>6. /\ frames' \in [Threads -> Seq(FrameType)]
      /\ \A v \in Threads \ {t, u} : frames'[v] = frames[v]
      /\ frames'[t] # <<>> /\ Len(frames'[t]) = 1 /\ frames'[t][1].at = "pend"
      /\ frames'[u] # <<>> /\ Len(frames'[u]) = 1 /\ frames'[u][1].at = "pthread_fn"
  BY <1>1, <1>2, <1>3, <1>4, <1>5, CreatedFrames, Zenon
<1>7. Shape(t)' /\ Shape(u)' /\ ~TickInBlock(t)'
  BY <1>2, <1>3, <1>6, SingleShape
<1>8. ASSUME NEW v \in TaskThreads, v # t, v # u
      PROVE  v \in Threads /\ frames'[v] = frames[v] /\ mask'[v] = mask[v]
  BY <1>1, <1>5, <1>6, <1>8, Zenon DEF TaskThreads, Threads, Types
<1>9. StackShape'
  <2> SUFFICES ASSUME NEW v \in TaskThreads, Exists(v)', v # t, v # u PROVE Shape(v)'
    BY <1>7 DEF StackShape
  <2>1. frames'[v] = frames[v] /\ Exists(v)
    BY <1>6, Zenon DEF Exists, TaskThreads, Threads
  <2>2. Shape(v)
    BY <2>1, Zenon DEF Inv, StackShape
  <2> QED
    BY <2>1, <2>2, Zenon DEF Shape, Top
<1>10. mask'[u] = Signals /\ mask'[t] = mask[t] /\ mask'[Main] = mask[Main]
  BY <1>1, <1>3, <1>5 DEF Types
<1>11. MaskShape'
  <2> SUFFICES ASSUME NEW v \in TaskThreads, Exists(v)' PROVE Masked(v)'
    BY DEF MaskShape
  <2>1. CASE v = t
    BY <1>2, <1>6, <2>1, Zenon DEF Masked, Top
  <2>2. CASE v = u
    BY <1>2, <1>6, <1>10, <2>2, Zenon DEF Masked, Top
  <2>3. CASE v # t /\ v # u
    <3>1. frames'[v] = frames[v] /\ mask'[v] = mask[v]
      BY <1>8, <2>3
    <3> QED
      BY <3>1, Zenon DEF Inv, MaskShape, Masked, Exists, Top
  <2> QED
    BY <2>1, <2>2, <2>3
<1>12. MainRuns' /\ Top(Main)' = Top(Main)
  BY <1>1, <1>3, <1>6, <1>10, Zenon DEF Inv, MainRuns, Top
<1>13. \A v \in Tasks : /\ request'[v] = IF v = u THEN "ready" ELSE request[v]
                        /\ ctx'[v] = IF v = u THEN u ELSE ctx[v]
  BY <1>1, <1>5 DEF Types, TaskThreads
<1>14. OnlyExisting'
  <2> SUFFICES ASSUME NEW v \in TaskThreads, ~Exists(v)'
               PROVE  /\ mask'[v] = Signals
                      /\ v \in Tasks =>
                           /\ v \notin pending_syscalls' \cup taken' \cup runnable'
                           /\ v # active' /\ request'[v] # "sleep"
                      /\ v = Idle => Top(Main)' = "start"
    BY Zenon DEF OnlyExisting
  <2>1. v # t /\ v # u
    BY <1>6 DEF Exists
  <2>2. ~Exists(v) /\ mask'[v] = mask[v]
    <3>1. frames'[v] = frames[v] /\ mask'[v] = mask[v]
      BY <1>8, <2>1
    <3> QED
      BY <3>1, Zenon DEF Exists
  <2> QED
    BY <1>1, <1>12, <1>13, <2>1, <2>2, Zenon DEF Inv, OnlyExisting
<1>15. Types'
  <2>1. /\ mask' \in [Threads -> SUBSET Signals]
        /\ ctx' \in [TaskThreads -> TaskThreads \cup {Null}]
        /\ request' \in [Tasks -> Calls \cup {"ready"}]
    BY <1>1, <1>3, <1>5 DEF Types
  <2> QED
    BY <1>1, <1>5, <1>6, <2>1, Zenon DEF Types
<1>16. active = t
  <2>1. ~Switching(t)
    BY <1>2, <1>4, Zenon DEF Switching, TickInBlock
  <2> QED
    BY <1>4, <2>1, Zenon DEF Inv, TokenIsActive
<1>17. ASSUME NEW v \in TaskThreads
       PROVE  ~Resumed(v) /\ ~Stopped(v) /\ (Live(v) => v = t)
  BY <1>2, <1>4 DEF Inv, OneToken, StartStop, TokenIsActive, Waiting
<1>18. ASSUME NEW v \in TaskThreads
       PROVE  ~Resumed(v)' /\ ~Stopped(v)' /\ (Live(v)' => v = t)
  <2>1. ~Resumed(v)'
    BY <1>1, <1>17, Zenon DEF Resumed
  <2>2. CASE v = t
    BY <1>2, <1>6, <2>1, <2>2, Zenon DEF Stopped, Top
  <2>3. CASE v = u
    BY <1>2, <1>6, <2>1, <2>3 DEF Stopped, Live, Top
  <2>4. CASE v # t /\ v # u
    <3>1. frames'[v] = frames[v]
      BY <1>8, <2>4, Zenon
    <3> QED
      BY <1>17, <2>1, <3>1, SameStatus, Zenon
  <2> QED
    BY <2>2, <2>3, <2>4, Zenon
<1>19. ~Switching(t)'
  BY <1>2, <1>6, <1>7 DEF Switching, Top
<1>20. OneToken' /\ TokenIsActive'
  BY <1>1, <1>16, <1>18, <1>19, Zenon DEF OneToken, TokenIsActive
<1>21. StartStop'
  <2>1. Top(Main) \notin {"start", "start_resume"}
    BY <1>2, <1>4 DEF Inv, StartStop, Waiting
  <2> QED
    BY <1>12, <1>18, <2>1, Zenon DEF StartStop
<1>22. Contexts'
  <2>1. ASSUME NEW v \in Tasks, Exists(v)' PROVE ctx'[v] = v
    <3>1. v # u => Exists(v)
      BY <1>4, <1>6, <2>1 DEF Exists, Threads
    <3> QED
      BY <1>13, <3>1, Zenon DEF Inv, Contexts
  <2>2. frames'[Idle] = frames[Idle] /\ ctx'[Idle] = ctx[Idle]
    BY <1>1, <1>3, <1>5, <1>6, Zenon DEF Types
  <2>3. \/ ctx'[Idle] = Idle \/ active' = Idle
        \/ Exists(Idle)' /\ (Top(Idle)' \in {"block", "store_prev"} \/ TickInBlock(Idle)')
    BY <1>1, <2>2, SameStatus, Zenon DEF Inv, Contexts
  <2> QED
    BY <2>1, <2>3, Zenon DEF Contexts
<1> QED
  BY <1>9, <1>11, <1>12, <1>14, <1>15, <1>20, <1>21, <1>22 DEF Inv

\* rt_start creates the idle thread, which waits; no thread executes yet.
LEMMA StartCreateKeeps ==
  ASSUME Inv, rt_start_create, UNCHANGED <<kernelVars, taskVars>> PROVE Inv'
<1>1. /\ At(Main, "start")
      /\ frames' = [Moved(Main, "start_resume") EXCEPT ![Idle] = NewThread(Idle)]
      /\ action' = "handle"
      /\ UNCHANGED <<mask, pending, pending_syscalls, taken, runnable, active,
                     rt_context_prev, newctx, ctx, request>>
  BY DEF rt_start_create, Runs, kernelVars, taskVars
<1>2. /\ "start_resume" \in Labels \cap MainLabels
      /\ "pthread_fn" \in IdleLabels \cap WaitLabels \cap BlockedLabels
      /\ "pthread_fn" \notin HandlerLabels \cup TickLabels \cup StoppedLabels
      /\ WaitLabels \subseteq BlockedLabels /\ WaitLabels \cap StoppedLabels = {}
  BY DEF Labels, IdleLabels, MainLabels, WaitLabels, StoppedLabels, TickLabels,
         HandlerLabels, BlockedLabels
<1>3. /\ Main \in Threads /\ Idle \in Threads /\ Idle \in TaskThreads /\ Main # Idle
      /\ Main \notin TaskThreads /\ TaskThreads \subseteq Threads
  BY PthreadAssumption, Zenon DEF Threads, TaskThreads
<1>4. Types /\ Exists(Main) /\ Len(frames[Main]) = 1
  BY <1>1, Zenon DEF Inv, MainRuns, At, Exists
<1>5. Top(Main) = "start"
  <2>1. frames[Main] \in Seq(FrameType)
    BY <1>3, <1>4 DEF Types
  <2> QED
    BY <1>1, <2>1, HeadIsFirst, Zenon DEF At, Top
<1>6. /\ frames' \in [Threads -> Seq(FrameType)]
      /\ \A v \in Threads \ {Main, Idle} : frames'[v] = frames[v]
      /\ frames'[Main] # <<>> /\ Len(frames'[Main]) = 1
      /\ frames'[Main][1].at = "start_resume"
      /\ frames'[Idle] # <<>> /\ Len(frames'[Idle]) = 1
      /\ frames'[Idle][1].at = "pthread_fn"
  <2>1. /\ Types /\ Main \in Threads /\ Idle \in Threads /\ Main # Idle /\ Exists(Main)
        /\ Len(frames[Main]) = 1 /\ "start_resume" \in Labels
        /\ frames' = [Moved(Main, "start_resume") EXCEPT ![Idle] = NewThread(Idle)]
    BY <1>1, <1>2, <1>3, <1>4, Zenon
  <2> QED
    BY <2>1, CreatedFrames, ZenonT(40)
<1>7. /\ active = Idle /\ mask[Main] = Signals
      /\ \A v \in TaskThreads : ~Resumed(v) /\ (Exists(v) => Waiting(v))
  BY <1>5, Zenon DEF Inv, StartStop, MainRuns
<1>8. \A v \in TaskThreads : mask[v] = Signals
  BY <1>2, <1>7 DEF Inv, OnlyExisting, MaskShape, Masked, Waiting
<1>9. ASSUME NEW v \in TaskThreads
      PROVE  /\ ~Resumed(v)' /\ (Exists(v)' => Waiting(v)')
             /\ Exists(v)' => Shape(v)'
             /\ v # Idle => frames'[v] = frames[v]
  <2>1. ~Resumed(v)'
    BY <1>1, <1>7, Zenon DEF Resumed
  <2>2. CASE v = Idle
    <3>1. Shape(v)' /\ Waiting(v)'
      BY <1>2, <1>6, <2>2, SingleShape DEF Waiting, Exists, Top
    <3> QED
      BY <2>1, <2>2, <3>1, Zenon
  <2>3. CASE v # Idle
    <3>1. frames'[v] = frames[v]
      BY <1>3, <1>6, <2>3
    <3>2. Exists(v) => Shape(v)
      BY DEF Inv, StackShape
    <3>3. Exists(v)' => Shape(v)'
      BY <3>1, <3>2, Zenon DEF Exists, Shape, Top
    <3> QED
      BY <1>7, <2>1, <3>1, <3>3, SameStatus, Zenon
  <2> QED
    BY <2>2, <2>3, Zenon
<1>10. ASSUME NEW v \in TaskThreads PROVE ~Live(v)' /\ ~Stopped(v)'
  BY <1>2, <1>9 DEF Live, Stopped, Waiting
<1>11. StackShape'
  BY <1>9, Zenon DEF StackShape
<1>12. Types'
  BY <1>1, <1>4, <1>6, Zenon DEF Types
<1>13. MainRuns'
  BY <1>1, <1>2, <1>6, <1>7, Zenon DEF MainRuns, Top
<1>14. OnlyExisting'
  <2>1. ASSUME NEW v \in TaskThreads, ~Exists(v)' PROVE v # Idle /\ ~Exists(v)
    BY <1>6, <1>9, <2>1, Zenon DEF Exists
  <2> QED
    BY <1>1, <1>8, <2>1, Zenon DEF Inv, OnlyExisting
<1>15. MaskShape'
  BY <1>1, <1>8, Zenon DEF MaskShape, Masked, Signals
<1>16. OneToken' /\ TokenIsActive' /\ StartStop'
  BY <1>1, <1>7, <1>9, <1>10 DEF OneToken, TokenIsActive, StartStop
<1>17. Contexts'
  <2>1. ASSUME NEW v \in Tasks, Exists(v)' PROVE ctx[v] = v
    <3>1. v \in TaskThreads /\ v # Idle
      BY PthreadAssumption DEF TaskThreads
    <3>2. Exists(v)
      BY <1>9, <2>1, <3>1, Zenon DEF Exists
    <3> QED
      BY <3>2 DEF Inv, Contexts
  <2> QED
    BY <1>1, <1>7, <2>1, Zenon DEF Contexts
<1> QED
  BY <1>11, <1>12, <1>13, <1>14, <1>15, <1>16, <1>17, Zenon DEF Inv

\* The other steps of rt_start do nothing to the threads of tasks, but that the idle
\* thread is resumed by the first.
LEMMA MainStepKeeps ==
  ASSUME Inv, NEW k \in MainLabels \ {"start"},
         NEW l \in MainLabels \ {"start", "start_resume"},
         At(Main, k), frames' = Moved(Main, l),
         mask' \in [Threads -> SUBSET Signals], pending' \in [Threads -> SUBSET Signals],
         \A u \in TaskThreads : mask'[u] = mask[u],
         action' = "handle" => mask'[Main] = Signals,
         l \in {"main_unblock", "default", "returned"} => action' # "handle",
         \A u \in TaskThreads : "SIGRESUME" \in pending'[u] =>
           "SIGRESUME" \in pending[u] \/ (k = "start_resume" /\ u = Idle),
         UNCHANGED <<kernelVars, taskVars>>
  PROVE  Inv'
<1>1. UNCHANGED <<pending_syscalls, taken, runnable, active, rt_context_prev, newctx, ctx,
                  request>>
  BY Zenon DEF kernelVars, taskVars
<1>2. Main \in Threads /\ Main \notin TaskThreads /\ TaskThreads \subseteq Threads
      /\ Idle \in TaskThreads
  BY PthreadAssumption, Zenon DEF Threads, TaskThreads
<1>3. Types /\ Exists(Main) /\ Len(frames[Main]) = 1 /\ l \in Labels
  BY Zenon DEF Inv, MainRuns, At, Exists, Labels
<1>4. Top(Main) = k
  <2>1. frames[Main] \in Seq(FrameType)
    BY <1>2, <1>3 DEF Types
  <2> QED
    BY <2>1, HeadIsFirst, Zenon DEF At, Top
<1>5. /\ frames' \in [Threads -> Seq(FrameType)]
      /\ \A u \in Threads \ {Main} : frames'[u] = frames[u]
      /\ Len(frames'[Main]) = 1 /\ frames'[Main][1].at = l
  BY <1>2, <1>3, MovedFrames, Zenon
<1>6. ASSUME NEW u \in TaskThreads
      PROVE  /\ frames'[u] = frames[u]
             /\ Exists(u)' <=> Exists(u)
             /\ Waiting(u)' <=> Waiting(u)
             /\ Stopped(u)' <=> Stopped(u)
             /\ Live(u)' <=> Live(u)
             /\ Switching(u)' <=> Switching(u)
             /\ TickInBlock(u)' <=> TickInBlock(u)
             /\ Top(u)' = Top(u)
             /\ Resumed(u)' => Resumed(u) \/ (k = "start_resume" /\ u = Idle)
  <2>1. frames'[u] = frames[u]
    BY <1>2, <1>5, Zenon
  <2>2. Resumed(u)' => Resumed(u) \/ (k = "start_resume" /\ u = Idle)
    BY Zenon DEF Resumed
  <2> QED
    BY <2>1, <2>2, SameStatus, Zenon
<1>7. Types'
  BY <1>1, <1>3, <1>5, Zenon DEF Types
<1>8. MainRuns'
  BY <1>5, Zenon DEF MainRuns, Top
<1>9. Exists(Idle)
  BY <1>2, <1>4 DEF Inv, OnlyExisting
<1>10. OnlyExisting'
  <2>1. ASSUME NEW u \in TaskThreads, ~Exists(u)' PROVE ~Exists(u) /\ u # Idle
    BY <1>6, <1>9, <2>1, Zenon
  <2> QED
    BY <1>1, <2>1, Zenon DEF Inv, OnlyExisting
<1>11. StackShape'
  <2> SUFFICES ASSUME NEW u \in TaskThreads, Exists(u)' PROVE Shape(u)'
    BY DEF StackShape
  <2>1. Shape(u) /\ frames'[u] = frames[u]
    BY <1>6, Zenon DEF Inv, StackShape
  <2> QED
    BY <2>1, Zenon DEF Shape, Top
<1>12. MaskShape'
  <2> SUFFICES ASSUME NEW u \in TaskThreads, Exists(u)' PROVE Masked(u)'
    BY DEF MaskShape
  <2>1. Masked(u) /\ frames'[u] = frames[u] /\ mask'[u] = mask[u]
    BY <1>6, Zenon DEF Inv, MaskShape
  <2> QED
    BY <2>1, Zenon DEF Masked, Top
<1>13. k = "start_resume" => /\ active = Idle
                             /\ \A u \in TaskThreads : ~Resumed(u) /\ ~Live(u) /\ ~Stopped(u)
                             /\ Waiting(Idle)
  <2>1. WaitLabels \cap StoppedLabels = {}
    BY Zenon DEF WaitLabels, StoppedLabels
  <2> QED
    BY <1>2, <1>4, <1>9, <2>1, Zenon DEF Inv, StartStop, Waiting, Live, Stopped
<1>14. OneToken'
  BY <1>6, <1>13, Zenon DEF Inv, OneToken
<1>15. StartStop'
  <2>1. Top(Main)' = l
    BY <1>5, Zenon DEF Top
  <2> QED
    BY <1>6, <1>13, <2>1, Zenon DEF Inv, StartStop
<1>16. TokenIsActive'
  <2>1. active \in TaskThreads
    BY <1>3 DEF Types
  <2> QED
    BY <1>1, <1>2, <1>6, <1>13, <2>1, Zenon DEF Inv, TokenIsActive
<1>17. Contexts'
  <2>1. \A u \in Tasks : Exists(u)' => ctx'[u] = u
    BY <1>1, <1>6, Zenon DEF Inv, Contexts, TaskThreads
  <2> QED
    BY <1>1, <1>2, <1>6, <2>1, Zenon DEF Inv, Contexts
<1> QED
  BY <1>7, <1>8, <1>10, <1>11, <1>12, <1>14, <1>15, <1>16, <1>17, Zenon DEF Inv

\* Every step of rt_start keeps the invariant.
LEMMA StartKeeps == ASSUME Inv, rt_start PROVE Inv'
<1>1. UNCHANGED <<kernelVars, taskVars>>
  BY Zenon DEF rt_start
<1>2. /\ mask \in [Threads -> SUBSET Signals] /\ pending \in [Threads -> SUBSET Signals]
      /\ frames[Main] \in Seq(FrameType) /\ Main \in Threads /\ Idle \in Threads
      /\ Main \notin TaskThreads /\ TaskThreads \subseteq Threads
  BY PthreadAssumption DEF Inv, Types, Threads, TaskThreads
<1>3. action = "handle" => mask[Main] = Signals
  BY DEF Inv, MainRuns
<1>4. CASE rt_start_create
  BY <1>1, <1>4, StartCreateKeeps, Zenon
<1>5. CASE rt_start_kill
  <2>1. UNCHANGED <<mask, action>>
    BY <1>5, Zenon DEF rt_start_kill
  <2>2. CASE /\ Runs(Main, "start_resume")
             /\ pthread_kill(Idle, {"SIGRESUME"}) /\ Goto(Main, "start_syscall")
    <3>1. /\ At(Main, "start_resume") /\ frames' = Moved(Main, "start_syscall")
          /\ pending' = [pending EXCEPT ![Idle] = @ \cup {"SIGRESUME"}]
      BY <2>2, Zenon DEF Runs, pthread_kill, Goto
    <3>2. pending' \in [Threads -> SUBSET Signals]
          /\ \A u \in TaskThreads : u # Idle => pending'[u] = pending[u]
      BY <1>2, <3>1 DEF Signals
    <3>3. "start_resume" \in MainLabels \ {"start"}
          /\ "start_syscall" \in MainLabels \ {"start", "start_resume"}
      BY DEF MainLabels
    <3> QED
      BY <1>1, <1>2, <1>3, <2>1, <3>1, <3>2, <3>3, MainStepKeeps, Zenon
  <2>3. CASE /\ Runs(Main, "start_syscall")
             /\ pthread_kill(Idle, {"SIGSYSCALL"}) /\ Goto(Main, "main_wait")
    <3>1. /\ At(Main, "start_syscall") /\ frames' = Moved(Main, "main_wait")
          /\ pending' = [pending EXCEPT ![Idle] = @ \cup {"SIGSYSCALL"}]
      BY <2>3 DEF Runs, pthread_kill, Goto
    <3>2. pending' \in [Threads -> SUBSET Signals]
          /\ \A u \in TaskThreads : "SIGRESUME" \in pending'[u] => "SIGRESUME" \in pending[u]
      BY <1>2, <3>1 DEF Signals
    <3>3. "start_syscall" \in MainLabels \ {"start"}
          /\ "main_wait" \in MainLabels \ {"start", "start_resume"}
      BY Zenon DEF MainLabels
    <3> QED
      BY <1>1, <1>2, <1>3, <2>1, <3>1, <3>2, <3>3, MainStepKeeps, Zenon
  <2> QED
    BY <1>5, <2>2, <2>3 DEF rt_start_kill
<1>6. CASE rt_start_stop
  <2>1. /\ At(Main, "main_wait") /\ frames' = Moved(Main, "ignore")
        /\ pending' = [pending EXCEPT ![Main] = {}] /\ UNCHANGED <<mask, action>>
    BY <1>6, Zenon DEF rt_start_stop, Goto
  <2>2. pending' \in [Threads -> SUBSET Signals]
        /\ \A u \in TaskThreads : pending'[u] = pending[u]
    BY <1>2, <2>1
  <2>3. "main_wait" \in MainLabels \ {"start"}
        /\ "ignore" \in MainLabels \ {"start", "start_resume"}
    BY Zenon DEF MainLabels
  <2> QED
    BY <1>1, <1>2, <1>3, <2>1, <2>2, <2>3, MainStepKeeps, Zenon
<1>7. CASE rt_start_ignore
  <2>1. /\ At(Main, "ignore") /\ frames' = Moved(Main, "main_unblock")
        /\ pending' = [t \in Threads |-> {}] /\ UNCHANGED mask /\ action' = "ignore"
    BY <1>7, Zenon DEF rt_start_ignore, DropPending, Runs, Goto
  <2>2. pending' \in [Threads -> SUBSET Signals]
        /\ \A u \in TaskThreads : pending'[u] = {}
    BY <1>2, <2>1
  <2>3. "ignore" \in MainLabels \ {"start"}
        /\ "main_unblock" \in MainLabels \ {"start", "start_resume"}
    BY DEF MainLabels
  <2> QED
    BY <1>1, <1>2, <2>1, <2>2, <2>3, MainStepKeeps
<1>8. CASE rt_start_return
  <2>1. UNCHANGED pending
    BY <1>8 DEF rt_start_return
  <2>2. {"main_unblock", "default", "returned"}
          \subseteq MainLabels \ {"start", "start_resume"}
    BY DEF MainLabels
  <2>3. CASE /\ Runs(Main, "main_unblock")
             /\ Unblock(Main) /\ Goto(Main, "default") /\ UNCHANGED action
    <3>1. /\ At(Main, "main_unblock") /\ frames' = Moved(Main, "default")
          /\ mask' = [mask EXCEPT ![Main] = {}] /\ UNCHANGED action
      BY <2>3, Zenon DEF Runs, Unblock, Goto
    <3>2. mask' \in [Threads -> SUBSET Signals]
          /\ \A u \in TaskThreads : mask'[u] = mask[u]
      BY <1>2, <3>1, Zenon
    <3>3. Top(Main) = "main_unblock"
      BY <1>2, <3>1, HeadIsFirst, Zenon DEF At, Top
    <3>4. action # "handle"
      BY <3>3, Zenon DEF Inv, MainRuns
    <3> QED
      BY <1>1, <1>2, <2>1, <2>2, <3>1, <3>2, <3>4, MainStepKeeps, Zenon
  <2>4. CASE /\ Runs(Main, "default")
             /\ action' = "default" /\ Goto(Main, "returned") /\ UNCHANGED mask
    <3>1. /\ At(Main, "default") /\ frames' = Moved(Main, "returned")
          /\ UNCHANGED mask /\ action' = "default"
      BY <2>4 DEF Runs, Goto
    <3> QED
      BY <1>1, <1>2, <2>1, <2>2, <3>1, MainStepKeeps, Zenon
  <2> QED
    BY <1>8, <2>3, <2>4 DEF rt_start_return
<1> QED
  BY <1>4, <1>5, <1>6, <1>7, <1>8 DEF rt_start

-----------------------------------------------------------------------------
(* The invariant and what follows from it.                                 *)

\* It holds when rt_start begins,
LEMMA InitInv == Init => Inv
<1> SUFFICES ASSUME Init PROVE Inv
  OBVIOUS
<1>1. /\ Main \in Threads /\ Idle \in TaskThreads /\ TaskThreads \subseteq Threads
      /\ Main \notin TaskThreads /\ Created \subseteq Tasks /\ Idle \notin Tasks
  BY PthreadAssumption, Zenon DEF Threads, TaskThreads
<1>2. /\ "start" \in Labels \cap MainLabels
      /\ "start" \notin {"main_unblock", "default", "returned"}
      /\ "pthread_fn" \in Labels \cap TaskLabels \cap WaitLabels
      /\ "pthread_fn" \notin StoppedLabels
  BY Zenon DEF Labels, MainLabels, TaskLabels, WaitLabels, StoppedLabels
<1> DEFINE s == Frame("start", {})
           p == Frame("pthread_fn", {})
<1>3. s \in FrameType /\ s.at = "start" /\ p \in FrameType /\ p.at = "pthread_fn"
  BY <1>2, Zenon DEF Frame, FrameType
<1> HIDE DEF s, p
<1>4. /\ frames = [t \in Threads |-> IF t = Main THEN <<s>>
                                     ELSE IF t \in Created THEN <<p>> ELSE <<>>]
  BY DEF Init, NewThread, s, p
<1>5. /\ <<s>> \in Seq(FrameType) /\ Len(<<s>>) = 1 /\ <<s>>[1] = s /\ <<s>> # <<>>
      /\ <<p>> \in Seq(FrameType) /\ Len(<<p>>) = 1 /\ <<p>>[1] = p /\ <<p>> # <<>>
      /\ <<>> \in Seq(FrameType)
  BY <1>3
<1>6. /\ frames \in [Threads -> Seq(FrameType)]
      /\ frames[Main] = <<s>>
      /\ \A t \in TaskThreads : frames[t] = IF t \in Created THEN <<p>> ELSE <<>>
  BY <1>1, <1>4, <1>5, Zenon
<1>7. Types
  <2>1. /\ mask \in [Threads -> SUBSET Signals] /\ pending \in [Threads -> SUBSET Signals]
        /\ ctx \in [TaskThreads -> TaskThreads \cup {Null}]
        /\ request \in [Tasks -> Calls \cup {"ready"}]
    BY <1>1, Zenon DEF Init, InitialMask, TaskThreads
  <2> QED
    BY <1>1, <1>6, <2>1, Zenon DEF Init, Types
<1>8. Top(Main) = "start" /\ MainRuns
  BY <1>1, <1>2, <1>3, <1>5, <1>6, Zenon DEF Init, InitialMask, MainRuns, Top
<1>9. ASSUME NEW t \in TaskThreads
      PROVE  /\ Exists(t) <=> t \in Created
             /\ Exists(t) => Len(frames[t]) = 1 /\ Top(t) = "pthread_fn"
             /\ Exists(t) => Waiting(t)
             /\ ~Live(t) /\ ~Resumed(t) /\ ~Stopped(t)
             /\ mask[t] = Signals
  <2>1. Exists(t) <=> t \in Created
    BY <1>5, <1>6, Zenon DEF Exists
  <2>2. Exists(t) => Len(frames[t]) = 1 /\ Top(t) = "pthread_fn"
    BY <1>3, <1>5, <1>6, <2>1, Zenon DEF Top
  <2>3. mask[t] = Signals /\ ~Resumed(t)
    BY <1>1 DEF Init, InitialMask, Resumed
  <2> QED
    BY <1>2, <2>1, <2>2, <2>3 DEF Waiting, Live, Stopped
<1>10. OnlyExisting
  BY <1>1, <1>8, <1>9, Zenon DEF OnlyExisting, Init
<1>11. StackShape
  <2> SUFFICES ASSUME NEW t \in TaskThreads, Exists(t) PROVE Shape(t)
    BY DEF StackShape
  <2>1. Len(frames[t]) = 1 /\ frames[t][1].at \in TaskLabels /\ t # Idle
    BY <1>1, <1>2, <1>9, Zenon DEF Top
  <2>2. frames[t][Len(frames[t])].at \in IF t = Idle THEN IdleLabels ELSE TaskLabels
    BY <2>1, Zenon
  <2>3. 1..(Len(frames[t]) - 1) = {} /\ 2..Len(frames[t]) = {}
    BY <2>1
  <2> QED
    BY <2>2, <2>3, Zenon DEF Shape
<1>12. MaskShape
  BY <1>9 DEF MaskShape, Masked, Signals
<1>13. OneToken /\ StartStop /\ TokenIsActive
  BY <1>9, Zenon DEF OneToken, StartStop, TokenIsActive, Init
<1>14. Contexts
  <2>1. ASSUME NEW t \in Tasks, Exists(t) PROVE ctx[t] = t
    <3>1. t \in TaskThreads /\ t \in Created
      BY <1>9, <2>1 DEF TaskThreads
    <3> QED
      BY <3>1 DEF Init
  <2> QED
    BY <2>1, Zenon DEF Contexts, Init
<1> QED
  BY <1>7, <1>8, <1>10, <1>11, <1>12, <1>13, <1>14 DEF Inv

\* every step keeps it,
LEMMA NextInv == Inv /\ [Next]_vars => Inv'
<1> SUFFICES ASSUME Inv, [Next]_vars PROVE Inv'
  BY Zenon
<1>1. ASSUME NEW t \in Threads, ThreadStep(t) PROVE Inv'
  BY <1>1, DeliverKeeps, ReturnKeeps, ResumeKeeps, TaskKeeps, HandlersKeep, RunKeeps,
     PrevKeeps, KillKeeps, StoppedKeeps, Zenon DEF ThreadStep
<1>2. ASSUME NEW t \in Tasks, TaskCall(t) PROVE Inv'
  <2>1. t \in Threads
    BY DEF Threads
  <2> QED
    BY <1>2, <2>1, TaskKeeps, CreateKeeps DEF TaskCall
<1>3. ASSUME \/ TimerExpires
             \/ UNCHANGED vars
      PROVE  Inv'
  <2>1. UNCHANGED <<mask, pending, action, frames, pending_syscalls, taken, runnable,
                    active, rt_context_prev, newctx, ctx, request>>
    BY <1>3, Zenon DEF TimerExpires, vars, signalVars, kernelVars, taskVars
  <2>2. Types' /\ MainRuns'
    BY <2>1, Zenon DEF Inv, Types, MainRuns, Top
  <2>3. OnlyExisting' /\ StackShape' /\ MaskShape'
    BY <2>1, Zenon DEF Inv, OnlyExisting, StackShape, Shape, MaskShape, Masked, Exists, Top
  <2>4. OneToken' /\ StartStop'
    BY <2>1, Zenon
    DEF Inv, OneToken, StartStop, Waiting, Stopped, Live, Resumed, Exists, Top
  <2>5. TokenIsActive' /\ Contexts'
    BY <2>1, Zenon DEF Inv, TokenIsActive, Contexts, Waiting, Live, Resumed, Switching,
                       TickInBlock, Exists, Top
  <2> QED
    BY <2>2, <2>3, <2>4, <2>5, Zenon DEF Inv
<1> QED
  BY <1>1, <1>2, <1>3, IdleKeeps, StartKeeps DEF Next

\* and so it always holds.
LEMMA SpecInv == Spec => []Inv
BY InitInv, NextInv, PTL DEF Spec

\* However many tasks, calls and ticks there are, only one thread executes at a time,
\* and the task that is executed is the one the scheduler has chosen (pthread.c:179).
THEOREM ThreadsTakeTurns == Spec => []OneThreadExecutes
<1>1. Inv => OneThreadExecutes
  <2> SUFFICES ASSUME Inv PROVE OneThreadExecutes
    OBVIOUS
  <2>1. ASSUME NEW t \in Threads, Executing(t)
        PROVE  t \in TaskThreads /\ Live(t) /\ Head(frames[t]).at = Top(t)
    <3>1. frames[t] \in Seq(FrameType)
      BY DEF Inv, Types
    <3> QED
      BY <2>1, <3>1
      DEF Executing, Live, Exists, Top, TaskThreads, Threads, StoppedLabels
  <2>2. ASSUME NEW t \in Threads, InTask(t) PROVE t = active
    <3>1. t \in TaskThreads /\ Live(t) /\ Exists(t) /\ Len(frames[t]) = 1
      BY <2>1, <2>2, Zenon DEF InTask, Live
    <3>2. Shape(t)
      BY <3>1 DEF Inv, StackShape
    <3>3. Top(t) \in TaskLabels \cup IdleLabels
      BY <3>1, <3>2, Zenon DEF Shape, Top
    <3>4. ~Switching(t)
      <4>1. Top(t) \notin SwitchLabels
        BY <3>3 DEF SwitchLabels, TaskLabels, IdleLabels
      <4>2. ~(1 > 1)
        OBVIOUS
      <4> QED
        BY <3>1, <4>1, <4>2, Zenon DEF Switching, TickInBlock
    <3> QED
      BY <3>1, <3>4 DEF Inv, TokenIsActive
  <2> QED
    BY <2>1, <2>2 DEF OneThreadExecutes, Inv, OneToken
<1> QED
  BY <1>1, SpecInv, PTL

\* No thread ever gets SIGRESUME where it does not wait for it, so that the handler
\* which ends the process (pthread.c:157) is never called.
THEOREM OnlyWaitingResumed == Spec => []NoSpuriousResume
<1>1. Inv => NoSpuriousResume
  <2> SUFFICES ASSUME Inv, NEW t \in Threads, At(t, "resume_handler") PROVE FALSE
    BY Zenon DEF NoSpuriousResume
  <2>1. frames[t] \in Seq(FrameType) /\ frames[t] # <<>>
    BY DEF Inv, Types, At
  <2>2. Head(frames[t]) \in FrameType
    BY <2>1
  <2> QED
    BY <2>2, Zenon
    DEF At, FrameType, Labels, TaskLabels, IdleLabels, TickLabels, SyscallLabels,
                MainLabels
<1> QED
  BY <1>1, SpecInv, PTL

\* System calls never run inside the tick handler, and no thread is suspended in it
\* (syscall.h:75).
THEOREM InterruptsFirst == Spec => []SyscallAfterInterrupts
<1>1. Inv => SyscallAfterInterrupts
  <2> SUFFICES ASSUME Inv, NEW t \in Threads, NEW i \in 2..Len(frames[t])
               PROVE  frames[t][i].at \notin TickLabels
    BY Zenon DEF SyscallAfterInterrupts, TickLabels
  <2>1. frames[t] \in Seq(FrameType)
    BY Zenon DEF Inv, Types
  <2>2. Exists(t)
    BY <2>1 DEF Exists
  <2>3. t # Main
    <3>1. Len(frames[Main]) = 1
      BY DEF Inv, MainRuns
    <3>2. 2..1 = {}
      OBVIOUS
    <3> QED
      BY <3>1, <3>2, Zenon
  <2>4. t \in TaskThreads
    BY <2>3 DEF TaskThreads, Threads
  <2> QED
    BY <2>2, <2>4, Zenon DEF Inv, StackShape, Shape
<1> QED
  BY <1>1, SpecInv, PTL

-----------------------------------------------------------------------------
(* rt_stop and what comes after it.                                        *)

\* Once the main thread has been told to stop, a task has called rt_stop; before rt_start
\* has begun and after it has discarded the signals, none is on its way to the main
\* thread and the timer does not run.
StopInv ==
  /\ \/ Top(Main) \in {"ignore", "main_unblock", "default", "returned"}
     \/ "SIGRESUME" \in pending[Main]
     => \E t \in Tasks : Stopped(t)
  /\ Top(Main) \in {"start", "main_unblock", "default", "returned"} =>
       ~timer_tick /\ pending[Main] = {}
  /\ Top(Main) \in {"start", "ignore", "main_unblock", "default", "returned"} => ~timer
  /\ action = "default" => Top(Main) \in {"start", "returned"}

\* A step of thread t: only a thread that executes, one that is resumed and the one that
\* has called rt_stop take any.
Acts(t) ==
  /\ t \in TaskThreads
  /\ \A u \in Threads \ {t} : Exists(u) => frames'[u] = frames[u]
  /\ \/ Live(t) \/ (Resumed(t) /\ Waiting(t))
     \/ Stopped(t) /\ t \in Tasks /\ Stopped(t)'
  /\ UNCHANGED <<timer, action>> /\ (timer_tick' => timer_tick)
  /\ pending'[Main] = pending[Main] \/ (Live(t) /\ t \in Tasks /\ Stopped(t)')

\* A thread that moves on.
LEMMA MovesOn ==
  ASSUME Inv, NEW t \in Threads, NEW k \in Labels \ MainLabels, At(t, k), NEW l \in Labels,
         frames' = Moved(t, l)
  PROVE  /\ t \in TaskThreads /\ Exists(t) /\ Top(t) = k
         /\ k \notin WaitLabels \cup StoppedLabels => Live(t)
         /\ \A u \in Threads \ {t} : frames'[u] = frames[u]
         /\ Exists(t)' /\ Top(t)' = l
<1>1. /\ t \in TaskThreads /\ Exists(t) /\ Top(t) = k
      /\ k \notin WaitLabels \cup StoppedLabels => Live(t)
  BY AtTop, Zenon
<1>2. /\ \A u \in Threads \ {t} : frames'[u] = frames[u]
      /\ frames'[t] # <<>> /\ frames'[t][1].at = l
  BY <1>1, MovedFrames, Zenon DEF Inv
<1> QED BY <1>1, <1>2, Zenon DEF Exists, Top

\* Signals sent to other threads do not reach the main thread.
LEMMA MainNotSignalled ==
  ASSUME Inv, NEW t, t # Main, NEW sigs, pending' = [pending EXCEPT ![t] = sigs]
  PROVE  pending'[Main] = pending[Main]
<1>1. Main \in Threads /\ pending \in [Threads -> SUBSET Signals]
  BY Zenon DEF Threads, Inv, Types
<1> QED BY <1>1

\* The threads of tasks are not the main thread.
LEMMA NotMain == ASSUME NEW t \in TaskThreads PROVE t # Main
BY PthreadAssumption, Zenon DEF TaskThreads

\* The labels of tasks and handlers are not those of rt_start.
LEMMA NotMainLabels ==
  /\ TaskLabels \cup IdleLabels \cup TickLabels \cup SyscallLabels = Labels \ MainLabels
  /\ TaskLabels \cup IdleLabels \cup TickLabels \cup SyscallLabels \subseteq Labels
<1>1. \A l \in TaskLabels \cup IdleLabels \cup TickLabels \cup SyscallLabels : l \notin MainLabels
  BY DEF TaskLabels, IdleLabels, TickLabels, SyscallLabels, MainLabels
<1> QED BY <1>1, Zenon DEF Labels

\* What threads do is a step in this sense.
LEMMA QuietActs ==
  ASSUME Inv, NEW t \in Threads, UNCHANGED <<timer, timer_tick, action>>,
         \/ handler_return(t) \/ resumed(t) \/ rt_syscall(t) \/ tick_handler(t)
         \/ syscall_handler(t) \/ rt_syscall_run(t) \/ rt_syscall_handler_block(t)
         \/ rt_syscall_handler_prev(t) \/ (t \in Tasks /\ NewCall(t)) \/ rt_stop(t)
  PROVE  Acts(t)
<1> DEFINE Ks == {"return", "tick_return", "unblock", "start_fn", "push", "tick_handler",
                  "syscall_handler", "run", "block", "store_prev", "task"}
           Ls == {"return", "idle_fn", "task", "pend", "push", "tick_return", "tick_pend",
                  "run", "block", "store_prev", "kill", "stop"}
<1>1. UNCHANGED pending
  BY Zenon DEF handler_return, resumed, rt_syscall, tick_handler, syscall_handler, rt_syscall_run,
         rt_syscall_handler_block, rt_syscall_handler_prev, NewCall, rt_stop, signalVars
<1>2. PICK k \in Ks : At(t, k)
  BY Zenon DEF handler_return, resumed, rt_syscall, tick_handler, syscall_handler, rt_syscall_run,
         rt_syscall_handler_block, rt_syscall_handler_prev, NewCall, rt_stop, Runs
<1>3. \/ \E l \in Ls : frames' = Moved(t, l)
      \/ frames' = [frames EXCEPT ![t] = Tail(@)]
  BY Zenon DEF handler_return, resumed, rt_syscall, tick_handler, syscall_handler, rt_syscall_run,
         rt_syscall_handler_block, rt_syscall_handler_prev, NewCall, rt_stop, Goto, Calls
<1>4. Ks \subseteq Labels \ MainLabels /\ Ls \subseteq Labels
  <2>1. /\ Ks \subseteq TaskLabels \cup IdleLabels \cup TickLabels \cup SyscallLabels
        /\ Ls \subseteq TaskLabels \cup IdleLabels \cup TickLabels \cup SyscallLabels
    BY DEF TaskLabels, IdleLabels, TickLabels, SyscallLabels
  <2> QED BY <2>1, NotMainLabels, Zenon
<1>5. k \notin WaitLabels \cup StoppedLabels
  BY DEF WaitLabels, StoppedLabels
<1> HIDE DEF Ks, Ls
<1>6. t \in TaskThreads /\ Live(t)
  BY <1>2, <1>4, <1>5, AtTop, Zenon
<1>7. \A u \in Threads \ {t} : frames'[u] = frames[u]
  <2>1. CASE \E l \in Ls : frames' = Moved(t, l)
    BY <2>1, <1>2, <1>4, MovesOn, Zenon
  <2>2. CASE frames' = [frames EXCEPT ![t] = Tail(@)]
    BY <2>2, Zenon DEF Inv, Types
  <2> QED BY <1>3, <2>1, <2>2, Zenon
<1> QED BY <1>1, <1>6, <1>7, Zenon DEF Acts

\* So is a step in which a thread takes or sends a signal,
LEMMA SignalActs ==
  ASSUME Inv, NEW t \in Threads,
         \/ \E sig \in Signals : Deliver(t, sig)
         \/ sigwait_resume(t) \/ PendSyscall(t) \/ rt_stop_kill(t) \/ rt_task_exit(t)
         \/ rt_syscall_handler_kill(t)
  PROVE  Acts(t)
<1>0. /\ {"pend", "tick_pend", "stop", "stopped", "kill", "pthread_fn", "suspended"}
           \subseteq Labels \ MainLabels
      /\ {"task", "tick_return", "stopped", "ended", "suspended", "unblock", "start_fn"}
           \subseteq Labels
  <2>1. /\ {"pend", "tick_pend", "stop", "stopped", "kill", "pthread_fn", "suspended"}
             \subseteq TaskLabels \cup IdleLabels \cup TickLabels \cup SyscallLabels
        /\ {"task", "tick_return", "stopped", "ended", "suspended", "unblock", "start_fn"}
             \subseteq TaskLabels \cup IdleLabels \cup TickLabels \cup SyscallLabels
    BY DEF TaskLabels, IdleLabels, TickLabels, SyscallLabels
  <2> QED BY <2>1, NotMainLabels, Zenon
<1>1. ASSUME NEW sig \in Signals, Deliver(t, sig) PROVE Acts(t)
  <2>1. /\ frames[t] # <<>> /\ sig \notin mask[t] /\ action = "handle"
        /\ frames' = [frames EXCEPT ![t] = <<Frame(handler[sig], mask[t])>> \o @]
        /\ pending' = [pending EXCEPT ![t] = @ \ {sig}] \/ UNCHANGED pending
        /\ UNCHANGED <<timer, action>> /\ (UNCHANGED timer_tick \/ timer_tick' = FALSE)
    BY <1>1, Zenon DEF Deliver
  <2>0. timer_tick' => timer_tick
    BY <2>1, Zenon
  <2>2. t \in TaskThreads /\ Exists(t) /\ mask[t] # Signals
    BY <2>1 DEF Inv, MainRuns, Threads, TaskThreads, Exists
  <2>3. Live(t)
    BY <2>2, Zenon DEF Inv, MaskShape, Masked, Live, BlockedLabels, WaitLabels, StoppedLabels
  <2>4. \A u \in Threads \ {t} : frames'[u] = frames[u]
    BY <2>1, Zenon DEF Inv, Types
  <2>5. pending'[Main] = pending[Main]
    BY <2>1, <2>2, NotMain, MainNotSignalled, Zenon
  <2> QED BY <2>0, <2>1, <2>2, <2>3, <2>4, <2>5, Zenon DEF Acts
<1>2. CASE sigwait_resume(t)
  <2>1. PICK k \in WaitLabels, l \in {"unblock", "start_fn"} : At(t, k) /\ frames' = Moved(t, l)
    BY <1>2, Zenon DEF sigwait_resume, Goto
  <2>2. /\ pending' = [pending EXCEPT ![t] = @ \ {"SIGRESUME"}] /\ Resumed(t)
        /\ UNCHANGED <<timer, timer_tick, action>>
    BY <1>2, Zenon DEF sigwait_resume, Resumed
  <2>3. t \in TaskThreads /\ Waiting(t) /\ \A u \in Threads \ {t} : frames'[u] = frames[u]
    BY <1>0, <2>1, MovesOn, Zenon DEF Waiting, WaitLabels
  <2> QED BY <2>2, <2>3, NotMain, MainNotSignalled, Zenon DEF Acts
<1>3. CASE PendSyscall(t)
  <2>1. /\ \/ At(t, "pend") /\ frames' = Moved(t, "task")
           \/ At(t, "tick_pend") /\ frames' = Moved(t, "tick_return")
        /\ pending' = [pending EXCEPT ![t] = @ \cup {"SIGSYSCALL"}]
        /\ UNCHANGED <<timer, timer_tick, action>>
    BY <1>3, Zenon DEF PendSyscall, Runs, Goto, rt_syscall_pend, pthread_kill
  <2>2. "pend" \notin WaitLabels \cup StoppedLabels /\ "tick_pend" \notin WaitLabels \cup StoppedLabels
    BY DEF WaitLabels, StoppedLabels
  <2>3. t \in TaskThreads /\ Live(t) /\ \A u \in Threads \ {t} : frames'[u] = frames[u]
    BY <1>0, <2>1, <2>2, MovesOn, Zenon
  <2> QED BY <2>1, <2>3, NotMain, MainNotSignalled, Zenon DEF Acts
<1>4. CASE rt_stop_kill(t)
  <2>1. /\ At(t, "stop") /\ frames' = Moved(t, "stopped")
        /\ UNCHANGED <<timer, timer_tick, action>>
    BY <1>4, Zenon DEF rt_stop_kill, Runs, Goto
  <2>2. "stop" \notin WaitLabels \cup StoppedLabels /\ "stopped" \in StoppedLabels
    BY DEF WaitLabels, StoppedLabels
  <2>3. /\ t \in TaskThreads /\ Live(t) /\ \A u \in Threads \ {t} : frames'[u] = frames[u]
        /\ Stopped(t)' /\ t \in Tasks
    BY <1>0, <2>1, <2>2, MovesOn, AtTop, Zenon DEF Stopped
  <2> QED BY <2>1, <2>3, Zenon DEF Acts
<1>5. CASE rt_task_exit(t)
  <2>1. /\ At(t, "stopped") /\ frames' = Moved(t, "ended")
        /\ pending' = [pending EXCEPT ![t] = @ \cup {"SIGSYSCALL"}]
        /\ UNCHANGED <<timer, timer_tick, action>>
    BY <1>5, Zenon DEF rt_task_exit, Runs, Goto, pthread_kill
  <2>2. "stopped" \in StoppedLabels /\ "ended" \in StoppedLabels
    BY DEF StoppedLabels
  <2>3. /\ t \in TaskThreads /\ \A u \in Threads \ {t} : frames'[u] = frames[u]
        /\ Stopped(t) /\ Stopped(t)' /\ t \in Tasks
    BY <1>0, <2>1, <2>2, MovesOn, AtTop, Zenon DEF Stopped
  <2> QED BY <2>1, <2>3, NotMain, MainNotSignalled, Zenon DEF Acts
<1>6. CASE rt_syscall_handler_kill(t)
  <2>1. /\ At(t, "kill") /\ frames' = Moved(t, "suspended")
        /\ pending' = [pending EXCEPT ![newctx] = @ \cup {"SIGRESUME"}]
        /\ UNCHANGED <<timer, timer_tick, action>>
    BY <1>6, Zenon DEF rt_syscall_handler_kill, Runs, Goto, pthread_kill, Suspended
  <2>2. "kill" \notin WaitLabels \cup StoppedLabels
    BY DEF WaitLabels, StoppedLabels
  <2>3. /\ t \in TaskThreads /\ Live(t) /\ \A u \in Threads \ {t} : frames'[u] = frames[u]
        /\ Top(t) = "kill"
    BY <1>0, <2>1, <2>2, MovesOn, Zenon
  <2>4. newctx \in TaskThreads
    BY <2>3, Zenon DEF Inv, TokenIsActive, Switching, SwitchLabels, Types
  <2> QED BY <2>1, <2>3, <2>4, NotMain, MainNotSignalled, Zenon DEF Acts
<1> QED BY <1>1, <1>2, <1>3, <1>4, <1>5, <1>6, Zenon

\* and so every step of a thread,
LEMMA ThreadActs == ASSUME Inv, NEW t \in Threads, ThreadStep(t) PROVE Acts(t)
<1>1. CASE \/ handler_return(t) \/ resumed(t) \/ rt_syscall(t) \/ tick_handler(t)
           \/ syscall_handler(t) \/ rt_syscall_run(t) \/ rt_syscall_handler_block(t)
           \/ rt_syscall_handler_prev(t)
  <2>1. UNCHANGED <<timer, timer_tick, action>>
    BY <1>1, Zenon DEF handler_return, resumed, rt_syscall, tick_handler, syscall_handler,
         rt_syscall_run, rt_syscall_handler_block, rt_syscall_handler_prev, signalVars
  <2> QED BY <1>1, <2>1, QuietActs, Zenon
<1> QED BY <1>1, SignalActs, Zenon DEF ThreadStep

\* every call that a task makes
LEMMA CallActs == ASSUME Inv, NEW t \in Tasks, TaskCall(t) PROVE Acts(t)
<1>0. t \in Threads /\ t \in TaskThreads
  BY Zenon DEF Threads, TaskThreads
<1>1. CASE NewCall(t) \/ rt_stop(t)
  <2>1. UNCHANGED <<timer, timer_tick, action>>
    BY <1>1, Zenon DEF NewCall, rt_stop, signalVars
  <2> QED BY <1>0, <1>1, <2>1, QuietActs, Zenon
<1>2. ASSUME NEW u \in Tasks, context_create(t, u) PROVE Acts(t)
  <2>1. /\ At(t, "task") /\ frames[u] = <<>>
        /\ frames' = [Moved(t, "pend") EXCEPT ![u] = NewThread(u)]
        /\ UNCHANGED <<pending, timer, timer_tick, action>>
    BY <1>2, Zenon DEF context_create, Runs
  <2>2. "task" \in Labels \ MainLabels /\ "task" \notin WaitLabels \cup StoppedLabels
    BY DEF Labels, TaskLabels, MainLabels, WaitLabels, StoppedLabels
  <2>3. Live(t)
    BY <1>0, <2>1, <2>2, AtTop, Zenon
  <2>4. \A v \in Threads \ {t} : Exists(v) => frames'[v] = frames[v]
    BY <2>1 DEF Inv, Types, Moved, Exists
  <2> QED BY <1>0, <2>1, <2>3, <2>4, Zenon DEF Acts
<1> QED BY <1>1, <1>2, Zenon DEF TaskCall

\* and all that the idle thread does.
LEMMA IdleActs == ASSUME Inv, idle_fn PROVE Acts(Idle)
<1>0. Idle \in Threads /\ Idle \in TaskThreads
  BY Zenon DEF Threads, TaskThreads
<1>1. PICK k \in {"idle_fn", "idle_wait", "idle_unblock"}, l \in {"idle_fn", "idle_wait", "idle_unblock"} :
        At(Idle, k) /\ frames' = Moved(Idle, l)
  BY Zenon DEF idle_fn, Runs, Goto
<1>2. /\ UNCHANGED <<timer, action>> /\ (UNCHANGED timer_tick \/ timer_tick' = FALSE)
      /\ pending' = [pending EXCEPT ![Idle] = @ \cup {"SIGTICK"}] \/ UNCHANGED pending
  BY Zenon DEF idle_fn, sigwait_idle, pthread_kill
<1>t. timer_tick' => timer_tick
  BY <1>2, Zenon
<1>3. k \in Labels \ MainLabels /\ k \notin WaitLabels \cup StoppedLabels /\ l \in Labels
  BY DEF Labels, IdleLabels, MainLabels, WaitLabels, StoppedLabels
<1>4. Live(Idle) /\ \A u \in Threads \ {Idle} : frames'[u] = frames[u]
  BY <1>0, <1>1, <1>3, MovesOn, Zenon
<1> QED BY <1>0, <1>2, <1>4, <1>t, NotMain, MainNotSignalled, Zenon DEF Acts

\* Before rt_start no thread steps, and after rt_stop only the one that has called it.
LEMMA StopByThread ==
  ASSUME Inv, StopInv, NEW t, Acts(t)
  PROVE  StopInv'
<1>1. /\ Main \in Threads /\ t # Main /\ Exists(Main)
      /\ t \in TaskThreads /\ Tasks \subseteq TaskThreads /\ TaskThreads \subseteq Threads
  <2>1. Exists(Main)
    BY DEF Inv, MainRuns, Exists
  <2> QED BY <2>1, NotMain, Zenon DEF Threads, TaskThreads, Acts
<1>2. Top(Main)' = Top(Main)
  BY <1>1, Zenon DEF Acts, Top
<1>3. (\E u \in Tasks : Stopped(u)) => Stopped(t) /\ t \in Tasks /\ Stopped(t)'
  BY <1>1, Zenon DEF Inv, StartStop, Acts
<1>4. Stopped(t) => ~Live(t)
  BY Zenon DEF Stopped, Live
<1>5. Top(Main) # "start"
  <2>1. Waiting(t) => ~Live(t)
    BY Zenon DEF Waiting, Live
  <2>2. Waiting(t) => ~Stopped(t)
    BY DEF Waiting, Stopped, WaitLabels, StoppedLabels
  <2>3. Live(t) \/ Stopped(t) => Exists(t)
    BY Zenon DEF Live, Stopped
  <2> QED BY <1>1, <2>1, <2>2, <2>3, Zenon DEF Inv, StartStop, Acts
<1>6. \/ Top(Main)' \in {"ignore", "main_unblock", "default", "returned"}
      \/ "SIGRESUME" \in pending'[Main]
      => \E u \in Tasks : Stopped(u)'
  BY <1>2, <1>3, Zenon DEF StopInv, Acts
<1>7. Top(Main)' \in {"start", "main_unblock", "default", "returned"} =>
        ~timer_tick' /\ pending'[Main] = {}
  BY <1>2, <1>3, <1>4, <1>5, Zenon DEF StopInv, Acts
<1>8. /\ Top(Main)' \in {"start", "ignore", "main_unblock", "default", "returned"} => ~timer'
      /\ action' = "default" => Top(Main)' \in {"start", "returned"}
  BY <1>2, Zenon DEF StopInv, Acts
<1> QED BY <1>6, <1>7, <1>8, Zenon DEF StopInv

\* rt_start itself keeps the invariant: it goes on when a task has called rt_stop,
LEMMA StopByMain == ASSUME Inv, StopInv, rt_start PROVE StopInv'
<1>0. /\ Main \in Threads /\ frames \in [Threads -> Seq(FrameType)] /\ Exists(Main)
      /\ Len(frames[Main]) = 1 /\ pending \in [Threads -> SUBSET Signals]
      /\ Idle \in Threads /\ Idle # Main /\ Main # Idle
  <2>1. Main \in Threads /\ Idle \in Threads /\ Idle # Main
    BY PthreadAssumption, Zenon DEF Threads
  <2>2. /\ frames \in [Threads -> Seq(FrameType)] /\ Len(frames[Main]) = 1
        /\ pending \in [Threads -> SUBSET Signals]
    BY Zenon DEF Inv, Types, MainRuns
  <2>3. Exists(Main)
    BY DEF Inv, MainRuns, Exists
  <2> QED BY <2>1, <2>2, <2>3, Zenon
<1>t. \A l : At(Main, l) => Top(Main) = l
  BY <1>0, HeadIsFirst, Zenon DEF At, Top
<1>m. ASSUME NEW l \in MainLabels, frames' = Moved(Main, l)
      PROVE  Top(Main)' = l /\ \A u \in Tasks : Stopped(u) => Stopped(u)'
  <2>1. /\ \A u \in Threads \ {Main} : frames'[u] = frames[u]
        /\ frames'[Main][1].at = l
    BY <1>0, <1>m, MovedFrames, Zenon DEF Inv, Labels
  <2>2. \A u \in Tasks : u \in Threads \ {Main}
    BY PthreadAssumption, Zenon DEF Threads
  <2> QED BY <2>1, <2>2, Zenon DEF Stopped, Exists, Top
<1>1. CASE rt_start_create
  <2>1. /\ At(Main, "start") /\ action' = "handle" /\ UNCHANGED pending
        /\ frames' = [Moved(Main, "start_resume") EXCEPT ![Idle] = NewThread(Idle)]
    BY <1>1, Zenon DEF rt_start_create, Runs
  <2>2. Top(Main)' = "start_resume"
    <3>1. "start_resume" \in Labels
      BY DEF Labels, MainLabels
    <3>2. Types
      BY Zenon DEF Inv
    <3>3. frames'[Main][1].at = "start_resume"
      BY <1>0, <2>1, <3>1, <3>2, CreatedFrames, ZenonT(40)
    <3> QED BY <3>3, Zenon DEF Top
  <2>3. "SIGRESUME" \notin pending'[Main]
    BY <1>t, <2>1 DEF StopInv
  <2> QED BY <2>1, <2>2, <2>3 DEF StopInv
<1>2. CASE rt_start_kill
  <2>1. PICK k \in {"start_resume", "start_syscall"}, l \in {"start_syscall", "main_wait"} :
          At(Main, k) /\ frames' = Moved(Main, l)
    BY <1>2, Zenon DEF rt_start_kill, Runs, Goto
  <2>2. /\ \E sigs : pending' = [pending EXCEPT ![Idle] = sigs]
        /\ UNCHANGED <<timer, timer_tick, action>>
    BY <1>2, Zenon DEF rt_start_kill, pthread_kill
  <2>3. Top(Main) = k /\ Top(Main)' = l /\ \A u \in Tasks : Stopped(u) => Stopped(u)'
    BY <1>t, <1>m, <2>1, Zenon DEF MainLabels
  <2>4. pending'[Main] = pending[Main]
    BY <1>0, <2>2, MainNotSignalled, Zenon
  <2>5. "SIGRESUME" \in pending'[Main] => \E u \in Tasks : Stopped(u)'
    BY <2>3, <2>4, Zenon DEF StopInv
  <2> QED BY <2>2, <2>3, <2>5 DEF StopInv
<1>3. CASE rt_start_stop
  <2>1. /\ At(Main, "main_wait") /\ "SIGRESUME" \in pending[Main] /\ frames' = Moved(Main, "ignore")
        /\ timer' = FALSE /\ UNCHANGED action
    BY <1>3, Zenon DEF rt_start_stop, Goto
  <2>2. Top(Main) = "main_wait" /\ Top(Main)' = "ignore" /\ \A u \in Tasks : Stopped(u) => Stopped(u)'
    BY <1>t, <1>m, <2>1, Zenon DEF MainLabels
  <2>3. \E u \in Tasks : Stopped(u)'
    BY <2>1, <2>2, Zenon DEF StopInv
  <2> QED BY <2>1, <2>2, <2>3, Zenon DEF StopInv
<1>4. CASE rt_start_ignore
  <2>1. /\ At(Main, "ignore") /\ frames' = Moved(Main, "main_unblock")
        /\ pending' = [t \in Threads |-> {}] /\ timer_tick' = FALSE
        /\ action' = "ignore" /\ UNCHANGED timer
    BY <1>4, Zenon DEF rt_start_ignore, Goto, Runs, DropPending
  <2>2. Top(Main) = "ignore" /\ Top(Main)' = "main_unblock" /\ \A u \in Tasks : Stopped(u) => Stopped(u)'
    BY <1>t, <1>m, <2>1, Zenon DEF MainLabels
  <2>3. (\E u \in Tasks : Stopped(u)') /\ ~timer
    BY <2>2 DEF StopInv
  <2> QED BY <1>0, <2>1, <2>2, <2>3 DEF StopInv
<1>5. CASE rt_start_return
  <2>1. PICK k \in {"main_unblock", "default"}, l \in {"default", "returned"} :
          /\ At(Main, k) /\ frames' = Moved(Main, l)
          /\ UNCHANGED action \/ l = "returned"
    BY <1>5, Zenon DEF rt_start_return, Goto, Runs
  <2>2. Top(Main) = k /\ Top(Main)' = l /\ \A u \in Tasks : Stopped(u) => Stopped(u)'
    BY <1>t, <1>m, <2>1, Zenon DEF MainLabels
  <2>3. UNCHANGED <<pending, timer, timer_tick>>
    BY <1>5, Zenon DEF rt_start_return
  <2>4. (\E u \in Tasks : Stopped(u)')
    BY <2>2 DEF StopInv
  <2> QED BY <2>1, <2>2, <2>3, <2>4 DEF StopInv
<1> QED BY <1>1, <1>2, <1>3, <1>4, <1>5, Zenon DEF rt_start

\* and so every step keeps it.
LEMMA StopKept == Inv /\ StopInv /\ [Next]_vars => StopInv'
<1> SUFFICES ASSUME Inv, StopInv, [Next]_vars PROVE StopInv'
  BY Zenon
<1>1. CASE UNCHANGED vars
  BY <1>1, Zenon DEF StopInv, Stopped, Exists, Top, vars, signalVars
<1>2. CASE TimerExpires
  <2>1. timer /\ UNCHANGED <<pending, timer, action, frames>>
    BY <1>2, Zenon DEF TimerExpires
  <2> QED BY <2>1, Zenon DEF StopInv, Stopped, Exists, Top
<1> QED BY <1>1, <1>2, ThreadActs, CallActs, IdleActs, StopByThread, StopByMain, Zenon DEF Next

\* It holds before rt_start has created the idle thread.
LEMMA StopBegins == Init => StopInv
<1> SUFFICES ASSUME Init PROVE StopInv
  BY Zenon
<1>1. /\ frames[Main] = <<Frame("start", {})>> /\ pending[Main] = {} /\ ~timer /\ ~timer_tick
  BY DEF Init, Threads
<1>2. Top(Main) = "start"
  BY <1>1 DEF Top, Frame
<1> QED BY <1>1, <1>2 DEF StopInv

\* A signal that is late never has its default action, which would end the process: when
\* rt_start returns, none is pending in a thread that does not block it (pthread.c:288).
THEOREM LateSignalsHarmless == Spec => []NoSignalAfterStop
<1>1. Inv /\ StopInv => NoSignalAfterStop
  <2> SUFFICES ASSUME Inv, StopInv, action = "default", NEW t \in Threads
               PROVE  pending[t] \subseteq mask[t] /\ (timer_tick => "SIGTICK" \in mask[t])
    BY Zenon DEF NoSignalAfterStop
  <2>0. Top(Main) \in {"start", "returned"} /\ pending[t] \subseteq Signals
    BY Zenon DEF StopInv, Inv, Types
  <2>1. CASE t = Main
    BY <2>0, <2>1 DEF StopInv
  <2>2. CASE t \in TaskThreads
    <3>1. Exists(t) => Waiting(t) \/ Stopped(t)
      <4>1. ~Live(t)
        <5>1. CASE Top(Main) = "start"
          BY <2>2, <5>1, Zenon DEF Inv, StartStop, Live, Waiting
        <5>2. CASE Top(Main) = "returned"
          BY <2>2, <5>2, Zenon DEF Inv, StartStop, StopInv, TaskThreads
        <5> QED BY <2>0, <5>1, <5>2, Zenon
      <4> QED BY <4>1, Zenon DEF Live, Waiting, Stopped
    <3>2. Exists(t) => Top(t) \in BlockedLabels
      BY <3>1, Zenon DEF Waiting, Stopped, WaitLabels, StoppedLabels, BlockedLabels
    <3>3. mask[t] = Signals
      BY <2>2, <3>2, Zenon DEF Inv, MaskShape, Masked, OnlyExisting
    <3> QED BY <2>0, <3>3, Zenon DEF Signals
  <2> QED BY <2>1, <2>2, Zenon DEF Threads, TaskThreads
<1> QED BY <1>1, StopBegins, StopKept, SpecInv, PTL DEF Spec

-----------------------------------------------------------------------------
(* System calls are run before they return.                                *)

\* Where a task blocks no signal, and where the handler is that will run the system call.
OpenLabels == {"task", "push", "pend"}
DueLabels == {"syscall_handler", "run"}
RunLabels == SwitchLabels \cup {"run"}

\* The function of a thread, at the bottom of its frames, and the signals blocked in it.
Bottom(t) == frames[t][Len(frames[t])].at
BottomMask(t) == IF Len(frames[t]) = 1 THEN mask[t] ELSE frames[t][Len(frames[t]) - 1].mask

OpenMasks == \A t \in Tasks : Exists(t) /\ Bottom(t) \in OpenLabels => BottomMask(t) = {}

\* The handler of SIGSYSCALL is at one of the labels, interrupted by a tick or not.
Handles(t, labels) ==
  \/ Top(t) \in labels
  \/ Len(frames[t]) > 1 /\ Top(t) \in TickLabels /\ frames[t][2].at \in labels

\* Thread t will run the pending system calls before it gets back to its task.
Due(t) ==
  /\ Live(t)
  /\ Bottom(t) = "pend" \/ "SIGSYSCALL" \in pending[t] \/ Handles(t, DueLabels)

\* The record of a task is on the stack, or taken, only where the system call is due, after
\* rt_stop, or for a new task that cannot run yet.  Once rt_syscall_run has taken the
\* records only a tick pushes one, and none is left when another task is switched to.
RecordInv ==
  /\ active \in Tasks => active \in runnable
  /\ \A t \in Tasks : t \in pending_syscalls \cup taken =>
       Stopped(t) \/ Due(t) \/ (request[t] = "ready" /\ t \notin runnable)
  /\ \A t \in TaskThreads : Live(t) =>
       /\ Handles(t, RunLabels) => pending_syscalls \subseteq {TickRecord}
       /\ Handles(t, SwitchLabels) => taken = {}

\* While a thread executes, or is resumed, or after it has called rt_stop, no other does.
LEMMA OthersRest ==
  ASSUME Inv, NEW t \in TaskThreads, Live(t) \/ Resumed(t) \/ Stopped(t)
  PROVE  \A u \in TaskThreads \ {t} : ~Live(u)
BY Zenon DEF Inv, OneToken, StartStop

\* A step of thread t keeps the two invariants if it does so for t itself.
LEMMA CallStep ==
  ASSUME Inv, OpenMasks, RecordInv, NEW t \in TaskThreads, Exists(t),
         \A u \in TaskThreads \ {t} :
           /\ ~Live(u)
           /\ \/ frames'[u] = frames[u] /\ mask'[u] = mask[u]
              \/ ~Exists(u) /\ Waiting(u)' /\ Bottom(u)' \notin OpenLabels,
         \A u \in Tasks \ {t} : u \in pending_syscalls' \cup taken' =>
           \/ u \in pending_syscalls \cup taken /\ request'[u] = request[u] /\ UNCHANGED runnable
           \/ request'[u] = "ready" /\ u \notin runnable',
         active' \in Tasks => active' \in runnable',
         t \in Tasks =>
           /\ \/ Bottom(t)' = Bottom(t) /\ BottomMask(t)' = BottomMask(t)
              \/ Bottom(t)' \notin OpenLabels
              \/ BottomMask(t)' = {}
           /\ t \in pending_syscalls' \cup taken' => Stopped(t)' \/ Due(t)',
         Live(t)' => /\ Handles(t, RunLabels)' => pending_syscalls' \subseteq {TickRecord}
                     /\ Handles(t, SwitchLabels)' => taken' = {}
  PROVE  OpenMasks' /\ RecordInv'
<1>1. ASSUME NEW u \in Tasks, Exists(u)', Bottom(u)' \in OpenLabels PROVE BottomMask(u)' = {}
  <2>1. CASE u = t
    <3>1. Bottom(t)' = Bottom(t) /\ BottomMask(t)' = BottomMask(t) => BottomMask(t)' = {}
      BY <1>1, <2>1, Zenon DEF OpenMasks
    <3> QED BY <1>1, <2>1, <3>1, Zenon
  <2>2. CASE u # t
    <3>1. frames'[u] = frames[u] /\ mask'[u] = mask[u]
      BY <1>1, <2>2, Zenon DEF TaskThreads
    <3>2. Exists(u) /\ Bottom(u) = Bottom(u)' /\ BottomMask(u) = BottomMask(u)'
      BY <1>1, <3>1, Zenon DEF Exists, Bottom, BottomMask
    <3> QED BY <1>1, <3>2, Zenon DEF OpenMasks
  <2> QED BY <2>1, <2>2, Zenon
<1>2. ASSUME NEW u \in TaskThreads \ {t} PROVE ~Live(u)'
  <2>1. CASE frames'[u] = frames[u]
    BY <2>1, Zenon DEF Live, Exists, Top
  <2>2. CASE Waiting(u)'
    BY <2>2, Zenon DEF Live, Waiting
  <2> QED BY <2>1, <2>2, Zenon
<1>3. ASSUME NEW u \in Tasks, u \in pending_syscalls' \cup taken'
      PROVE  Stopped(u)' \/ Due(u)' \/ (request'[u] = "ready" /\ u \notin runnable')
  <2>1. CASE u = t
    BY <1>3, <2>1, Zenon
  <2>2. CASE u # t /\ u \in pending_syscalls \cup taken /\ request'[u] = request[u] /\ UNCHANGED runnable
    <3>1. u \in TaskThreads \ {t}
      BY <2>2, Zenon DEF TaskThreads
    <3>2. Exists(u) /\ ~Due(u)
      BY <2>2, <3>1, Zenon DEF Inv, OnlyExisting, Due
    <3>3. frames'[u] = frames[u]
      BY <3>1, <3>2, Zenon
    <3>4. Stopped(u) => Stopped(u)'
      BY <3>3, Zenon DEF Stopped, Exists, Top
    <3> QED BY <2>2, <3>2, <3>4, Zenon DEF RecordInv
  <2> QED BY <1>3, <2>1, <2>2, Zenon
<1>4. ASSUME NEW u \in TaskThreads, Live(u)'
      PROVE  /\ Handles(u, RunLabels)' => pending_syscalls' \subseteq {TickRecord}
             /\ Handles(u, SwitchLabels)' => taken' = {}
  BY <1>2, <1>4, Zenon
<1> QED BY <1>1, <1>3, <1>4, Zenon DEF OpenMasks, RecordInv

\* The record of a task that executes, or is resumed, is there only if the call is due.
LEMMA LiveDue ==
  ASSUME Inv, RecordInv, NEW t \in Tasks, t \in pending_syscalls \cup taken,
         Live(t) \/ Resumed(t)
  PROVE  Due(t)
<1>1. t \in TaskThreads /\ t # TickRecord
  BY PthreadAssumption, Zenon DEF TaskThreads
<1>2. CASE Live(t)
  <2>1. ~Stopped(t)
    BY <1>2, Zenon DEF Live, Stopped
  <2>2. CASE Switching(t)
    <3>1. Handles(t, SwitchLabels) /\ Handles(t, RunLabels)
      BY <2>2, Zenon DEF Switching, TickInBlock, Handles, SwitchLabels, RunLabels
    <3> QED BY <1>1, <1>2, <3>1, Zenon DEF RecordInv
  <2>3. CASE ~Switching(t)
    <3>1. active = t
      BY <1>1, <1>2, <2>3, Zenon DEF Inv, TokenIsActive
    <3> QED BY <2>1, <3>1, Zenon DEF RecordInv
  <2> QED BY <2>2, <2>3, Zenon
<1>3. CASE Resumed(t)
  <2>1. Waiting(t) /\ active = t
    BY <1>1, <1>3, Zenon DEF Inv, TokenIsActive
  <2>2. ~Stopped(t)
    BY <2>1, Zenon DEF Waiting, Stopped, WaitLabels, StoppedLabels
  <2> QED BY <2>1, <2>2, Zenon DEF RecordInv
<1> QED BY <1>2, <1>3, Zenon

\* A task that executes its own code has no record on the stack.
LEMMA TaskHasNoRecord ==
  ASSUME Inv, OpenMasks, RecordInv, NEW t \in Tasks, Runs(t, "task")
  PROVE  t \notin pending_syscalls \cup taken
<1>1. /\ "task" \in Labels \ MainLabels /\ "task" \in TaskLabels
      /\ "task" \notin WaitLabels \cup StoppedLabels \cup DueLabels \cup TickLabels
      /\ "task" \in OpenLabels /\ t \in Threads
  BY DEF Labels, TaskLabels, MainLabels, WaitLabels, StoppedLabels, DueLabels, TickLabels,
         OpenLabels, Threads
<1>2. At(t, "task") /\ pending[t] \subseteq mask[t]
  BY Zenon DEF Runs
<1>3. Exists(t) /\ Top(t) = "task" /\ Len(frames[t]) = 1 /\ Live(t)
  BY <1>1, <1>2, AtTop, Zenon
<1>4. Bottom(t) = "task" /\ BottomMask(t) = mask[t]
  BY <1>3, Zenon DEF Bottom, BottomMask, Top
<1>5. "SIGSYSCALL" \notin pending[t]
  BY <1>1, <1>2, <1>3, <1>4, Zenon DEF OpenMasks
<1>6. ~Handles(t, DueLabels)
  BY <1>1, <1>3, Zenon DEF Handles
<1>7. ~Due(t)
  BY <1>4, <1>5, <1>6 DEF Due
<1> QED BY <1>3, <1>7, LiveDue, Zenon

\* What a thread that moves on leaves of its frames.
LEMMA MovedBottom ==
  ASSUME Inv, NEW t \in Threads, NEW k \in Labels \ MainLabels, NEW l \in Labels, At(t, k),
         frames' = Moved(t, l)
  PROVE  /\ Len(frames'[t]) = Len(frames[t])
         /\ Len(frames[t]) = 1 =>
              Bottom(t) = k /\ Bottom(t)' = l /\ BottomMask(t) = mask[t] /\ BottomMask(t)' = mask'[t]
         /\ Len(frames[t]) # 1 =>
              /\ Bottom(t)' = Bottom(t) /\ BottomMask(t)' = BottomMask(t)
              /\ Len(frames[t]) > 1 /\ frames'[t][2] = frames[t][2]
<1>1. Exists(t) /\ Top(t) = k /\ Types
  BY AtTop, Zenon DEF Inv
<1>2. /\ Len(frames'[t]) = Len(frames[t])
      /\ frames'[t][1].at = l /\ frames'[t][1].mask = frames[t][1].mask
      /\ \A i \in 2..Len(frames[t]) : frames'[t][i] = frames[t][i]
  BY <1>1, MovedFrames, Zenon
<1>3. Len(frames[t]) \in Nat /\ Len(frames[t]) >= 1
  BY <1>1 DEF Types, Exists
<1>4. CASE Len(frames[t]) = 1
  BY <1>1, <1>2, <1>4, Zenon DEF Bottom, BottomMask, Top
<1>5. CASE Len(frames[t]) # 1
  <2> DEFINE n == Len(frames[t])
  <2>0. \A m \in Nat : m >= 1 /\ m # 1 =>
          m > 1 /\ m \in 2..m /\ 2 \in 2..m /\ (m - 1 = 1 \/ m - 1 \in 2..m)
    OBVIOUS
  <2>1. n > 1 /\ n \in 2..n /\ 2 \in 2..n /\ (n - 1 = 1 \/ n - 1 \in 2..n)
    BY <1>3, <1>5, <2>0, Zenon
  <2>2. Bottom(t)' = Bottom(t) /\ frames'[t][2] = frames[t][2]
    BY <1>2, <2>1, Zenon DEF Bottom
  <2>3. frames'[t][n - 1].mask = frames[t][n - 1].mask
    BY <1>2, <2>1, Zenon
  <2>4. BottomMask(t)' = BottomMask(t)
    BY <1>2, <1>5, <2>3, Zenon DEF BottomMask
  <2> QED BY <1>2, <1>5, <2>1, <2>2, <2>4, Zenon
<1> QED BY <1>4, <1>5, Zenon

\* A system call stays due while the thread moves on to where it runs.
LEMMA MovedDue ==
  ASSUME Inv, NEW t \in Threads, NEW k \in Labels \ MainLabels, NEW l \in Labels, At(t, k),
         frames' = Moved(t, l), Due(t), k \notin {"pend"} \cup DueLabels,
         l \in TickLabels <=> k \in TickLabels, l \notin WaitLabels \cup StoppedLabels,
         "SIGSYSCALL" \in pending[t] => "SIGSYSCALL" \in pending'[t]
  PROVE  Due(t)'
<1>1. /\ Exists(t) /\ Top(t) = k /\ Exists(t)' /\ Top(t)' = l
  BY AtTop, MovesOn, Zenon
<1>2. Live(t)'
  BY <1>1, Zenon DEF Live
<1>3. CASE Bottom(t) = "pend"
  <2>1. Bottom(t)' = "pend"
    BY <1>3, MovedBottom, Zenon
  <2> QED BY <1>2, <2>1, Zenon DEF Due
<1>4. CASE "SIGSYSCALL" \in pending[t]
  BY <1>2, <1>4, Zenon DEF Due
<1>5. CASE Handles(t, DueLabels)
  <2>1. Len(frames[t]) > 1 /\ k \in TickLabels /\ frames[t][2].at \in DueLabels
    BY <1>1, <1>5, Zenon DEF Handles
  <2>2. Len(frames[t]) # 1
    BY <2>1
  <2>3. Len(frames'[t]) = Len(frames[t]) /\ frames'[t][2] = frames[t][2]
    BY <2>2, MovedBottom, Zenon
  <2>4. Handles(t, DueLabels)'
    BY <1>1, <2>1, <2>3, Zenon DEF Handles
  <2> QED BY <1>2, <2>4, Zenon DEF Due
<1> QED BY <1>3, <1>4, <1>5, Zenon DEF Due

\* A step of thread t in which it moves on, from k to l.
LEMMA MoveCall ==
  ASSUME Inv, OpenMasks, RecordInv, NEW t \in Threads, NEW k \in Labels \ MainLabels,
         NEW l \in Labels, At(t, k), frames' = Moved(t, l),
         k \in WaitLabels => Resumed(t),
         \A u \in Threads \ {t} : mask'[u] = mask[u],
         \/ k \in OpenLabels /\ mask'[t] = mask[t]
         \/ k \in TickLabels \cup SyscallLabels \/ l \notin OpenLabels \/ mask'[t] = {},
         \A u \in Tasks \ {t} : u \in pending_syscalls' \cup taken' =>
           \/ u \in pending_syscalls \cup taken /\ request'[u] = request[u] /\ UNCHANGED runnable
           \/ request'[u] = "ready" /\ u \notin runnable',
         active' \in Tasks => active' \in runnable',
         t \in Tasks /\ t \in pending_syscalls' \cup taken' => Stopped(t)' \/ Due(t)',
         \/ l \notin TickLabels /\ (l \in RunLabels => pending_syscalls' \subseteq {TickRecord})
                                /\ (l \in SwitchLabels => taken' = {})
         \/ l \in TickLabels /\ k \in TickLabels /\ taken' = taken
            /\ pending_syscalls' \subseteq pending_syscalls \cup {TickRecord}
  PROVE  OpenMasks' /\ RecordInv'
<1>1. /\ t \in TaskThreads /\ Exists(t) /\ Top(t) = k /\ Exists(t)' /\ Top(t)' = l
      /\ k \notin WaitLabels \cup StoppedLabels => Live(t)
      /\ \A u \in Threads \ {t} : frames'[u] = frames[u]
      /\ k \in TickLabels \cup SyscallLabels => Len(frames[t]) # 1
  BY AtTop, MovesOn, Zenon
<1>2. Live(t) \/ Resumed(t) \/ Stopped(t)
  BY <1>1, Zenon DEF Stopped
<1>3. \A u \in TaskThreads \ {t} : ~Live(u) /\ frames'[u] = frames[u] /\ mask'[u] = mask[u]
  BY <1>1, <1>2, OthersRest, Zenon DEF TaskThreads, Threads
<1>4. t \in Tasks =>
        \/ Bottom(t)' = Bottom(t) /\ BottomMask(t)' = BottomMask(t)
        \/ Bottom(t)' \notin OpenLabels
        \/ BottomMask(t)' = {}
  <2>1. CASE Len(frames[t]) # 1
    BY <2>1, MovedBottom, Zenon
  <2>2. CASE Len(frames[t]) = 1
    <3>1. Bottom(t) = k /\ Bottom(t)' = l /\ BottomMask(t) = mask[t] /\ BottomMask(t)' = mask'[t]
      BY <2>2, MovedBottom, Zenon
    <3>2. t \in Tasks /\ k \in OpenLabels => mask[t] = {}
      BY <1>1, <3>1, Zenon DEF OpenMasks
    <3> QED BY <1>1, <2>2, <3>1, <3>2, Zenon
  <2> QED BY <2>1, <2>2, Zenon
<1>5. Live(t)' => /\ Handles(t, RunLabels)' => pending_syscalls' \subseteq {TickRecord}
                  /\ Handles(t, SwitchLabels)' => taken' = {}
  <2>1. CASE l \notin TickLabels
    BY <1>1, <2>1, Zenon DEF Handles
  <2>2. CASE /\ l \in TickLabels /\ k \in TickLabels /\ taken' = taken
             /\ pending_syscalls' \subseteq pending_syscalls \cup {TickRecord}
    <3>1. /\ Len(frames[t]) # 1 /\ k \notin WaitLabels \cup StoppedLabels
          /\ l \notin RunLabels \cup SwitchLabels
      BY <1>1, <2>2, Zenon DEF TickLabels, WaitLabels, StoppedLabels, RunLabels, SwitchLabels
    <3>2. Len(frames'[t]) = Len(frames[t]) /\ frames'[t][2] = frames[t][2]
      BY <3>1, MovedBottom, Zenon
    <3>3. /\ Handles(t, RunLabels)' => Handles(t, RunLabels)
          /\ Handles(t, SwitchLabels)' => Handles(t, SwitchLabels)
      BY <1>1, <2>2, <3>1, <3>2, Zenon DEF Handles
    <3> QED BY <1>1, <2>2, <3>1, <3>3, Zenon DEF RecordInv
  <2> QED BY <2>1, <2>2, Zenon
<1> QED BY <1>1, <1>3, <1>4, <1>5, CallStep, Zenon

\* The labels of the steps below.
LEMMA CallLabels ==
  /\ {"unblock", "start_fn", "push", "pend", "tick_pend", "stop", "stopped", "tick_handler",
      "syscall_handler", "run", "block", "store_prev", "kill", "task", "pthread_fn",
      "suspended", "idle_fn", "idle_wait", "idle_unblock", "return", "tick_return"}
       \subseteq Labels \ MainLabels
  /\ {"idle_fn", "idle_wait", "idle_unblock", "return", "tick_return", "ended"} \subseteq Labels
  /\ {"unblock", "start_fn", "push", "pend", "tick_pend", "stop", "tick_handler",
      "syscall_handler", "run", "block", "store_prev", "kill", "task", "idle_fn", "idle_wait",
      "idle_unblock", "return", "tick_return"} \cap (WaitLabels \cup StoppedLabels) = {}
  /\ {"stopped", "ended"} = StoppedLabels
  /\ {"tick_handler", "tick_pend", "tick_return"} = TickLabels
  /\ {"unblock", "syscall_handler", "run", "block", "store_prev", "kill", "suspended", "return"}
       = SyscallLabels
  /\ {"block", "store_prev", "kill", "run"} = RunLabels
<1>1. /\ {"unblock", "start_fn", "push", "pend", "tick_pend", "stop", "stopped", "tick_handler",
          "syscall_handler", "run", "block", "store_prev", "kill", "task", "pthread_fn",
          "suspended", "idle_fn", "idle_wait", "idle_unblock", "return", "tick_return", "ended"}
           \subseteq TaskLabels \cup IdleLabels \cup TickLabels \cup SyscallLabels
  BY DEF TaskLabels, IdleLabels, TickLabels, SyscallLabels
<1>2. /\ {"unblock", "start_fn", "push", "pend", "tick_pend", "stop", "tick_handler",
          "syscall_handler", "run", "block", "store_prev", "kill", "task", "idle_fn", "idle_wait",
          "idle_unblock", "return", "tick_return"} \cap (WaitLabels \cup StoppedLabels) = {}
  BY DEF WaitLabels, StoppedLabels
<1>3. {"block", "store_prev", "kill", "run"} = RunLabels
  BY DEF RunLabels, SwitchLabels
<1> QED BY <1>1, <1>2, <1>3, NotMainLabels, Zenon DEF StoppedLabels, TickLabels, SyscallLabels

\* The steps of a task in its function: a call is made, its record pushed and the system call
\* asked for.
LEMMA TaskCalls ==
  ASSUME Inv, OpenMasks, RecordInv, NEW t \in Tasks,
         NewCall(t) \/ rt_stop(t) \/ rt_syscall(t)
  PROVE  OpenMasks' /\ RecordInv'
<1>0. t \in Threads /\ mask \in [Threads -> SUBSET Signals]
  BY Zenon DEF Threads, Inv, Types
<1>a. active \in Tasks => active \in runnable
  BY Zenon DEF RecordInv
<1>1. CASE NewCall(t)
  <2>1. PICK c \in Calls : /\ request' = [request EXCEPT ![t] = c]
                           /\ frames' = Moved(t, IF c = "yield" THEN "pend" ELSE "push")
    BY <1>1, Zenon DEF NewCall, Goto
  <2>2. /\ Runs(t, "task") /\ At(t, "task")
        /\ UNCHANGED <<mask, pending_syscalls, taken, runnable, active>>
    BY <1>1, Zenon DEF NewCall, Runs, signalVars, kernelVars
  <2>3. t \notin pending_syscalls \cup taken
    BY <2>2, TaskHasNoRecord, Zenon
  <2>4. PICK l \in {"pend", "push"} : frames' = Moved(t, l)
    BY <2>1, Zenon
  <2>5. \A u \in Tasks \ {t} : request'[u] = request[u]
    BY <2>1, Zenon DEF Inv, Types
  <2>6. l \in Labels /\ l \notin TickLabels \cup RunLabels \cup SwitchLabels /\ "task" \in OpenLabels
    BY CallLabels DEF OpenLabels, TickLabels, RunLabels, SwitchLabels
  <2> QED BY <1>0, <1>a, <2>2, <2>3, <2>4, <2>5, <2>6, CallLabels, MoveCall, Zenon DEF WaitLabels
<1>2. CASE rt_stop(t)
  <2>1. /\ Runs(t, "task") /\ At(t, "task") /\ frames' = Moved(t, "stop")
        /\ mask' = [mask EXCEPT ![t] = Signals]
        /\ UNCHANGED <<pending_syscalls, taken, runnable, active, request>>
    BY <1>2, Zenon DEF rt_stop, Runs, Goto, Block, kernelVars, taskVars
  <2>2. t \notin pending_syscalls \cup taken
    BY <2>1, TaskHasNoRecord, Zenon
  <2>3. /\ "stop" \notin TickLabels \cup RunLabels \cup SwitchLabels \cup OpenLabels
        /\ \A u \in Threads \ {t} : mask'[u] = mask[u]
    BY <1>0, <2>1, Zenon DEF OpenLabels, TickLabels, RunLabels, SwitchLabels
  <2> QED BY <1>0, <1>a, <2>1, <2>2, <2>3, CallLabels, MoveCall, Zenon DEF WaitLabels
<1>3. CASE rt_syscall(t)
  <2>1. /\ At(t, "push") /\ frames' = Moved(t, "pend")
        /\ pending_syscalls' = pending_syscalls \cup {t}
        /\ UNCHANGED <<mask, taken, runnable, active, request>>
    BY <1>3, Zenon DEF rt_syscall, Runs, Goto, signalVars, taskVars
  <2>2. /\ "pend" \notin TickLabels \cup RunLabels \cup SwitchLabels /\ "push" \in OpenLabels
        /\ "push" \in TaskLabels
    BY DEF OpenLabels, TickLabels, RunLabels, SwitchLabels, TaskLabels
  <2>3. Len(frames[t]) = 1 /\ Exists(t)' /\ Top(t)' = "pend"
    BY <1>0, <2>1, <2>2, CallLabels, AtTop, MovesOn, Zenon
  <2>4. Bottom(t)' = "pend"
    BY <1>0, <2>1, <2>3, CallLabels, MovedBottom, Zenon
  <2>5. Due(t)'
    BY <2>3, <2>4, CallLabels, Zenon DEF Due, Live
  <2> QED BY <1>0, <1>a, <2>1, <2>2, <2>5, CallLabels, MoveCall, Zenon DEF WaitLabels
<1> QED BY <1>1, <1>2, <1>3, Zenon

\* SIGSYSCALL is sent, by a task or by the tick handler.
LEMMA PendCalls ==
  ASSUME Inv, OpenMasks, RecordInv, NEW t \in Threads, PendSyscall(t)
  PROVE  OpenMasks' /\ RecordInv'
<1>1. /\ \/ At(t, "pend") /\ frames' = Moved(t, "task")
         \/ At(t, "tick_pend") /\ frames' = Moved(t, "tick_return")
      /\ pending' = [pending EXCEPT ![t] = @ \cup {"SIGSYSCALL"}]
      /\ UNCHANGED <<mask, pending_syscalls, taken, runnable, active, request>>
  BY Zenon DEF PendSyscall, Runs, Goto, rt_syscall_pend, pthread_kill, kernelVars, taskVars
<1>2. "SIGSYSCALL" \in pending'[t] /\ (active \in Tasks => active \in runnable)
  BY <1>1, Zenon DEF Inv, Types, RecordInv
<1>3. CASE At(t, "pend") /\ frames' = Moved(t, "task")
  <2>1. Exists(t)' /\ Top(t)' = "task"
    BY <1>3, CallLabels, MovesOn, Zenon
  <2>2. Due(t)'
    BY <1>2, <2>1, CallLabels, Zenon DEF Due, Live
  <2>3. "task" \notin TickLabels \cup RunLabels \cup SwitchLabels /\ "pend" \in OpenLabels
    BY Zenon DEF OpenLabels, TickLabels, RunLabels, SwitchLabels
  <2> QED BY <1>1, <1>2, <1>3, <2>2, <2>3, CallLabels, MoveCall, Zenon
<1>4. CASE At(t, "tick_pend") /\ frames' = Moved(t, "tick_return")
  <2>1. Exists(t)' /\ Top(t)' = "tick_return"
    BY <1>4, CallLabels, MovesOn, Zenon
  <2>2. Due(t)'
    BY <1>2, <2>1, CallLabels, Zenon DEF Due, Live
  <2> QED BY <1>1, <1>2, <1>4, <2>2, CallLabels, MoveCall, Zenon
<1> QED BY <1>1, <1>3, <1>4, Zenon

\* The end of rt_stop, and of the task that has called it.
LEMMA StopCalls ==
  ASSUME Inv, OpenMasks, RecordInv, NEW t \in Threads, rt_stop_kill(t) \/ rt_task_exit(t)
  PROVE  OpenMasks' /\ RecordInv'
<1>0. PICK k \in {"stop", "stopped"}, l \in {"stopped", "ended"} :
        /\ At(t, k) /\ frames' = Moved(t, l)
        /\ UNCHANGED <<mask, taken, runnable, active>>
        /\ pending_syscalls' \subseteq pending_syscalls \cup {t}
  BY Zenon DEF rt_stop_kill, rt_task_exit, Runs, Goto, kernelVars
<1>1. \A u \in Tasks \ {t} : request'[u] = request[u]
  BY Zenon DEF rt_stop_kill, rt_task_exit, taskVars, Inv, Types
<1>2. /\ k \in Labels \ MainLabels /\ l \in Labels /\ l \in StoppedLabels
      /\ l \notin TickLabels \cup RunLabels \cup SwitchLabels \cup OpenLabels
      /\ k \notin WaitLabels
  BY CallLabels DEF OpenLabels, TickLabels, RunLabels, SwitchLabels, WaitLabels
<1>3. Stopped(t)'
  BY <1>0, <1>2, MovesOn, Zenon DEF Stopped
<1>4. active \in Tasks => active \in runnable
  BY Zenon DEF RecordInv
<1> QED BY <1>0, <1>1, <1>2, <1>3, <1>4, MoveCall, Zenon

\* A thread is resumed and unblocks signals.
LEMMA ResumeCalls ==
  ASSUME Inv, OpenMasks, RecordInv, NEW t \in Threads, sigwait_resume(t) \/ resumed(t)
  PROVE  OpenMasks' /\ RecordInv'
<1>0. active \in Tasks => active \in runnable
  BY Zenon DEF RecordInv
<1>1. CASE sigwait_resume(t)
  <2>1. PICK k \in WaitLabels, l \in {"unblock", "start_fn"} : At(t, k) /\ frames' = Moved(t, l)
    BY <1>1, Zenon DEF sigwait_resume, Goto
  <2>2. /\ Resumed(t)
        /\ UNCHANGED <<mask, pending_syscalls, taken, runnable, active, request>>
    BY <1>1, Zenon DEF sigwait_resume, Resumed, kernelVars, taskVars
  <2>3. k \in Labels \ MainLabels /\ l \in Labels
    BY <2>1, CallLabels, Zenon DEF WaitLabels
  <2>4. l \notin TickLabels \cup RunLabels \cup SwitchLabels \cup OpenLabels
    BY DEF OpenLabels, TickLabels, RunLabels, SwitchLabels
  <2>5. ~Live(t)
    BY <2>1, <2>3, AtTop, Zenon DEF Live
  <2>6. t \in Tasks => t \notin pending_syscalls \cup taken
    BY <2>2, <2>5, LiveDue, Zenon DEF Due
  <2> QED BY <1>0, <2>1, <2>2, <2>3, <2>4, <2>6, MoveCall, Zenon
<1>2. CASE resumed(t)
  <2>1. PICK k \in {"unblock", "start_fn"}, l \in {"return", "idle_fn", "task"} :
          At(t, k) /\ frames' = Moved(t, l)
    BY <1>2, Zenon DEF resumed, Runs, Goto
  <2>2. /\ mask' = [mask EXCEPT ![t] = {}]
        /\ UNCHANGED <<pending, pending_syscalls, taken, runnable, active, request>>
    BY <1>2, Zenon DEF resumed, Unblock, kernelVars, taskVars
  <2>3. mask'[t] = {} /\ \A u \in Threads \ {t} : mask'[u] = mask[u]
    BY <2>2, Zenon DEF Inv, Types
  <2>4. /\ k \in Labels \ MainLabels /\ l \in Labels
        /\ l \notin WaitLabels \cup StoppedLabels /\ k \notin WaitLabels \cup StoppedLabels
    BY CallLabels
  <2>5. /\ l \notin TickLabels \cup RunLabels \cup SwitchLabels
        /\ k \notin TickLabels \cup {"pend"} \cup DueLabels
    BY DEF TickLabels, RunLabels, SwitchLabels, DueLabels
  <2>6. Live(t)
    BY <2>1, <2>4, AtTop, Zenon
  <2>7. t \in Tasks /\ t \in pending_syscalls \cup taken => Due(t)'
    BY <2>1, <2>2, <2>4, <2>5, <2>6, LiveDue, MovedDue, Zenon
  <2> QED BY <1>0, <2>1, <2>2, <2>3, <2>4, <2>5, <2>7, MoveCall, Zenon
<1> QED BY <1>1, <1>2, Zenon

\* A tick pushes its record only.
LEMMA TickCalls ==
  ASSUME Inv, OpenMasks, RecordInv, NEW t \in Threads, tick_handler(t)
  PROVE  OpenMasks' /\ RecordInv'
<1>0. active \in Tasks => active \in runnable
  BY Zenon DEF RecordInv
<1>1. PICK l \in {"tick_return", "tick_pend"} :
        /\ At(t, "tick_handler") /\ frames' = Moved(t, l)
        /\ pending_syscalls' \subseteq pending_syscalls \cup {TickRecord}
        /\ UNCHANGED <<mask, pending, taken, runnable, active, request>>
  BY Zenon DEF tick_handler, Runs, Goto, signalVars, taskVars
<1>2. l \in TickLabels /\ "tick_handler" \in TickLabels
      /\ "tick_handler" \notin {"pend"} \cup DueLabels
      /\ l \notin WaitLabels \cup StoppedLabels /\ l \in Labels
  BY CallLabels DEF TickLabels, DueLabels
<1>3. Live(t)
  BY <1>1, CallLabels, AtTop, Zenon
<1>4. ASSUME NEW u \in Tasks, u \in pending_syscalls' \cup taken'
      PROVE  u \in pending_syscalls \cup taken
  BY <1>1, <1>4, PthreadAssumption, Zenon
<1>5. t \in Tasks /\ t \in pending_syscalls' \cup taken' => Due(t)'
  BY <1>1, <1>2, <1>3, <1>4, CallLabels, LiveDue, MovedDue, Zenon
<1> QED BY <1>0, <1>1, <1>2, <1>4, <1>5, CallLabels, MoveCall, Zenon

\* The handler of SIGSYSCALL takes all records and does what they ask for, before it hands
\* over to another thread.
LEMMA HandlerCalls ==
  ASSUME Inv, OpenMasks, RecordInv, NEW t \in Threads,
         \/ syscall_handler(t) \/ rt_syscall_run(t) \/ rt_syscall_handler_block(t)
         \/ rt_syscall_handler_prev(t) \/ rt_syscall_handler_kill(t)
  PROVE  OpenMasks' /\ RecordInv'
<1>0. (active \in Tasks => active \in runnable) /\ mask \in [Threads -> SUBSET Signals]
  BY Zenon DEF RecordInv, Inv, Types
<1>1. CASE syscall_handler(t)
  <2>1. /\ At(t, "syscall_handler") /\ frames' = Moved(t, "run")
        /\ taken' = pending_syscalls /\ pending_syscalls' = {}
        /\ UNCHANGED <<mask, runnable, active, request>>
    BY <1>1, Zenon DEF syscall_handler, Runs, Goto, signalVars, taskVars
  <2>2. Exists(t)' /\ Top(t)' = "run"
    BY <2>1, CallLabels, MovesOn, Zenon
  <2>3. Due(t)'
    BY <2>2, CallLabels, Zenon DEF Due, Live, Handles, DueLabels
  <2>4. "run" \notin TickLabels \cup SwitchLabels \cup OpenLabels
    BY DEF TickLabels, SwitchLabels, OpenLabels
  <2> QED BY <1>0, <2>1, <2>3, <2>4, CallLabels, MoveCall, Zenon
<1>2. CASE rt_syscall_run(t)
  <2>1. PICK l \in {"return", "block"} :
          /\ At(t, "run") /\ frames' = Moved(t, l) /\ taken' = {}
          /\ UNCHANGED <<mask, pending_syscalls, request>>
    BY <1>2, Zenon DEF rt_syscall_run, Runs, Goto, signalVars, taskVars
  <2>2. active' \in Tasks => active' \in runnable'
    <3>1. active' \in IF runnable' = {} THEN {Idle} ELSE runnable'
      BY <1>2, Zenon DEF rt_syscall_run
    <3> QED BY <3>1, PthreadAssumption, Zenon
  <2>3. t \in TaskThreads /\ Live(t) /\ Top(t) = "run"
    BY <2>1, CallLabels, AtTop, Zenon
  <2>4. pending_syscalls \subseteq {TickRecord}
    BY <2>3, CallLabels, Zenon DEF RecordInv, Handles
  <2>5. \A u \in Tasks : u \notin pending_syscalls' \cup taken'
    BY <2>1, <2>4, PthreadAssumption, Zenon
  <2>6. l \notin TickLabels \cup OpenLabels /\ l \in Labels
    BY CallLabels DEF TickLabels, OpenLabels
  <2> QED BY <2>1, <2>2, <2>4, <2>5, <2>6, CallLabels, MoveCall, Zenon
<1>3. CASE \/ rt_syscall_handler_block(t) \/ rt_syscall_handler_prev(t)
           \/ rt_syscall_handler_kill(t)
  <2>1. PICK k \in SwitchLabels, l \in {"store_prev", "kill", "suspended"} :
          At(t, k) /\ frames' = Moved(t, l)
    BY <1>3, Zenon DEF rt_syscall_handler_block, rt_syscall_handler_prev,
       rt_syscall_handler_kill, Runs, Goto, SwitchLabels, Suspended
  <2>2. UNCHANGED <<pending_syscalls, taken, runnable, active, request>>
    BY <1>3, Zenon DEF rt_syscall_handler_block, rt_syscall_handler_prev,
       rt_syscall_handler_kill, kernelVars, taskVars
  <2>3. \A u \in Threads \ {t} : mask'[u] = mask[u]
    BY <1>0, <1>3, Zenon DEF rt_syscall_handler_block, rt_syscall_handler_prev,
       rt_syscall_handler_kill, SuspendMask, Block, signalVars
  <2>4. /\ k \in Labels \ MainLabels /\ l \in Labels /\ k \notin WaitLabels \cup StoppedLabels
        /\ k \in RunLabels
    BY CallLabels DEF SwitchLabels
  <2>5. l \notin TickLabels \cup OpenLabels
    BY DEF TickLabels, OpenLabels
  <2>6. t \in TaskThreads /\ Live(t) /\ Top(t) = k
    BY <2>1, <2>4, AtTop, Zenon
  <2>7. pending_syscalls \subseteq {TickRecord} /\ taken = {}
    BY <2>4, <2>6, Zenon DEF RecordInv, Handles
  <2>8. \A u \in Tasks : u \notin pending_syscalls' \cup taken'
    BY <2>2, <2>7, PthreadAssumption, Zenon
  <2> QED BY <1>0, <2>1, <2>2, <2>3, <2>4, <2>5, <2>7, <2>8, MoveCall, Zenon
<1> QED BY <1>1, <1>2, <1>3, Zenon

\* What the idle thread does changes nothing for the others.
LEMMA IdleCalls ==
  ASSUME Inv, OpenMasks, RecordInv, idle_fn PROVE OpenMasks' /\ RecordInv'
<1>0. /\ active \in Tasks => active \in runnable
      /\ mask \in [Threads -> SUBSET Signals] /\ Idle \in Threads /\ Idle \notin Tasks
  BY PthreadAssumption, Zenon DEF RecordInv, Inv, Types, Threads
<1>1. PICK k \in {"idle_fn", "idle_wait", "idle_unblock"}, l \in {"idle_fn", "idle_wait", "idle_unblock"} :
        At(Idle, k) /\ frames' = Moved(Idle, l)
  BY Zenon DEF idle_fn, Runs, Goto
<1>2. UNCHANGED <<pending_syscalls, taken, runnable, active, request>>
  BY Zenon DEF idle_fn, kernelVars, taskVars
<1>3. \A u \in Threads \ {Idle} : mask'[u] = mask[u]
  BY <1>0, Zenon DEF idle_fn, Block, Unblock
<1>4. k \in Labels \ MainLabels /\ l \in Labels /\ k \notin WaitLabels
  BY CallLabels
<1>5. l \notin TickLabels \cup RunLabels \cup SwitchLabels \cup OpenLabels
  BY DEF TickLabels, RunLabels, SwitchLabels, OpenLabels
<1> QED BY <1>0, <1>1, <1>2, <1>3, <1>4, <1>5, MoveCall, Zenon

\* A new task has its record pushed, and cannot run yet.
LEMMA CreateCalls ==
  ASSUME Inv, OpenMasks, RecordInv, NEW t \in Tasks, NEW u \in Tasks, context_create(t, u)
  PROVE  OpenMasks' /\ RecordInv'
<1>1. /\ Runs(t, "task") /\ At(t, "task") /\ frames[u] = <<>>
      /\ frames' = [Moved(t, "pend") EXCEPT ![u] = NewThread(u)]
      /\ mask' = [mask EXCEPT ![u] = Signals]
      /\ request' = [request EXCEPT ![u] = "ready"]
      /\ pending_syscalls' = pending_syscalls \cup {u}
      /\ UNCHANGED <<taken, runnable, active>>
  BY Zenon DEF context_create, Runs
<1>2. /\ t \in Threads /\ u \in Threads /\ t \in TaskThreads /\ u \in TaskThreads
      /\ TaskThreads \subseteq Threads
  BY Zenon DEF Threads, TaskThreads
<1>3. /\ "task" \in TaskLabels /\ "pend" \in Labels
      /\ "pend" \notin TickLabels \cup RunLabels \cup SwitchLabels
      /\ "task" \in OpenLabels /\ "pthread_fn" \notin OpenLabels /\ "pthread_fn" \in WaitLabels
  BY CallLabels DEF TaskLabels, TickLabels, RunLabels, SwitchLabels, OpenLabels, WaitLabels
<1>4. Exists(t) /\ Top(t) = "task" /\ Len(frames[t]) = 1 /\ Live(t)
  BY <1>1, <1>2, <1>3, CallLabels, AtTop, Zenon
<1>5. t # u /\ ~Exists(u) /\ Types
  BY <1>1, <1>4, Zenon DEF Exists, Inv
<1>6. /\ \A v \in Threads \ {t, u} : frames'[v] = frames[v]
      /\ frames'[t] # <<>> /\ Len(frames'[t]) = 1 /\ frames'[t][1].at = "pend"
      /\ frames'[u] # <<>> /\ Len(frames'[u]) = 1 /\ frames'[u][1].at = "pthread_fn"
  <2>1. /\ Types /\ t \in Threads /\ u \in Threads /\ t # u /\ Exists(t)
        /\ Len(frames[t]) = 1 /\ "pend" \in Labels
        /\ frames' = [Moved(t, "pend") EXCEPT ![u] = NewThread(u)]
    BY <1>1, <1>2, <1>3, <1>4, <1>5, Zenon
  <2> QED BY <2>1, CreatedFrames, ZenonT(90)
<1>7. /\ \A v \in Threads \ {u} : mask'[v] = mask[v]
      /\ request'[u] = "ready" /\ \A v \in Tasks \ {u} : request'[v] = request[v]
  BY <1>1, <1>5, Zenon DEF Types
<1>8. \A v \in TaskThreads \ {t} : ~Live(v)
  BY <1>2, <1>4, OthersRest, Zenon
<1>9. Waiting(u)' /\ Bottom(u)' \notin OpenLabels
  BY <1>3, <1>6, Zenon DEF Waiting, Exists, Top, Bottom
<1>10. \A v \in TaskThreads \ {t} :
         /\ ~Live(v)
         /\ \/ frames'[v] = frames[v] /\ mask'[v] = mask[v]
            \/ ~Exists(v) /\ Waiting(v)' /\ Bottom(v)' \notin OpenLabels
  <2> SUFFICES ASSUME NEW v \in TaskThreads \ {t}
               PROVE  /\ ~Live(v)
                      /\ \/ frames'[v] = frames[v] /\ mask'[v] = mask[v]
                         \/ ~Exists(v) /\ Waiting(v)' /\ Bottom(v)' \notin OpenLabels
    BY Zenon
  <2>1. CASE v = u
    BY <1>5, <1>8, <1>9, <2>1, Zenon
  <2>2. CASE v # u
    BY <1>2, <1>6, <1>7, <1>8, <2>2, Zenon
  <2> QED BY <2>1, <2>2, Zenon
<1>11. u \notin runnable
  BY <1>2, <1>5, Zenon DEF Inv, OnlyExisting
<1>12. \A v \in Tasks \ {t} : v \in pending_syscalls' \cup taken' =>
         \/ v \in pending_syscalls \cup taken /\ request'[v] = request[v] /\ UNCHANGED runnable
         \/ request'[v] = "ready" /\ v \notin runnable'
  BY <1>1, <1>7, <1>11, Zenon
<1>13. t \notin pending_syscalls' \cup taken'
  BY <1>1, <1>5, TaskHasNoRecord, Zenon
<1>14. BottomMask(t)' = {}
  <2>1. Bottom(t) = "task" /\ BottomMask(t) = mask[t] /\ BottomMask(t)' = mask'[t]
    BY <1>4, <1>6, Zenon DEF Bottom, BottomMask, Top
  <2> QED BY <1>2, <1>3, <1>4, <1>5, <1>7, <2>1, Zenon DEF OpenMasks
<1>15. ~Handles(t, RunLabels)' /\ ~Handles(t, SwitchLabels)'
  BY <1>3, <1>6, Zenon DEF Handles, Top
<1>16. active' \in Tasks => active' \in runnable'
  BY <1>1, Zenon DEF RecordInv
<1> QED BY <1>2, <1>4, <1>10, <1>12, <1>13, <1>14, <1>15, <1>16, CallStep, Zenon

\* A handler is called on top of the frames of a thread, where a signal that is pending is
\* taken: a system call stays due until the handler of SIGSYSCALL has run it.
LEMMA DeliverCalls ==
  ASSUME Inv, OpenMasks, RecordInv, NEW t \in Threads, NEW sig \in Signals, Deliver(t, sig)
  PROVE  OpenMasks' /\ RecordInv'
<1>1. /\ frames[t] # <<>> /\ sig \notin mask[t] /\ action = "handle"
      /\ \/ sig \in pending[t] /\ pending' = [pending EXCEPT ![t] = @ \ {sig}]
         \/ sig = "SIGTICK" /\ UNCHANGED pending
      /\ frames' = [frames EXCEPT ![t] = <<Frame(handler[sig], mask[t])>> \o @]
      /\ mask' = [mask EXCEPT ![t] = @ \cup sa_mask[sig] \cup {sig}]
      /\ UNCHANGED <<pending_syscalls, taken, runnable, active, request>>
  BY Zenon DEF Deliver, kernelVars, taskVars
<1>2. Exists(t) /\ mask[t] # Signals
  BY <1>1, Zenon DEF Exists
<1>3. t \in TaskThreads
  BY <1>1, <1>2, Zenon DEF Inv, MainRuns, Threads, TaskThreads
<1>4. Masked(t) /\ Types
  BY <1>2, <1>3, Zenon DEF Inv, MaskShape
<1>5. Live(t) /\ ~Waiting(t) /\ Top(t) \notin {"store_prev", "kill"}
  BY <1>2, <1>4, Zenon DEF Masked, Live, Waiting, BlockedLabels, WaitLabels, StoppedLabels
<1>6. sig # "SIGRESUME"
  <2>1. ~Resumed(t)
    BY <1>3, <1>5, Zenon DEF Inv, TokenIsActive
  <2> QED BY <1>1, <2>1, Zenon DEF Resumed
<1>7. /\ Top(t) \notin TickLabels
      /\ Top(t) \in HandlerLabels => sig = "SIGTICK"
  BY <1>1, <1>4, <1>6, Zenon DEF Masked, Signals
<1>8. \/ sig = "SIGTICK" /\ handler[sig] = "tick_handler"
      \/ sig = "SIGSYSCALL" /\ handler[sig] = "syscall_handler"
  BY <1>6 DEF handler, Signals
<1>9. /\ frames'[t] # <<>> /\ Len(frames'[t]) = Len(frames[t]) + 1 /\ Len(frames'[t]) > 1
      /\ frames'[t][1].at = handler[sig] /\ frames'[t][1].mask = mask[t]
      /\ frames'[t][2] = frames[t][1]
      /\ Bottom(t)' = Bottom(t) /\ BottomMask(t)' = BottomMask(t)
  <2> DEFINE f == frames[t]
             r == Frame(handler[sig], mask[t])
             g == <<r>> \o f
             n == Len(f)
  <2>1. f \in Seq(FrameType) /\ f # <<>> /\ n \in Nat /\ n >= 1
    <3>1. f \in Seq(FrameType) /\ f # <<>>
      BY <1>1, <1>4, Zenon DEF Types, Exists
    <3> QED BY <3>1
  <2>2. r \in FrameType /\ r.at = handler[sig] /\ r.mask = mask[t]
    BY <1>4, <1>8 DEF Types, Frame, FrameType, Labels, TickLabels, SyscallLabels
  <2> HIDE DEF r
  <2>3. /\ g # <<>> /\ Len(g) = n + 1 /\ g[1] = r
        /\ \A i \in 2..Len(g) : g[i] = f[i - 1]
    BY <2>1, <2>2
  <2>4. frames'[t] = g
    BY <1>1, <1>4, Zenon DEF Types, r
  <2> HIDE DEF g, f
  <2>5. g[2] = f[1] /\ g[n + 1] = f[n] /\ n + 1 > 1 /\ n + 1 # 1
    <3>1. 2 \in 2..Len(g) /\ n + 1 \in 2..Len(g) /\ (n + 1) - 1 = n /\ 2 - 1 = 1
          /\ n + 1 > 1 /\ n + 1 # 1
      BY <2>1, <2>3
    <3> QED BY <2>3, <3>1, Zenon
  <2>6. (n + 1) - 1 = n
    BY <2>1
  <2>7. Bottom(t)' = Bottom(t)
    BY <2>3, <2>4, <2>5, Zenon DEF Bottom, f
  <2>8. BottomMask(t)' = g[n].mask
    BY <2>3, <2>4, <2>5, <2>6, Zenon DEF BottomMask
  <2>9. BottomMask(t) = g[n].mask
    <3>1. CASE n = 1
      BY <2>2, <2>3, <3>1, Zenon DEF BottomMask, f
    <3>2. CASE n # 1
      <4>1. n \in 2..Len(g)
        BY <2>1, <2>3, <3>2
      <4>2. g[n] = f[n - 1]
        BY <2>3, <4>1, Zenon
      <4> QED BY <3>2, <4>2, Zenon DEF BottomMask, f
    <3> QED BY <3>1, <3>2, Zenon
  <2> QED BY <2>2, <2>3, <2>4, <2>5, <2>7, <2>8, <2>9, Zenon DEF f
<1>10. \A u \in Threads \ {t} : frames'[u] = frames[u] /\ mask'[u] = mask[u]
  BY <1>1, <1>4, Zenon DEF Types
<1>11. \A u \in TaskThreads \ {t} : ~Live(u) /\ frames'[u] = frames[u] /\ mask'[u] = mask[u]
  BY <1>3, <1>5, <1>10, OthersRest, Zenon DEF TaskThreads, Threads
<1>12. Exists(t)' /\ Top(t)' = handler[sig] /\ Live(t)'
  <2>1. Exists(t)' /\ Top(t)' = handler[sig]
    BY <1>9, Zenon DEF Exists, Top
  <2>2. handler[sig] \notin WaitLabels \cup StoppedLabels
    BY <1>8, CallLabels, Zenon
  <2> QED BY <2>1, <2>2, Zenon DEF Live
<1>13. ASSUME NEW S, S \cap TickLabels = {}, S \cap {"syscall_handler"} = {}
       PROVE  Handles(t, S)' => Handles(t, S)
  BY <1>8, <1>9, <1>13, CallLabels, Zenon DEF Handles, Top
<1>14. ASSUME t \in Tasks, t \in pending_syscalls \cup taken PROVE Due(t)'
  <2>1. Due(t)
    BY <1>5, <1>14, LiveDue, Zenon
  <2>2. CASE Bottom(t) = "pend"
    BY <1>9, <1>12, <2>2, Zenon DEF Due
  <2>3. CASE "SIGSYSCALL" \in pending[t]
    <3>1. CASE sig = "SIGSYSCALL"
      BY <1>8, <1>12, <3>1, Zenon DEF Due, Handles, DueLabels
    <3>2. CASE sig # "SIGSYSCALL"
      <4>1. "SIGSYSCALL" \in pending'[t]
        BY <1>1, <1>4, <2>3, <3>2, Zenon DEF Types
      <4> QED BY <1>12, <4>1, Zenon DEF Due
    <3> QED BY <3>1, <3>2, Zenon
  <2>4. CASE Handles(t, DueLabels)
    <3>1. Top(t) \in DueLabels /\ Top(t) \in HandlerLabels
      BY <1>7, <2>4, Zenon DEF Handles, DueLabels, HandlerLabels
    <3>2. handler[sig] = "tick_handler" /\ frames'[t][2].at \in DueLabels
      BY <1>7, <1>8, <1>9, <3>1, Zenon DEF Top
    <3>3. Handles(t, DueLabels)'
      BY <1>9, <1>12, <3>2, Zenon DEF Handles, TickLabels
    <3> QED BY <1>12, <3>3, Zenon DEF Due
  <2> QED BY <2>1, <2>2, <2>3, <2>4, Zenon DEF Due
<1>15. /\ Handles(t, RunLabels)' => Handles(t, RunLabels)
       /\ Handles(t, SwitchLabels)' => Handles(t, SwitchLabels)
  <2>1. /\ RunLabels \cap TickLabels = {} /\ RunLabels \cap {"syscall_handler"} = {}
        /\ SwitchLabels \cap TickLabels = {} /\ SwitchLabels \cap {"syscall_handler"} = {}
    BY DEF RunLabels, SwitchLabels, TickLabels
  <2> QED BY <1>13, <2>1, Zenon
<1>16. /\ Handles(t, RunLabels)' => pending_syscalls' \subseteq {TickRecord}
       /\ Handles(t, SwitchLabels)' => taken' = {}
  BY <1>1, <1>3, <1>5, <1>15, Zenon DEF RecordInv
<1>17. active' \in Tasks => active' \in runnable'
  BY <1>1, Zenon DEF RecordInv
<1> QED BY <1>1, <1>2, <1>3, <1>9, <1>11, <1>14, <1>16, <1>17, CallStep, Zenon

\* The handler returns to where the thread was.
LEMMA ReturnCalls ==
  ASSUME Inv, OpenMasks, RecordInv, NEW t \in Threads, handler_return(t)
  PROVE  OpenMasks' /\ RecordInv'
<1>1. /\ At(t, "return") \/ At(t, "tick_return")
      /\ frames' = [frames EXCEPT ![t] = Tail(@)]
      /\ mask' = [mask EXCEPT ![t] = Head(frames[t]).mask]
      /\ UNCHANGED <<pending, pending_syscalls, taken, runnable, active, request>>
  BY Zenon DEF handler_return, Runs, kernelVars, taskVars
<1>2. t \in TaskThreads /\ Exists(t) /\ Live(t) /\ Top(t) \in {"return", "tick_return"}
  BY <1>1, CallLabels, AtTop, Zenon
<1>3. Types /\ StackShape
  BY Zenon DEF Inv
<1>4. /\ \A u \in Threads \ {t} : frames'[u] = frames[u]
      /\ frames'[t] # <<>> /\ frames'[t][1] = frames[t][2] /\ Len(frames[t]) > 1
      /\ frames'[t][1].at \notin BlockedLabels \cup TickLabels
      /\ frames'[t][1].at \in HandlerLabels => Top(t) \in TickLabels
  BY <1>1, <1>2, <1>3, PoppedShape, Zenon
<1>5. /\ mask'[t] = frames[t][1].mask /\ \A u \in Threads \ {t} : mask'[u] = mask[u]
  <2>1. Head(frames[t]) = frames[t][1]
    BY <1>2, <1>3, HeadIsFirst, Zenon DEF Types, Exists
  <2> QED BY <1>1, <1>3, <2>1, Zenon DEF Types
<1>6. Bottom(t)' = Bottom(t) /\ BottomMask(t)' = BottomMask(t)
  <2> DEFINE f == frames[t]
             g == Tail(f)
             n == Len(f)
  <2>1. f \in Seq(FrameType) /\ f # <<>> /\ n \in Nat /\ n > 1
    <3>1. f \in Seq(FrameType) /\ f # <<>> /\ Len(f) > 1
      BY <1>2, <1>3, <1>4, Zenon DEF Types, Exists
    <3> QED BY <3>1
  <2>2. Len(g) = n - 1 /\ \A i \in 1..(n - 1) : g[i] = f[i + 1]
    BY <2>1
  <2>3. frames'[t] = g
    BY <1>1, <1>3, Zenon DEF Types
  <2> HIDE DEF f, g
  <2>4. n - 1 \in 1..(n - 1) /\ (n - 1) + 1 = n /\ n # 1
    BY <2>1
  <2>5. g[n - 1] = f[n]
    BY <2>2, <2>4, Zenon
  <2>6. Bottom(t)' = Bottom(t)
    BY <2>2, <2>3, <2>5, Zenon DEF Bottom, f
  <2>7. CASE n - 1 = 1
    BY <1>5, <2>2, <2>3, <2>4, <2>6, <2>7, Zenon DEF BottomMask, f
  <2>8. CASE n - 1 # 1
    <3>0. \A m \in Nat : m > 1 /\ m - 1 # 1 =>
            (m - 1) - 1 \in 1..(m - 1) /\ ((m - 1) - 1) + 1 = m - 1
      OBVIOUS
    <3>1. (n - 1) - 1 \in 1..(n - 1) /\ ((n - 1) - 1) + 1 = n - 1
      BY <2>1, <2>8, <3>0, Zenon
    <3>2. g[(n - 1) - 1] = f[n - 1]
      BY <2>2, <3>1, Zenon
    <3>3. BottomMask(t)' = g[(n - 1) - 1].mask
      BY <2>2, <2>3, <2>8, Zenon DEF BottomMask
    <3>4. BottomMask(t) = f[n - 1].mask
      BY <2>4, Zenon DEF BottomMask, f
    <3> QED BY <2>6, <3>2, <3>3, <3>4, Zenon
  <2> QED BY <2>7, <2>8, Zenon
<1>7. \A u \in TaskThreads \ {t} : ~Live(u) /\ frames'[u] = frames[u] /\ mask'[u] = mask[u]
  BY <1>2, <1>4, <1>5, OthersRest, Zenon DEF TaskThreads, Threads
<1>8. Exists(t)' /\ Top(t)' = frames[t][2].at /\ Live(t)'
  <2>1. Exists(t)' /\ Top(t)' = frames[t][2].at
    BY <1>4, Zenon DEF Exists, Top
  <2> QED BY <1>4, <2>1, Zenon DEF Live, Top, BlockedLabels, WaitLabels, StoppedLabels
<1>9. ASSUME t \in Tasks, t \in pending_syscalls \cup taken PROVE Due(t)'
  <2>1. Due(t)
    BY <1>2, <1>9, LiveDue, Zenon
  <2>2. CASE Handles(t, DueLabels)
    <3>1. frames[t][2].at \in DueLabels
      BY <1>2, <2>2, Zenon DEF Handles, DueLabels
    <3> QED BY <1>8, <3>1, Zenon DEF Due, Handles
  <2> QED BY <1>1, <1>6, <1>8, <2>1, <2>2, Zenon DEF Due
<1>10. ASSUME NEW S, S \subseteq SwitchLabels \cup {"run"} PROVE Handles(t, S)' => Handles(t, S)
  <2>1. ASSUME Handles(t, S)' PROVE Handles(t, S)
    <3>1. Top(t)' \in S
      BY <1>4, <2>1, Zenon DEF Handles, Top
    <3>2. Top(t)' \in HandlerLabels
      BY <1>4, <1>10, <3>1, Zenon DEF Top, SwitchLabels, BlockedLabels, HandlerLabels
    <3>3. Top(t) \in TickLabels
      BY <1>4, <3>2, Zenon DEF Top
    <3> QED BY <1>4, <1>8, <3>1, <3>3, Zenon DEF Handles
  <2> QED BY <2>1, Zenon
<1>11. /\ Handles(t, RunLabels)' => pending_syscalls' \subseteq {TickRecord}
       /\ Handles(t, SwitchLabels)' => taken' = {}
  <2>1. /\ Handles(t, RunLabels)' => Handles(t, RunLabels)
        /\ Handles(t, SwitchLabels)' => Handles(t, SwitchLabels)
    BY <1>10, Zenon DEF RunLabels
  <2> QED BY <1>1, <1>2, <2>1, Zenon DEF RecordInv
<1>12. active' \in Tasks => active' \in runnable'
  BY <1>1, Zenon DEF RecordInv
<1> QED BY <1>1, <1>2, <1>6, <1>7, <1>9, <1>11, <1>12, CallStep, Zenon

\* rt_start leaves the tasks alone, and discards signals only after rt_stop.
LEMMA StartCalls ==
  ASSUME Inv, StopInv, OpenMasks, RecordInv, rt_start
  PROVE  OpenMasks' /\ RecordInv'
<1>1. /\ UNCHANGED <<pending_syscalls, taken, runnable, active, request>>
      /\ Main \in Threads /\ Idle \in Threads /\ Main # Idle /\ Types /\ Exists(Main)
      /\ Len(frames[Main]) = 1
  <2>1. Exists(Main)
    BY DEF Inv, MainRuns, Exists
  <2> QED BY <2>1, PthreadAssumption, Zenon
          DEF rt_start, kernelVars, taskVars, Threads, Inv, MainRuns
<1>2. \A u \in Tasks : frames'[u] = frames[u] /\ mask'[u] = mask[u]
  <2>1. \A u \in Tasks : u \in Threads \ {Main, Idle}
    BY PthreadAssumption, Zenon DEF Threads
  <2>2. \A u \in Tasks : mask'[u] = mask[u]
    BY <1>1, <2>1, Zenon DEF rt_start, rt_start_create, rt_start_kill, rt_start_stop,
       rt_start_ignore, rt_start_return, Unblock, Types
  <2>3. CASE rt_start_create
    <3>1. /\ frames' = [Moved(Main, "start_resume") EXCEPT ![Idle] = NewThread(Idle)]
          /\ "start_resume" \in Labels
      BY <2>3, Zenon DEF rt_start_create, Labels, MainLabels
    <3>2. \A v \in Threads \ {Main, Idle} : frames'[v] = frames[v]
      BY <1>1, <3>1, CreatedFrames, ZenonT(40)
    <3> QED BY <2>1, <2>2, <3>2, Zenon
  <2>4. CASE rt_start_kill \/ rt_start_stop \/ rt_start_ignore \/ rt_start_return
    <3>1. PICK l \in MainLabels : frames' = Moved(Main, l)
      BY <2>4, Zenon DEF rt_start_kill, rt_start_stop, rt_start_ignore, rt_start_return,
         Goto, MainLabels
    <3>2. \A v \in Threads \ {Main} : frames'[v] = frames[v]
      BY <1>1, <3>1, MovedFrames, Zenon DEF Labels
    <3> QED BY <2>1, <2>2, <3>2, Zenon
  <2> QED BY <2>3, <2>4, Zenon DEF rt_start
<1>3. frames'[Idle] = frames[Idle] \/ ~Live(Idle)'
  <2>1. CASE rt_start_create
    <3>1. /\ frames' = [Moved(Main, "start_resume") EXCEPT ![Idle] = NewThread(Idle)]
          /\ "start_resume" \in Labels
      BY <2>1, Zenon DEF rt_start_create, Labels, MainLabels
    <3>2. frames'[Idle][1].at = "pthread_fn"
      BY <1>1, <3>1, CreatedFrames, ZenonT(40)
    <3> QED BY <3>2, Zenon DEF Live, Top, WaitLabels
  <2>2. CASE rt_start_kill \/ rt_start_stop \/ rt_start_ignore \/ rt_start_return
    <3>1. PICK l \in MainLabels : frames' = Moved(Main, l)
      BY <2>2, Zenon DEF rt_start_kill, rt_start_stop, rt_start_ignore, rt_start_return,
         Goto, MainLabels
    <3> QED BY <1>1, <3>1, MovedFrames, Zenon DEF Labels
  <2> QED BY <2>1, <2>2, Zenon DEF rt_start
<1>4. ASSUME NEW u \in Tasks, Due(u) PROVE "SIGSYSCALL" \in pending[u] => "SIGSYSCALL" \in pending'[u]
  <2>0. u \in Threads /\ u \in TaskThreads /\ u # Main /\ Live(u)
    BY <1>4, PthreadAssumption, Zenon DEF Threads, TaskThreads, Due
  <2>1. CASE rt_start_create \/ rt_start_return
    BY <2>1, Zenon DEF rt_start_create, rt_start_return
  <2>2. CASE rt_start_kill
    BY <1>1, <2>0, <2>2, Zenon DEF rt_start_kill, pthread_kill, Types
  <2>3. CASE rt_start_stop
    BY <1>1, <2>0, <2>3, Zenon DEF rt_start_stop, Types
  <2>4. CASE rt_start_ignore
    <3>1. Top(Main) = "ignore"
      BY <1>1, <2>4, HeadIsFirst, Zenon DEF rt_start_ignore, Runs, At, Top, Types
    <3>2. \E v \in Tasks : Stopped(v)
      BY <3>1, Zenon DEF StopInv
    <3> QED BY <2>0, <3>2, Zenon DEF Inv, StartStop, TaskThreads
  <2> QED BY <2>1, <2>2, <2>3, <2>4, Zenon DEF rt_start
<1>5. OpenMasks'
  BY <1>2, Zenon DEF OpenMasks, Exists, Bottom, BottomMask
<1>6. ASSUME NEW u \in Tasks
      PROVE  (Stopped(u) => Stopped(u)') /\ (Due(u) => Due(u)')
  BY <1>2, <1>4, Zenon DEF Stopped, Due, Live, Exists, Top, Bottom, Handles
<1>7. ASSUME NEW u \in TaskThreads, Live(u)' PROVE frames'[u] = frames[u]
  BY <1>2, <1>3, <1>7, Zenon DEF TaskThreads
<1>8. ASSUME NEW u \in TaskThreads, Live(u)'
      PROVE  /\ Handles(u, RunLabels)' => pending_syscalls' \subseteq {TickRecord}
             /\ Handles(u, SwitchLabels)' => taken' = {}
  BY <1>1, <1>7, <1>8, Zenon DEF RecordInv, Live, Handles, Exists, Top
<1> QED BY <1>1, <1>5, <1>6, <1>8, Zenon DEF RecordInv

\* Every step keeps the two invariants.
LEMMA CallsKept == Inv /\ StopInv /\ OpenMasks /\ RecordInv /\ [Next]_vars => OpenMasks' /\ RecordInv'
<1> SUFFICES ASSUME Inv, StopInv, OpenMasks, RecordInv, [Next]_vars PROVE OpenMasks' /\ RecordInv'
  BY Zenon
<1>1. CASE UNCHANGED vars \/ TimerExpires
  <2>1. UNCHANGED <<mask, pending, frames, pending_syscalls, taken, runnable, active, request>>
    BY <1>1, Zenon DEF TimerExpires, vars, signalVars, kernelVars, taskVars
  <2>2. OpenMasks'
    BY <2>1, Zenon DEF OpenMasks, Exists, Bottom, BottomMask
  <2>3. \A t : /\ (Live(t)' <=> Live(t)) /\ (Stopped(t)' <=> Stopped(t)) /\ (Due(t)' <=> Due(t))
               /\ \A S : Handles(t, S)' <=> Handles(t, S)
    BY <2>1, Zenon DEF Live, Stopped, Due, Handles, Exists, Top, Bottom
  <2> QED BY <2>1, <2>2, <2>3, Zenon DEF RecordInv
<1>2. ASSUME NEW t \in Threads, ThreadStep(t) PROVE OpenMasks' /\ RecordInv'
  <2>1. CASE rt_syscall(t)
    <3>1. At(t, "push")
      BY <2>1, Zenon DEF rt_syscall, Runs
    <3>2. t \in Tasks
      BY <3>1, CallLabels, AtTop, Zenon
    <3> QED BY <2>1, <3>2, TaskCalls, Zenon
  <2> QED BY <1>2, <2>1, DeliverCalls, ReturnCalls, ResumeCalls, PendCalls, StopCalls, TickCalls,
             HandlerCalls, Zenon DEF ThreadStep
<1>3. ASSUME NEW t \in Tasks, TaskCall(t) PROVE OpenMasks' /\ RecordInv'
  BY <1>3, TaskCalls, CreateCalls, Zenon DEF TaskCall
<1> QED BY <1>1, <1>2, <1>3, IdleCalls, StartCalls, Zenon DEF Next

\* They hold at first: the tasks that have been created cannot run yet.
LEMMA CallsBegin == Init => OpenMasks /\ RecordInv
<1> SUFFICES ASSUME Init PROVE OpenMasks /\ RecordInv
  BY Zenon
<1>1. /\ pending_syscalls = Created /\ taken = {} /\ runnable = {} /\ active = Idle
      /\ request = [t \in Tasks |-> "ready"]
      /\ frames = [t \in Threads |-> IF t = Main THEN <<Frame("start", {})>>
                                     ELSE IF t \in Created THEN NewThread(t) ELSE <<>>]
  BY Zenon DEF Init
<1>2. ASSUME NEW t \in TaskThreads, Exists(t)
      PROVE  Len(frames[t]) = 1 /\ Top(t) = "pthread_fn"
  <2>1. t \in Threads /\ t # Main
    BY NotMain, Zenon DEF TaskThreads, Threads
  <2>2. frames[t] = NewThread(t)
    BY <1>1, <1>2, <2>1, Zenon DEF Exists
  <2> QED BY <2>2 DEF NewThread, Frame, Top
<1>3. OpenMasks
  <2>1. ASSUME NEW t \in Tasks, Exists(t) PROVE Bottom(t) \notin OpenLabels
    <3>1. Len(frames[t]) = 1 /\ Top(t) = "pthread_fn"
      BY <1>2, <2>1, Zenon DEF TaskThreads
    <3> QED BY <3>1, Zenon DEF Bottom, Top, OpenLabels
  <2> QED BY <2>1, Zenon DEF OpenMasks
<1>4. \A t \in TaskThreads : ~Live(t)
  BY <1>2, Zenon DEF Live, WaitLabels
<1>5. \A t \in Tasks : request[t] = "ready" /\ t \notin runnable
  BY <1>1, Zenon
<1>6. active \notin Tasks
  BY <1>1, PthreadAssumption, Zenon
<1> QED BY <1>3, <1>4, <1>5, <1>6, Zenon DEF RecordInv

\* However many tasks, calls and ticks there are, the system call a task makes has been run
\* when the call returns (syscall.h:73), whoever has run in the meantime.
THEOREM CallsRunBeforeReturn == Spec => []RunsBeforeReturn
<1>1. Inv /\ OpenMasks /\ RecordInv => RunsBeforeReturn
  <2> SUFFICES ASSUME Inv, OpenMasks, RecordInv, NEW t \in Tasks, InTask(t), At(t, "task")
               PROVE  t \notin pending_syscalls \cup taken
    BY Zenon DEF RunsBeforeReturn
  <2>1. Runs(t, "task")
    BY Zenon DEF Runs, InTask
  <2> QED BY <2>1, TaskHasNoRecord, Zenon
<1> QED BY <1>1, StopBegins, StopKept, CallsBegin, CallsKept, SpecInv, PTL DEF Spec


=============================================================================
