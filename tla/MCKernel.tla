------------------------------ MODULE MCKernel ------------------------------
(* Small instances of Kernel for TLC: tasks a, b, c and semaphores s1, s2. *)
EXTENDS KernelProperties, TLC

CONSTANTS a, b, c, s1, s2

\* Priorities of the tasks; the idle task has priority 0.
Pri12 == (Idle :> 0) @@ (a :> 1) @@ (b :> 2)
Pri11 == (Idle :> 0) @@ (a :> 1) @@ (b :> 1)
Pri112 == Pri11 @@ (c :> 2)

CreateAB == <<a, b>>

ZeroCount == [s \in Sems |-> 0]
NoMax == [s \in Sems |-> 100]           \* rt_sem_init
CondAndMutex == (s1 :> 0) @@ (s2 :> 1)  \* rt_cond_init, rt_sem_init_binary

WaitPost == [t \in Tasks |-> {"wait", "post"}]
TimedWaitPost == (a :> {"timedwait", "wait"}) @@ (b :> {"timedwait", "post"})
Lifecycle == (a :> {"init", "yield"}) @@ (b :> {"exit", "sleep_periodic"})
             @@ (c :> {"sleep", "exit"})
Live == (a :> {"wait", "trywait", "sleep"}) @@ (b :> {"timedwait", "post"})
=============================================================================
