------------------------------ MODULE MCQueue -------------------------------
(* Small queues and what their callers do.                                 *)
EXTENDS Queue, TLC

CONSTANTS a, b, c

\* Callers that push and pop, one that peeks while another pops, one pusher with
\* two poppers, and timed calls with and without ticks.
Uses ==
  {(a :> <<"push", "push", "pop">>) @@ (b :> <<"push", "pop">>) @@ (c :> <<"trypop">>),
   (a :> <<"push", "pop">>) @@ (b :> <<"push", "pop">>) @@ (c :> <<"trypush", "trypop">>),
   (a :> <<"push", "push">>) @@ (b :> <<"peek", "trypop">>) @@ (c :> <<"trypeek", "pop">>),
   (a :> <<"push", "push", "push", "push">>) @@ (b :> <<"pop", "trypop", "pop">>)
     @@ (c :> <<"trypop", "pop">>),
   (a :> <<"push", "push", "timedpush0">>) @@ (b :> <<"timedpop0", "timedpush">>)
     @@ (c :> <<"timedpop", "timedpeek0">>)}

ShortUses ==
  {(a :> <<"push", "pop">>) @@ (b :> <<"push">>) @@ (c :> <<"pop", "push">>),
   (a :> <<"push">>) @@ (b :> <<"push", "pop">>) @@ (c :> <<"peek">>)}

AllUses == Uses \cup ShortUses

PeekThenPop == {a :> <<"push", "push", "peek", "pop">>}

\* The tasks of examples/queue.c, with fewer elements.
ExampleTasks ==
  {(a :> <<"push", "push", "push">>) @@ (b :> <<"push", "push", "push">>)
     @@ (c :> <<"pop", "pop", "pop", "pop", "pop", "pop">>)}

Equal == [p \in Callers |-> 1]
CFirst == [p \in Callers |-> IF p = c THEN 2 ELSE 1]
=============================================================================
