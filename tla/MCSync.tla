------------------------------- MODULE MCSync -------------------------------
(* What three tasks do with the synchronisation objects.                   *)
EXTENDS Sync

CONSTANTS ta, tb, tc

Use(n, ofA, ofB, ofC) ==
  [count |-> n, todo |-> (ta :> ofA) @@ (tb :> ofB) @@ (tc :> ofC)]

Water ==
  {Use(3, <<Op("h_sem")>>, <<Op("h_sem")>>, <<Op("o_sem")>>),
   Use(3, <<Op("h_cond")>>, <<Op("h_cond")>>, <<Op("o_cond")>>),
   Use(3, <<Op("h_barrier")>>, <<Op("h_barrier")>>, <<Op("o_barrier")>>)}

Others ==
  {Use(2, <<Op("meet")>>, <<Op("meet")>>, <<Op("meet")>>),
   Use(2, increment_lock, increment_trylock, increment_timedlock),
   Use(2, put \o put, get \o get, get),
   Use(2, reader, writer, reader \o reader),
   Use(2, reader \o writer, writer \o reader, reader \o writer),
   Use(2, <<Op("once"), Op("use"), Op("once"), Op("use")>>,
       <<Op("once"), Op("use")>>, <<Op("once"), Op("use")>>),
   Use(2, rt_notify_or(1) \o rt_notify_add(2), <<rt_notify>> \o rt_notify_set(3),
       rt_notify_wait_clear(1) \o rt_notify_timedwait_clear(2, 1) \o rt_notify_trywait)}

AllUses == Water \cup Others

TimedGet == {Use(2, put, get, get)}

\* Oxygen has priority 2, hydrogen 1 (water.c).
Pri112 == (ta :> 1) @@ (tb :> 1) @@ (tc :> 2)
=============================================================================
