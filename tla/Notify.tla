------------------------------- MODULE Notify -------------------------------
(***************************************************************************)
(* Notifications (src/src/notify.c): a value and a binary semaphore.  Any  *)
(* task or interrupt notifies; one task waits.                             *)
(***************************************************************************)
EXTENDS Monitors, Bitwise

CONSTANT NoteMod   \* 2^w for the width w of the value, 32 in the code

VARIABLES
  note,    \* rt_notify.value
  got,     \* what the last wait that was not false has returned
  unseen   \* history: the updates since the waiter last read the value

noteVars == <<note, got, unseen>>

rt_notify_init(v) == note = v /\ got = v /\ unseen = 0

rt_notify == Step("sem_post", "note")

\* Mutant: the semaphore is posted to first.
rt_notify_or_late(v) == <<rt_notify, StepN("note_or", "note", v)>>

rt_notify_or(v) == <<StepN("note_or", "note", v), rt_notify>>
rt_notify_add(v) == <<StepN("note_add", "note", v), rt_notify>>
rt_notify_set(v) == <<StepN("note_set", "note", v), rt_notify>>

rt_notify_wait_clear(clear) ==
  <<Step("sem_wait", "note"), StepN("note_get", "note", clear)>>
rt_notify_trywait_clear(clear) ==
  <<Step("sem_trywait", "note"), StepN("note_get", "note", clear)>>
rt_notify_timedwait_clear(clear, ticks) ==
  <<StepN("sem_timedwait", "note", ticks), StepN("note_get", "note", clear)>>

\* The forms without clear load the value: they clear nothing.
rt_notify_wait == rt_notify_wait_clear(0)
rt_notify_trywait == rt_notify_trywait_clear(0)
rt_notify_timedwait(ticks) == rt_notify_timedwait_clear(0, ticks)

\* The atomic update by the notifier.
note_update(t) ==
  /\ \/ At(t, "note_or") /\ note' = note | ArgOf(t)
     \/ At(t, "note_add") /\ note' = (note + ArgOf(t)) % NoteMod
     \/ At(t, "note_set") /\ note' = ArgOf(t)
  /\ Return(t)
  /\ unseen' = unseen + 1
  /\ UNCHANGED got

\* The waiter fetches the value and clears bits of it, unless its wait failed.
note_get(t) ==
  /\ At(t, "note_get")
  /\ IF result[t]
     THEN /\ got' = note /\ note' = note - (note & ArgOf(t))
          /\ unseen' = 0
     ELSE UNCHANGED noteVars
  /\ Return(t)

NotifyStep(t) ==
  /\ note_update(t) \/ note_get(t)
  /\ UNCHANGED <<sem, result, monitorVars>>

=============================================================================
