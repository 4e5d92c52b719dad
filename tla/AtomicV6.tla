------------------------------ MODULE AtomicV6 ------------------------------
(***************************************************************************)
(* The atomic operations of armv6-m (arch/arm/m/atomic-v6.c), which has no *)
(* exclusive loads and stores: each masks interrupts around a load and a   *)
(* store.  Tasks and an interrupt handler share one word.                  *)
(***************************************************************************)
EXTENDS Integers

CONSTANTS
  Tasks, Isr,
  Idle,      \* the task that runs first
  Droppers,  \* the tasks that drop their privilege
  WordBits   \* the width of the word

ASSUME AtomicAssumption ==
  /\ Idle \in Tasks /\ Isr \notin Tasks /\ Droppers \subseteq Tasks
  /\ WordBits \in Nat \ {0}

Actors == Tasks \cup {Isr}
Words == 0..(2^WordBits - 1)

VARIABLES
  active,       \* the task that runs
  interrupted,  \* whether an interrupt handler runs
  word,      \* the word that they share
  primask,   \* whether interrupts are masked
  masked,    \* the actors that have masked interrupts themselves
  dropped,   \* the tasks that have dropped their privilege
  at,        \* where each actor is in an operation
  mask, old, \* its variables of these names
  new        \* what it stores

operationVars == <<word, primask, masked, dropped, at, mask, old, new>>
atomicVars == <<active, interrupted, word, primask, masked, dropped, at, mask, old, new>>

AtomicInit ==
  /\ active = Idle /\ interrupted = FALSE
  /\ word = 0 /\ primask = FALSE /\ masked = {} /\ dropped = {}
  /\ at = [x \in Actors |-> "out"] /\ mask = [x \in Actors |-> FALSE]
  /\ old = [x \in Actors |-> 0] /\ new = [x \in Actors |-> 0]

\* What the operations leave in a word that was o.
exchange(o, val) == val

fetch_add(o, val) == (o + val) % 2^WordBits
fetch_sub(o, val) == (o - val) % 2^WordBits

Bit(o, i) == (o \div 2^i) % 2
Bitwise2(o, val, op(_, _)) ==
  CHOOSE w \in Words : \A i \in 0..(WordBits - 1) : Bit(w, i) = op(Bit(o, i), Bit(val, i))

fetch_and(o, val) == Bitwise2(o, val, LAMBDA x, y : x * y)
fetch_or(o, val) == Bitwise2(o, val, LAMBDA x, y : IF x + y = 0 THEN 0 ELSE 1)
compare_exchange(o, val, exp) == IF o = exp THEN val ELSE o

Results(o) ==
  UNION {{exchange(o, val), fetch_add(o, val), fetch_sub(o, val), fetch_and(o, val),
          fetch_or(o, val)} : val \in Words} \cup
  {compare_exchange(o, val, exp) : val \in Words, exp \in Words}

Step(x, from, to) == at[x] = from /\ at' = [at EXCEPT ![x] = to]

\* mrs primask,
disable_read(x) ==
  /\ Step(x, "out", "cpsid")
  /\ mask' = [mask EXCEPT ![x] = primask]
  /\ UNCHANGED <<word, primask, masked, dropped, old, new>>

\* Mutant: the interrupt mask is left alone.
cpsid_not(x) == UNCHANGED primask

\* which an unprivileged task cannot change.
cpsid(x) == primask' = (primask \/ x \notin dropped)

disable_set(x) ==
  /\ Step(x, "cpsid", "load")
  /\ cpsid(x)
  /\ UNCHANGED <<word, masked, dropped, mask, old, new>>

load(x) ==
  /\ Step(x, "load", "store")
  /\ old' = [old EXCEPT ![x] = word]
  /\ \E result \in Results(word) : new' = [new EXCEPT ![x] = result]
  /\ UNCHANGED <<word, primask, masked, dropped, mask>>

store(x) ==
  /\ Step(x, "store", "restore")
  /\ word' = new[x]
  /\ UNCHANGED <<primask, masked, dropped, mask, old, new>>

\* Mutant: interrupts are enabled whatever they were.
restored_mask_off(x) == FALSE

restored_mask(x) == mask[x]

restore(x) ==
  /\ Step(x, "restore", "out")
  /\ primask' = IF x \in dropped THEN primask ELSE restored_mask(x)
  /\ mask' = [mask EXCEPT ![x] = FALSE]
  /\ old' = [old EXCEPT ![x] = 0] /\ new' = [new EXCEPT ![x] = 0]
  /\ UNCHANGED <<word, masked, dropped>>

\* An application masks interrupts around several operations.
MaskInterrupts(x) ==
  /\ at[x] = "out" /\ x \notin dropped
  /\ primask' = (x \notin masked)
  /\ masked' = IF x \in masked THEN masked \ {x} ELSE masked \cup {x}
  /\ UNCHANGED <<word, dropped, at, mask, old, new>>

Operation(x) ==
  disable_read(x) \/ disable_set(x) \/ load(x) \/ store(x) \/ restore(x) \/ MaskInterrupts(x)

-----------------------------------------------------------------------------
(* Who runs.  The processor takes neither an interrupt nor the system call *)
(* handler, which switches to another task, while interrupts are masked.   *)

Runner == IF interrupted THEN Isr ELSE active

Operate == Operation(Runner) /\ UNCHANGED <<active, interrupted>>

\* An interrupt begins or ends.
Interrupt ==
  /\ IF interrupted THEN at[Isr] = "out" /\ Isr \notin masked ELSE ~primask
  /\ interrupted' = ~interrupted
  /\ UNCHANGED <<active, operationVars>>

Switch(t) ==
  /\ ~interrupted /\ ~primask
  /\ active' = t
  /\ UNCHANGED <<interrupted, operationVars>>

Drop(t) ==
  /\ Runner = t /\ t \in Droppers /\ at[t] = "out" /\ ~primask
  /\ dropped' = dropped \cup {t}
  /\ UNCHANGED <<active, interrupted, word, primask, masked, at, mask, old, new>>

AtomicNext == Operate \/ Interrupt \/ \E t \in Tasks : Switch(t) \/ Drop(t)

AtomicSpec == AtomicInit /\ [][AtomicNext]_atomicVars

-----------------------------------------------------------------------------
(* Properties.                                                             *)

\* What an operation loads is still there when it stores: neither another task nor an
\* interrupt has changed the word (atomic-v6.c:40), even one whose own operations are
\* not atomic because it has dropped its privilege.
ReadModifyWriteAtomic == \A x \in Actors \ dropped : at[x] = "store" => word = old[x]

\* Outside of the operations interrupts are masked if and only if whoever runs has
\* masked them: an operation neither enables interrupts early nor leaves them masked.
MaskRestored == at[Runner] = "out" => (primask <=> Runner \in masked)

=============================================================================
