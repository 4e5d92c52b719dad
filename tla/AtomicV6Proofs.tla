--------------------------- MODULE AtomicV6Proofs ---------------------------
(***************************************************************************)
(* The operations of AtomicV6 are atomic, for any number of tasks and any  *)
(* width of the word.  That the word is unchanged between load and store   *)
(* is not inductive: it holds because whoever is between disable and       *)
(* restore runs and has interrupts masked, so that nobody else can run.    *)
(***************************************************************************)
EXTENDS AtomicV6, TLAPS

Inside(x) == at[x] \in {"load", "store", "restore"}

Shape ==
  /\ active \in Tasks /\ interrupted \in BOOLEAN
  /\ dropped \subseteq Tasks
  /\ at \in [Actors -> {"out", "cpsid", "load", "store", "restore"}]
  /\ old = [x \in Actors |-> old[x]]

\* An actor with privilege that is inside of an operation runs, with interrupts masked.
InsideRunsMasked ==
  \A x \in Actors \ dropped : Inside(x) => primask /\ x = Runner

Inv == Shape /\ InsideRunsMasked /\ ReadModifyWriteAtomic

-----------------------------------------------------------------------------
\* The invariant holds before any operation.
LEMMA InitInv == AtomicInit => Inv
  BY AtomicAssumption, Zenon
     DEF AtomicInit, Inv, Shape, InsideRunsMasked, ReadModifyWriteAtomic, Inside, Actors

\* Whoever runs is an actor.
LEMMA RunnerIsActor == Shape => Runner \in Actors
  BY DEF Shape, Runner, Actors

\* A step of an operation moves only the one who runs, which leaves nobody else inside.
LEMMA OperateInv == Inv /\ Operate => Inv'
<1> SUFFICES ASSUME Inv, Operate PROVE Inv'
  OBVIOUS
<1> DEFINE x == Runner
<1>1. x \in Actors /\ x' = x
  BY RunnerIsActor DEF Inv, Operate, Runner
<1>2. \A y \in Actors \ dropped : y # x => ~Inside(y)
  BY DEF Inv, InsideRunsMasked
<1> HIDE DEF x
<1>3. CASE disable_read(x)
  BY <1>1, <1>2, <1>3
     DEF Inv, Shape, InsideRunsMasked, ReadModifyWriteAtomic, Inside, disable_read, Step,
         Operate, x
<1>4. CASE disable_set(x)
  BY <1>1, <1>2, <1>4, Zenon
     DEF Inv, Shape, InsideRunsMasked, ReadModifyWriteAtomic, Inside, disable_set, cpsid,
         Step, Operate, x
<1>5. CASE load(x)
  BY <1>1, <1>2, <1>5
     DEF Inv, Shape, InsideRunsMasked, ReadModifyWriteAtomic, Inside, load, Step, Operate, x
<1>6. CASE store(x)
  BY <1>1, <1>2, <1>6
     DEF Inv, Shape, InsideRunsMasked, ReadModifyWriteAtomic, Inside, store, Step, Operate, x
<1>7. CASE restore(x)
  BY <1>1, <1>2, <1>7
     DEF Inv, Shape, InsideRunsMasked, ReadModifyWriteAtomic, Inside, restore, Step,
         Operate, x
<1>8. CASE MaskInterrupts(x)
  BY <1>1, <1>2, <1>8
     DEF Inv, Shape, InsideRunsMasked, ReadModifyWriteAtomic, Inside, MaskInterrupts,
         Operate, x
<1>9. QED
  BY <1>3, <1>4, <1>5, <1>6, <1>7, <1>8 DEF Operate, Operation, x

\* An interrupt begins only when interrupts are not masked, and ends only when its
\* handler is in no operation: nobody is inside of one.
LEMMA InterruptInv == Inv /\ Interrupt => Inv'
  BY DEF Inv, Shape, InsideRunsMasked, ReadModifyWriteAtomic, Inside, Interrupt, Runner,
         operationVars, Actors

\* So do switches.
LEMMA SwitchInv == ASSUME NEW t \in Tasks, Inv, Switch(t) PROVE Inv'
  BY DEF Inv, Shape, InsideRunsMasked, ReadModifyWriteAtomic, Inside, Switch, Runner,
         operationVars, Actors

\* A task drops its privilege outside of operations.
LEMMA DropInv == ASSUME NEW t \in Tasks, Inv, Drop(t) PROVE Inv'
  BY DEF Inv, Shape, InsideRunsMasked, ReadModifyWriteAtomic, Inside, Drop, Runner, Actors

\* The operations of tasks and interrupts that have not dropped their privilege are
\* atomic (atomic-v6.c:35-172): nobody changes the word between their load and their
\* store.
THEOREM OperationsAreAtomic == AtomicSpec => []ReadModifyWriteAtomic
<1>1. Inv /\ [AtomicNext]_atomicVars => Inv'
  <2> SUFFICES ASSUME Inv, [AtomicNext]_atomicVars PROVE Inv'
    OBVIOUS
  <2>1. CASE UNCHANGED atomicVars
    BY <2>1 DEF Inv, Shape, InsideRunsMasked, ReadModifyWriteAtomic, Inside, Runner,
                atomicVars
  <2>2. CASE AtomicNext
    BY <2>2, OperateInv, InterruptInv, SwitchInv, DropInv DEF AtomicNext
  <2>3. QED
    BY <2>1, <2>2
<1>2. Inv => ReadModifyWriteAtomic
  BY DEF Inv
<1>3. QED
  BY InitInv, <1>1, <1>2, PTL DEF AtomicSpec

-----------------------------------------------------------------------------
(* That interrupts end up masked as they were rests on where the mask was  *)
(* read: only by whoever runs, and nobody else has masked them.            *)

MaskShape ==
  /\ primask \in BOOLEAN
  /\ mask \in [Actors -> BOOLEAN]

\* Only the one who runs can have masked interrupts, and not without privilege.
MaskedRuns == masked \subseteq {Runner} \ dropped

\* What was read is what the one who read it had set.
MaskRead == \A x \in Actors : at[x] # "out" => (mask[x] <=> x \in masked)

\* Until an operation masks interrupts they are as the one who runs has set them, and
\* a task without privilege never changes them.
MaskUnchanged ==
  at[Runner] \in {"out", "cpsid"} \/ Runner \in dropped => (primask <=> Runner \in masked)

MaskInv == Inv /\ MaskShape /\ MaskedRuns /\ MaskRead /\ MaskUnchanged

\* The steps of operations keep the invariant.
LEMMA OperateMaskInv == MaskInv /\ Operate => MaskInv'
<1> SUFFICES ASSUME MaskInv, Operate PROVE MaskInv'
  OBVIOUS
<1> DEFINE x == Runner
<1>1. x \in Actors /\ x' = x
  BY RunnerIsActor DEF MaskInv, Inv, Operate, Runner
<1>2. Inv'
  BY OperateInv DEF MaskInv
<1>3. masked \subseteq {x} \ dropped /\ MaskRead /\ MaskShape /\ Shape
      /\ (at[x] \in {"out", "cpsid"} \/ x \in dropped => (primask <=> x \in masked))
  BY DEF MaskInv, Inv, MaskedRuns, MaskUnchanged
<1> SUFFICES /\ MaskShape' /\ MaskRead'
             /\ masked' \subseteq {x} \ dropped'
             /\ (at'[x] \in {"out", "cpsid"} \/ x \in dropped'
                   => (primask' <=> x \in masked'))
  BY <1>1, <1>2 DEF MaskInv, MaskedRuns, MaskUnchanged
<1> HIDE DEF x
<1>4. CASE disable_read(x)
  BY <1>1, <1>3, <1>4 DEF MaskShape, MaskRead, Shape, disable_read, Step
<1>5. CASE disable_set(x)
  BY <1>1, <1>3, <1>5 DEF MaskShape, MaskRead, Shape, disable_set, cpsid, Step
<1>6. CASE load(x)
  BY <1>1, <1>3, <1>6 DEF MaskShape, MaskRead, Shape, load, Step
<1>7. CASE store(x)
  BY <1>1, <1>3, <1>7 DEF MaskShape, MaskRead, Shape, store, Step
<1>8. CASE restore(x)
  BY <1>1, <1>3, <1>8 DEF MaskShape, MaskRead, Shape, restore, restored_mask, Step
<1>9. CASE MaskInterrupts(x)
  BY <1>1, <1>3, <1>9, Zenon DEF MaskShape, MaskRead, Shape, MaskInterrupts
<1>10. QED
  BY <1>4, <1>5, <1>6, <1>7, <1>8, <1>9 DEF Operate, Operation, x

\* Nobody has masked interrupts when the one who runs changes.
LEMMA OtherMaskInv ==
  ASSUME MaskInv, Interrupt \/ \E t \in Tasks : Switch(t) \/ Drop(t)
  PROVE  MaskInv'
<1>1. Inv'
  BY InterruptInv, SwitchInv, DropInv DEF MaskInv
<1>2. CASE Interrupt
  BY <1>1, <1>2, AtomicAssumption
     DEF MaskInv, Inv, Shape, InsideRunsMasked, Inside, MaskShape, MaskedRuns, MaskRead,
         MaskUnchanged, Interrupt, Runner, operationVars, Actors
<1>3. ASSUME NEW t \in Tasks, Switch(t) PROVE MaskInv'
  BY <1>1, <1>3, AtomicAssumption
     DEF MaskInv, Inv, Shape, InsideRunsMasked, Inside, MaskShape, MaskedRuns, MaskRead,
         MaskUnchanged, Switch, Runner, operationVars, Actors
<1>4. ASSUME NEW t \in Tasks, Drop(t) PROVE MaskInv'
  BY <1>1, <1>4, AtomicAssumption
     DEF MaskInv, Inv, Shape, MaskShape, MaskedRuns, MaskRead, MaskUnchanged, Drop, Runner,
         Actors
<1>5. QED
  BY <1>2, <1>3, <1>4

\* Outside of operations interrupts are masked exactly if whoever runs has masked them
\* (disable and restore, atomic-v6.c:4-15).
THEOREM MaskIsRestored == AtomicSpec => []MaskRestored
<1>1. AtomicInit => MaskInv
  BY InitInv, AtomicAssumption, Zenon
     DEF AtomicInit, MaskInv, MaskShape, MaskedRuns, MaskRead, MaskUnchanged, Actors, Runner
<1>2. MaskInv /\ [AtomicNext]_atomicVars => MaskInv'
  <2> SUFFICES ASSUME MaskInv, [AtomicNext]_atomicVars PROVE MaskInv'
    OBVIOUS
  <2>1. CASE UNCHANGED atomicVars
    BY <2>1 DEF MaskInv, Inv, Shape, InsideRunsMasked, ReadModifyWriteAtomic, Inside,
                MaskShape, MaskedRuns, MaskRead, MaskUnchanged, Runner, atomicVars
  <2>2. CASE AtomicNext
    BY <2>2, OperateMaskInv, OtherMaskInv DEF AtomicNext
  <2>3. QED
    BY <2>1, <2>2
<1>3. MaskInv => MaskRestored
  BY DEF MaskInv, MaskUnchanged, MaskRestored
<1>4. QED
  BY <1>1, <1>2, <1>3, PTL DEF AtomicSpec

=============================================================================
