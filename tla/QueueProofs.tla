---------------------------- MODULE QueueProofs -----------------------------
(***************************************************************************)
(* Proof that the units of the semaphores of a queue and its slots agree,  *)
(* for any number of callers and slots and any use of them.  Callers whose *)
(* generations have come round may mistake one slot value for another, and *)
(* the argument does not depend on their never doing so.                   *)
(***************************************************************************)
EXTENDS Queue, FiniteSetTheorems, TLAPS

WriteLabels == {"push_load", "push_scan", "push_reload", "push_claim", "push_store",
                "push_copy", "push_publish", "push_restore", "pop_store", "pop_post"}
ReadLabels == {"pop_load", "pop_scan", "pop_reload", "pop_skip", "pop_claim", "pop_copy",
               "pop_free", "peek_release", "peek_post", "push_post"}
OwnLabels == {"push_store", "push_copy", "push_publish", "push_restore"}
Labels == WriteLabels \cup ReadLabels \cup {"idle"}

QueueTypes ==
  /\ push_sem \in Int /\ pop_sem \in Int /\ push_lost \in Int /\ pop_lost \in Int
  /\ enq \in Positions /\ deq \in Positions
  /\ slots \in [Indices -> Slots]
  /\ pc \in [Callers -> Labels]
  /\ q \in [Callers -> Positions] /\ last \in [Callers -> Positions]
  /\ s \in [Callers -> Slots]

\* A slot that a push has claimed is the push's own until it is published or given
\* up: poppers may mark it as skipped and no more.
OwnInv ==
  /\ \A p \in Callers : pc[p] \in OwnLabels => Unfinished(SlotOf(p))
  /\ \A p, r \in Callers :
       pc[p] \in OwnLabels /\ pc[r] \in OwnLabels /\ q[p].index = q[r].index => p = r

\* The state caller p expects its slot to have when it tries to change it.
Expects(p) ==
  /\ pc[p] = "push_claim" => s[p].state = "EMPTY"
  /\ pc[p] \in OwnLabels => Unfinished(s[p])
  /\ pc[p] = "pop_skip" => Unfinished(s[p])
  /\ pc[p] = "pop_claim" => Readable(s[p])
  /\ pc[p] \in {"pop_copy", "pop_free", "peek_release"} => s[p].state = "POP"

QueueInv ==
  QueueTypes /\ OwnInv /\ (\A p \in Callers : Expects(p)) /\ TokensMatchSlots

\* The units there are, and those that failed calls without ticks have taken.
PushUnits == push_sem + push_lost
PopUnits == pop_sem + pop_lost

Count(L) == Cardinality({p \in Callers : pc[p] \in L})

\* One if a caller at label l, or slot sl, counts, and zero otherwise.
Writes(l) == IF l \in WriteLabels THEN 1 ELSE 0
Reads(l) == IF l \in ReadLabels THEN 1 ELSE 0
Fills(sl) == IF Readable(sl) THEN 1 ELSE 0

-----------------------------------------------------------------------------
(* Counting.                                                               *)

\* Two finite sets that differ in x at most.
LEMMA OneElement ==
  ASSUME NEW A, NEW B, NEW x, IsFiniteSet(A), IsFiniteSet(B), A \ {x} = B \ {x}
  PROVE  /\ Cardinality(A) \in Nat /\ Cardinality(B) \in Nat
         /\ Cardinality(B) + (IF x \in A THEN 1 ELSE 0)
              = Cardinality(A) + (IF x \in B THEN 1 ELSE 0)
PROOF
<1>1. Cardinality(A) \in Nat /\ Cardinality(B) \in Nat
  BY FS_CardinalityType
<1>2. Cardinality(A \ {x}) = IF x \in A THEN Cardinality(A) - 1 ELSE Cardinality(A)
  BY FS_RemoveElement, Zenon
<1>3. Cardinality(B \ {x}) = IF x \in B THEN Cardinality(B) - 1 ELSE Cardinality(B)
  BY FS_RemoveElement, Zenon
<1> QED
  BY <1>1, <1>2, <1>3

\* When one caller goes from one label to another, only its own membership of the
\* set of callers at given labels changes.
LEMMA CallerMoves ==
  ASSUME NEW L, NEW p \in Callers,
         \A r \in Callers \ {p} : pc'[r] = pc[r]
  PROVE  /\ Count(L) \in Nat /\ Count(L)' \in Nat
         /\ Count(L)' + (IF pc[p] \in L THEN 1 ELSE 0)
              = Count(L) + (IF pc'[p] \in L THEN 1 ELSE 0)
PROOF
<1> DEFINE A == {r \in Callers : pc[r] \in L}
           B == {r \in Callers : pc'[r] \in L}
<1>1. IsFiniteSet(A) /\ IsFiniteSet(B)
  BY QueueAssumption, FS_Subset, A \in SUBSET Callers, B \in SUBSET Callers, Zenon
<1>2. A \ {p} = B \ {p}
  OBVIOUS
<1>3. (p \in A <=> pc[p] \in L) /\ (p \in B <=> pc'[p] \in L)
  OBVIOUS
<1>4. Count(L) = Cardinality(A) /\ Count(L)' = Cardinality(B)
  BY DEF Count
<1> HIDE DEF A, B
<1> QED
  BY <1>1, <1>2, <1>3, <1>4, OneElement

\* When one slot changes, only whether that slot can be read does.
LEMMA SlotChanges ==
  ASSUME NEW i \in Indices,
         \A j \in Indices \ {i} : slots'[j] = slots[j]
  PROVE  /\ Cardinality(Holding) \in Nat /\ Cardinality(Holding)' \in Nat
         /\ Cardinality(Holding)' + Fills(slots[i]) = Cardinality(Holding) + Fills(slots'[i])
PROOF
<1> DEFINE A == {j \in Indices : Readable(slots[j])}
           B == {j \in Indices : Readable(slots'[j])}
<1>0. IsFiniteSet(Indices)
  BY QueueAssumption, FS_Interval DEF Indices
<1>1. IsFiniteSet(A) /\ IsFiniteSet(B)
  BY <1>0, FS_Subset, A \in SUBSET Indices, B \in SUBSET Indices, Zenon
<1>2. A \ {i} = B \ {i}
  BY DEF Readable
<1>3. /\ Fills(slots[i]) = IF i \in A THEN 1 ELSE 0
      /\ Fills(slots'[i]) = IF i \in B THEN 1 ELSE 0
  BY DEF Fills, Readable
<1>4. Holding = A /\ Holding' = B
  BY DEF Holding, Readable
<1> HIDE DEF A, B
<1> QED
  BY <1>1, <1>2, <1>3, <1>4, OneElement

\* The callers TokensMatchSlots counts are those at the labels of two sets.
LEMMA TokensByLabel ==
  /\ TokensMatchSlots <=> /\ NumElems - Cardinality(Holding) = PushUnits + Count(WriteLabels)
                          /\ Cardinality(Holding) = PopUnits + Count(ReadLabels)
  /\ TokensMatchSlots' <=>
       /\ NumElems - Cardinality(Holding)' = PushUnits' + Count(WriteLabels)'
       /\ Cardinality(Holding)' = PopUnits' + Count(ReadLabels)'
PROOF
<1>1. /\ {p \in Callers : Pushing(p) \/ Freed(p)} = {p \in Callers : pc[p] \in WriteLabels}
      /\ {p \in Callers : Popping(p) \/ Filled(p)} = {p \in Callers : pc[p] \in ReadLabels}
  BY DEF Pushing, Freed, WriteLabels, Popping, Filled, ReadLabels
<1>2. /\ {p \in Callers : Pushing(p) \/ Freed(p)}' = {p \in Callers : pc'[p] \in WriteLabels}
      /\ {p \in Callers : Popping(p) \/ Filled(p)}' = {p \in Callers : pc'[p] \in ReadLabels}
  BY DEF Pushing, Freed, WriteLabels, Popping, Filled, ReadLabels
<1> QED
  BY <1>1, <1>2, Zenon DEF TokensMatchSlots, Count, PushUnits, PopUnits

-----------------------------------------------------------------------------
(* What the steps of a caller have in common.                              *)

\* Caller p changes no slot but the one it looks at, and nothing of the others.
Frame(p) ==
  /\ \A r \in Callers \ {p} : pc'[r] = pc[r] /\ q'[r] = q[r] /\ s'[r] = s[r]
  /\ \A j \in Indices \ {q[p].index} : slots'[j] = slots[j]

\* It makes an empty slot its own or keeps the one it has, and leaves a slot that is
\* another's unfinished.
OwnersKept(p) ==
  LET i == q[p].index
  IN /\ pc'[p] \in OwnLabels =>
          /\ q'[p] = q[p] /\ Unfinished(slots'[i])
          /\ pc[p] \in OwnLabels \/ slots[i].state = "EMPTY"
     /\ Unfinished(slots[i]) => Unfinished(slots'[i]) \/ pc[p] \in OwnLabels

\* For each unit it takes or gives back there is a slot it fills or frees.
Balances(p) ==
  LET i == q[p].index
  IN /\ PushUnits' + Writes(pc'[p]) + Fills(slots'[i])
          = PushUnits + Writes(pc[p]) + Fills(slots[i])
     /\ PopUnits' + Reads(pc'[p]) - Fills(slots'[i])
          = PopUnits + Reads(pc[p]) - Fills(slots[i])

CallerStep(p) == QueueTypes' /\ Frame(p) /\ OwnersKept(p) /\ Expects(p)' /\ Balances(p)

\* Such a step keeps the invariant.
LEMMA CallerStepKeeps ==
  ASSUME QueueInv, NEW p \in Callers, CallerStep(p)
  PROVE  QueueInv'
PROOF
<1> DEFINE i == q[p].index
<1>0. i \in Indices /\ (\A r \in Callers : q[r].index \in Indices /\ q'[r].index \in Indices)
  BY DEF QueueInv, QueueTypes, CallerStep, Frame, OwnersKept, Balances, Positions
<1>1. QueueTypes'
  BY DEF CallerStep, Frame, OwnersKept, Balances
<1>2. OwnInv'
  <2>1. ASSUME NEW r \in Callers, pc'[r] \in OwnLabels
        PROVE  Unfinished(slots'[q'[r].index])
    <3>1. CASE r = p
      BY <2>1, <3>1 DEF CallerStep, Frame, OwnersKept, Balances
    <3>2. CASE r # p
      <4>1. pc[r] \in OwnLabels /\ q'[r] = q[r] /\ Unfinished(slots[q[r].index])
        BY <2>1, <3>2
           DEF CallerStep, Frame, OwnersKept, Balances, QueueInv, OwnInv, SlotOf
      <4>2. CASE q[r].index = i
        BY <3>2, <4>1, <4>2 DEF CallerStep, Frame, OwnersKept, Balances, QueueInv, OwnInv
      <4>3. CASE q[r].index # i
        BY <1>0, <4>1, <4>3 DEF CallerStep, Frame, OwnersKept, Balances
      <4> QED  BY <4>2, <4>3
    <3> QED  BY <3>1, <3>2
  <2>2. ASSUME NEW r \in Callers, r # p, pc'[p] \in OwnLabels, pc'[r] \in OwnLabels
        PROVE  q'[p].index # q'[r].index
    <3>1. pc[r] \in OwnLabels /\ q'[r] = q[r] /\ q'[p] = q[p] /\ Unfinished(slots[q[r].index])
      BY <2>2 DEF CallerStep, Frame, OwnersKept, Balances, QueueInv, OwnInv, SlotOf
    <3>2. CASE pc[p] \in OwnLabels
      BY <2>2, <3>1, <3>2 DEF QueueInv, OwnInv
    <3>3. CASE slots[i].state = "EMPTY"
      BY <3>1, <3>3 DEF Unfinished
    <3> QED  BY <2>2, <3>2, <3>3 DEF CallerStep, Frame, OwnersKept, Balances
  <2>3. ASSUME NEW r \in Callers, NEW t \in Callers, r # p, t # p,
               pc'[r] \in OwnLabels, pc'[t] \in OwnLabels, q'[r].index = q'[t].index
        PROVE  r = t
    BY <2>3 DEF CallerStep, Frame, OwnersKept, Balances, QueueInv, OwnInv
  <2> QED
    BY <2>1, <2>2, <2>3 DEF OwnInv, SlotOf
<1>3. ASSUME NEW r \in Callers
      PROVE  Expects(r)'
  <2>1. CASE r = p
    BY <2>1 DEF CallerStep, Frame, OwnersKept, Balances
  <2>2. CASE r # p
    <3>1. pc'[r] = pc[r] /\ s'[r] = s[r] /\ Expects(r)
      BY <2>2 DEF CallerStep, Frame, OwnersKept, Balances, QueueInv
    <3> QED  BY <3>1 DEF Expects, Unfinished, Readable
  <2> QED  BY <2>1, <2>2
<1>4. TokensMatchSlots'
  <2>1. /\ Count(WriteLabels) \in Nat /\ Count(WriteLabels)' \in Nat
        /\ Count(WriteLabels)' + Writes(pc[p])
             = Count(WriteLabels) + Writes(pc'[p])
    BY CallerMoves DEF CallerStep, Frame, OwnersKept, Balances, Writes
  <2>2. /\ Count(ReadLabels) \in Nat /\ Count(ReadLabels)' \in Nat
        /\ Count(ReadLabels)' + Reads(pc[p])
             = Count(ReadLabels) + Reads(pc'[p])
    BY CallerMoves DEF CallerStep, Frame, OwnersKept, Balances, Reads
  <2>3. /\ Cardinality(Holding) \in Nat /\ Cardinality(Holding)' \in Nat
        /\ Cardinality(Holding)' + Fills(slots[i])
             = Cardinality(Holding) + Fills(slots'[i])
    BY <1>0, SlotChanges DEF CallerStep, Frame, OwnersKept, Balances, QueueInv, QueueTypes
  <2>4. PushUnits \in Int /\ PopUnits \in Int /\ PushUnits' \in Int /\ PopUnits' \in Int
    BY DEF CallerStep, QueueInv, QueueTypes, PushUnits, PopUnits
  <2>5. /\ Writes(pc[p]) \in Int /\ Writes(pc'[p]) \in Int
        /\ Reads(pc[p]) \in Int /\ Reads(pc'[p]) \in Int
        /\ Fills(slots[i]) \in Int /\ Fills(slots'[i]) \in Int
    BY DEF Writes, Reads, Fills
  <2>6. /\ NumElems - Cardinality(Holding) = PushUnits + Count(WriteLabels)
        /\ Cardinality(Holding) = PopUnits + Count(ReadLabels)
    BY TokensByLabel DEF QueueInv
  <2>7. /\ PushUnits' + Writes(pc'[p]) + Fills(slots'[i])
             = PushUnits + Writes(pc[p]) + Fills(slots[i])
        /\ PopUnits' + Reads(pc'[p]) - Fills(slots'[i])
             = PopUnits + Reads(pc[p]) - Fills(slots[i])
    BY DEF CallerStep, Frame, OwnersKept, Balances
  <2>8. /\ NumElems - Cardinality(Holding)' = PushUnits' + Count(WriteLabels)'
        /\ Cardinality(Holding)' = PopUnits' + Count(ReadLabels)'
    <3> HIDE DEF i
    <3>1. NumElems \in Int
      BY QueueAssumption
    <3>a. PushUnits' + Count(WriteLabels)' + Cardinality(Holding)'
            = PushUnits + Count(WriteLabels) + Cardinality(Holding)
      BY <2>1, <2>3, <2>4, <2>5, <2>7
    <3>b. PushUnits + Count(WriteLabels) + Cardinality(Holding) = NumElems
      BY <2>1, <2>3, <2>4, <2>6, <3>1
    <3>2. NumElems - Cardinality(Holding)' = PushUnits' + Count(WriteLabels)'
      BY <2>1, <2>3, <2>4, <3>1, <3>a, <3>b
    <3>3. Cardinality(Holding)' = PopUnits' + Count(ReadLabels)'
      BY <2>2, <2>3, <2>4, <2>5, <2>6, <2>7
    <3> QED  BY <3>2, <3>3
  <2> QED
    BY <2>8, TokensByLabel
<1> QED
  BY <1>1, <1>2, <1>3, <1>4 DEF QueueInv
-----------------------------------------------------------------------------
(* The steps one by one.                                                   *)

\* The position after another one is a position.
LEMMA NextPosition ==
  ASSUME NEW pos \in Positions
  PROVE  next(pos) \in Positions
PROOF
<1>1. pos.index \in 0..NumElems - 1 /\ pos.gen \in 0..15
  BY DEF Positions, Indices, Gens
<1>2. (pos.gen + 1) % 16 \in 0..15
  BY <1>1
<1>3. pos.index + 1 # NumElems => pos.index + 1 \in 0..NumElems - 1
  BY <1>1, QueueAssumption
<1>4. 0 \in 0..NumElems - 1
  BY QueueAssumption
<1> QED
  BY <1>2, <1>3, <1>4 DEF next, Positions, Indices, Gens

\* A slot value of the next generation is one.
LEMMA AdvancedSlot ==
  ASSUME NEW sl \in Slots, NEW st \in SlotStates
  PROVE  Advanced(sl, st) \in Slots /\ Advanced(sl, st).state = st
PROOF
<1>1. sl.gen \in 0..15
  BY DEF Slots, Gens
<1>2. (sl.gen + 1) % 16 \in 0..15
  BY <1>1
<1> QED
  BY <1>2 DEF Advanced, Slots, Gens

\* A slot value with another state is one.
LEMMA WithState ==
  ASSUME NEW sl \in Slots, NEW st \in SlotStates
  PROVE  [sl EXCEPT !.state = st] \in Slots /\ [sl EXCEPT !.state = st].state = st
BY DEF Slots

\* Calls take a unit of a semaphore, or fail if there is none; without ticks they fail
\* with a debt.
LEMMA CallSteps ==
  ASSUME QueueInv, NEW p \in Callers, Call(p)
  PROVE  CallerStep(p)
PROOF
<1> DEFINE i == q[p].index
<1> USE DEF Goto, SlotOf, Unfinished, Readable, OwnLabels, semVars, lostVars, queueVars,
           localVars, PushUnits, PopUnits
<1>0. /\ i \in Indices /\ q[p] \in Positions
      /\ slots[i] \in Slots /\ s[p] \in Slots /\ SlotOf(p) = slots[i]
  BY DEF QueueInv, QueueTypes, Positions
<1>1. CASE rt_queue_push(p)
  <2>1. QueueTypes'
    BY <1>0, <1>1 DEF QueueInv, QueueTypes, rt_queue_push, Labels, WriteLabels, ReadLabels
  <2>2. Frame(p)
    BY <1>1 DEF QueueInv, QueueTypes, Frame, rt_queue_push
  <2>3. Expects(p)'
    BY <1>0, <1>1 DEF QueueInv, QueueTypes, OwnInv, Expects, rt_queue_push
  <2>4. OwnersKept(p)
    BY <1>0, <1>1 DEF QueueInv, QueueTypes, OwnInv, Expects, OwnersKept, rt_queue_push
  <2>5. Balances(p)
    BY <1>0, <1>1
       DEF QueueInv, QueueTypes, Expects, Balances, rt_queue_push, Writes, Reads, Fills,
           WriteLabels, ReadLabels
  <2> QED
    BY <2>1, <2>2, <2>3, <2>4, <2>5 DEF CallerStep
<1>2. CASE rt_queue_pop(p)
  <2>1. QueueTypes'
    BY <1>0, <1>2 DEF QueueInv, QueueTypes, rt_queue_pop, Labels, WriteLabels, ReadLabels
  <2>2. Frame(p)
    BY <1>2 DEF QueueInv, QueueTypes, Frame, rt_queue_pop
  <2>3. Expects(p)'
    BY <1>0, <1>2 DEF QueueInv, QueueTypes, OwnInv, Expects, rt_queue_pop
  <2>4. OwnersKept(p)
    BY <1>0, <1>2 DEF QueueInv, QueueTypes, OwnInv, Expects, OwnersKept, rt_queue_pop
  <2>5. Balances(p)
    BY <1>0, <1>2
       DEF QueueInv, QueueTypes, Expects, Balances, rt_queue_pop, Writes, Reads, Fills,
           WriteLabels, ReadLabels
  <2> QED
    BY <2>1, <2>2, <2>3, <2>4, <2>5 DEF CallerStep
<1>3. CASE rt_queue_peek(p)
  <2>1. QueueTypes'
    BY <1>0, <1>3 DEF QueueInv, QueueTypes, rt_queue_peek, Labels, WriteLabels, ReadLabels
  <2>2. Frame(p)
    BY <1>3 DEF QueueInv, QueueTypes, Frame, rt_queue_peek
  <2>3. Expects(p)'
    BY <1>0, <1>3 DEF QueueInv, QueueTypes, OwnInv, Expects, rt_queue_peek
  <2>4. OwnersKept(p)
    BY <1>0, <1>3 DEF QueueInv, QueueTypes, OwnInv, Expects, OwnersKept, rt_queue_peek
  <2>5. Balances(p)
    BY <1>0, <1>3
       DEF QueueInv, QueueTypes, Expects, Balances, rt_queue_peek, Writes, Reads, Fills,
           WriteLabels, ReadLabels
  <2> QED
    BY <2>1, <2>2, <2>3, <2>4, <2>5 DEF CallerStep
<1>4. CASE TryFails(p)
  <2>1. QueueTypes'
    BY <1>0, <1>4
       DEF QueueInv, QueueTypes, TryFails, Return, Labels, WriteLabels, ReadLabels
  <2>2. Frame(p)
    BY <1>4 DEF QueueInv, QueueTypes, Frame, TryFails, Return
  <2>3. Expects(p)'
    BY <1>0, <1>4 DEF QueueInv, QueueTypes, OwnInv, Expects, TryFails, Return
  <2>4. OwnersKept(p)
    BY <1>0, <1>4 DEF QueueInv, QueueTypes, OwnInv, Expects, OwnersKept, TryFails, Return
  <2>5. Balances(p)
    BY <1>0, <1>4
       DEF QueueInv, QueueTypes, Expects, Balances, TryFails, Return, Writes, Reads,
           Fills, WriteLabels, ReadLabels
  <2> QED
    BY <2>1, <2>2, <2>3, <2>4, <2>5 DEF CallerStep
<1>5. CASE TimesOut(p)
  <2>1. QueueTypes'
    BY <1>0, <1>5
       DEF QueueInv, QueueTypes, TimesOut, Return, Labels, WriteLabels, ReadLabels
  <2>2. Frame(p)
    BY <1>5 DEF QueueInv, QueueTypes, Frame, TimesOut, Return
  <2>3. Expects(p)'
    BY <1>0, <1>5 DEF QueueInv, QueueTypes, OwnInv, Expects, TimesOut, Return
  <2>4. OwnersKept(p)
    BY <1>0, <1>5 DEF QueueInv, QueueTypes, OwnInv, Expects, OwnersKept, TimesOut, Return
  <2>5. Balances(p)
    BY <1>0, <1>5
       DEF QueueInv, QueueTypes, Expects, Balances, TimesOut, Return, Writes, Reads,
           Fills, WriteLabels, ReadLabels
  <2> QED
    BY <2>1, <2>2, <2>3, <2>4, <2>5 DEF CallerStep
<1>6. CASE ZeroTicksFails(p)
  <2>1. QueueTypes'
    BY <1>0, <1>6
       DEF QueueInv, QueueTypes, ZeroTicksFails, Return, Labels, WriteLabels, ReadLabels
  <2>2. Frame(p)
    BY <1>6 DEF QueueInv, QueueTypes, Frame, ZeroTicksFails, Return
  <2>3. Expects(p)'
    BY <1>0, <1>6 DEF QueueInv, QueueTypes, OwnInv, Expects, ZeroTicksFails, Return
  <2>4. OwnersKept(p)
    BY <1>0, <1>6 DEF QueueInv, QueueTypes, OwnInv, Expects, OwnersKept, ZeroTicksFails, Return
  <2>5. Balances(p)
    BY <1>0, <1>6
       DEF QueueInv, QueueTypes, Expects, Balances, ZeroTicksFails, Return, Writes, Reads,
           Fills, WriteLabels, ReadLabels
  <2> QED
    BY <2>1, <2>2, <2>3, <2>4, <2>5 DEF CallerStep
<1> QED
  BY <1>1, <1>2, <1>3, <1>4, <1>5, <1>6 DEF Call

\* The steps of push claim an empty slot, and publish it or give it up.
LEMMA PushSteps ==
  ASSUME QueueInv, NEW p \in Callers, push(p)
  PROVE  CallerStep(p)
PROOF
<1> DEFINE i == q[p].index
<1> USE DEF Goto, SlotOf, Unfinished, Readable, OwnLabels, semVars, lostVars, queueVars,
           localVars, PushUnits, PopUnits
<1>0. /\ i \in Indices /\ q[p] \in Positions
      /\ slots[i] \in Slots /\ s[p] \in Slots /\ SlotOf(p) = slots[i]
  BY DEF QueueInv, QueueTypes, Positions
<1>1. CASE push_load(p)
  <2>1. QueueTypes'
    BY <1>0, <1>1 DEF QueueInv, QueueTypes, push_load, Labels, WriteLabels, ReadLabels
  <2>2. Frame(p)
    BY <1>1 DEF QueueInv, QueueTypes, Frame, push_load
  <2>3. Expects(p)'
    BY <1>0, <1>1 DEF QueueInv, QueueTypes, OwnInv, Expects, push_load
  <2>4. OwnersKept(p)
    BY <1>0, <1>1 DEF QueueInv, QueueTypes, OwnInv, Expects, OwnersKept, push_load
  <2>5. Balances(p)
    BY <1>0, <1>1
       DEF QueueInv, QueueTypes, Expects, Balances, push_load, Writes, Reads, Fills,
           WriteLabels, ReadLabels
  <2> QED
    BY <2>1, <2>2, <2>3, <2>4, <2>5 DEF CallerStep
<1>2. CASE push_scan(p)
  <2>1. QueueTypes'
    BY <1>0, <1>2 DEF QueueInv, QueueTypes, push_scan, Labels, WriteLabels, ReadLabels
  <2>2. Frame(p)
    BY <1>2 DEF QueueInv, QueueTypes, Frame, push_scan
  <2>3. Expects(p)'
    BY <1>0, <1>2 DEF QueueInv, QueueTypes, OwnInv, Expects, push_scan
  <2>4. OwnersKept(p)
    BY <1>0, <1>2 DEF QueueInv, QueueTypes, OwnInv, Expects, OwnersKept, push_scan
  <2>5. Balances(p)
    BY <1>0, <1>2
       DEF QueueInv, QueueTypes, Expects, Balances, push_scan, Writes, Reads, Fills,
           WriteLabels, ReadLabels
  <2> QED
    BY <2>1, <2>2, <2>3, <2>4, <2>5 DEF CallerStep
<1>3. CASE push_reload(p)
  <2>1. QueueTypes'
    BY <1>0, <1>3, NextPosition
       DEF QueueInv, QueueTypes, push_reload, Reload, Labels, WriteLabels, ReadLabels
  <2>2. Frame(p)
    BY <1>3 DEF QueueInv, QueueTypes, Frame, push_reload, Reload
  <2>3. Expects(p)'
    BY <1>0, <1>3 DEF QueueInv, QueueTypes, OwnInv, Expects, push_reload, Reload
  <2>4. OwnersKept(p)
    BY <1>0, <1>3, NextPosition
       DEF QueueInv, QueueTypes, OwnInv, Expects, OwnersKept, push_reload, Reload
  <2>5. Balances(p)
    BY <1>0, <1>3, NextPosition
       DEF QueueInv, QueueTypes, Expects, Balances, push_reload, Reload, Writes, Reads,
           Fills, WriteLabels, ReadLabels
  <2> QED
    BY <2>1, <2>2, <2>3, <2>4, <2>5 DEF CallerStep
<1>4. CASE push_claim(p)
  <2>1. QueueTypes'
    <3>0. [s[p] EXCEPT !.state = "PUSH"] \in Slots
      BY <1>0, WithState, Zenon DEF SlotStates
    <3>1. slots' \in [Indices -> Slots]
      BY <1>0, <1>4, <3>0 DEF QueueInv, QueueTypes, push_claim, Claim, Swap
    <3>2. s' \in [Callers -> Slots]
      BY <1>0, <1>4, <3>0 DEF QueueInv, QueueTypes, push_claim
    <3>3. pc' \in [Callers -> Labels]
      BY <1>4 DEF QueueInv, QueueTypes, push_claim, Labels, WriteLabels, ReadLabels
    <3> QED
      BY <1>4, <3>1, <3>2, <3>3 DEF QueueInv, QueueTypes, push_claim
  <2>2. Frame(p)
    BY <1>4 DEF QueueInv, QueueTypes, Frame, push_claim, Claim, Swap
  <2>3. Expects(p)'
    BY <1>0, <1>4
       DEF QueueInv, QueueTypes, OwnInv, Expects, push_claim, Claim, Swap, SlotStates,
           Slots
  <2>4. OwnersKept(p)
    BY <1>0, <1>4
       DEF QueueInv, QueueTypes, OwnInv, Expects, OwnersKept, push_claim, Claim, Swap,
           SlotStates, Slots
  <2>5. Balances(p)
    BY <1>0, <1>4
       DEF QueueInv, QueueTypes, Expects, Balances, push_claim, Claim, Swap, SlotStates,
           Slots, Writes, Reads, Fills, WriteLabels, ReadLabels
  <2> QED
    BY <2>1, <2>2, <2>3, <2>4, <2>5 DEF CallerStep
<1>5. CASE push_store(p)
  <2>1. QueueTypes'
    BY <1>0, <1>5, NextPosition
       DEF QueueInv, QueueTypes, push_store, Labels, WriteLabels, ReadLabels
  <2>2. Frame(p)
    BY <1>5 DEF QueueInv, QueueTypes, Frame, push_store
  <2>3. Expects(p)'
    BY <1>0, <1>5 DEF QueueInv, QueueTypes, OwnInv, Expects, push_store
  <2>4. OwnersKept(p)
    BY <1>0, <1>5, NextPosition
       DEF QueueInv, QueueTypes, OwnInv, Expects, OwnersKept, push_store
  <2>5. Balances(p)
    BY <1>0, <1>5, NextPosition
       DEF QueueInv, QueueTypes, Expects, Balances, push_store, Writes, Reads, Fills,
           WriteLabels, ReadLabels
  <2> QED
    BY <2>1, <2>2, <2>3, <2>4, <2>5 DEF CallerStep
<1>6. CASE push_copy(p)
  <2>1. QueueTypes'
    BY <1>0, <1>6 DEF QueueInv, QueueTypes, push_copy, Labels, WriteLabels, ReadLabels
  <2>2. Frame(p)
    BY <1>6 DEF QueueInv, QueueTypes, Frame, push_copy
  <2>3. Expects(p)'
    BY <1>0, <1>6 DEF QueueInv, QueueTypes, OwnInv, Expects, push_copy
  <2>4. OwnersKept(p)
    BY <1>0, <1>6 DEF QueueInv, QueueTypes, OwnInv, Expects, OwnersKept, push_copy
  <2>5. Balances(p)
    BY <1>0, <1>6
       DEF QueueInv, QueueTypes, Expects, Balances, push_copy, Writes, Reads, Fills,
           WriteLabels, ReadLabels
  <2> QED
    BY <2>1, <2>2, <2>3, <2>4, <2>5 DEF CallerStep
<1>7. CASE push_publish(p)
  <2>1. QueueTypes'
    <3>0. [s[p] EXCEPT !.state = "FULL"] \in Slots
      BY <1>0, WithState, Zenon DEF SlotStates
    <3>1. slots' \in [Indices -> Slots]
      BY <1>0, <1>7, <3>0 DEF QueueInv, QueueTypes, push_publish, Swap
    <3>2. s' \in [Callers -> Slots]
      BY <1>0, <1>7, <3>0 DEF QueueInv, QueueTypes, push_publish
    <3>3. pc' \in [Callers -> Labels]
      BY <1>7 DEF QueueInv, QueueTypes, push_publish, Labels, WriteLabels, ReadLabels
    <3> QED
      BY <1>7, <3>1, <3>2, <3>3 DEF QueueInv, QueueTypes, push_publish
  <2>2. Frame(p)
    BY <1>7 DEF QueueInv, QueueTypes, Frame, push_publish, Swap
  <2>3. Expects(p)'
    BY <1>0, <1>7
       DEF QueueInv, QueueTypes, OwnInv, Expects, push_publish, Swap, SlotStates, Slots
  <2>4. OwnersKept(p)
    BY <1>0, <1>7
       DEF QueueInv, QueueTypes, OwnInv, Expects, OwnersKept, push_publish, Swap,
           SlotStates, Slots
  <2>5. Balances(p)
    BY <1>0, <1>7
       DEF QueueInv, QueueTypes, Expects, Balances, push_publish, Swap, SlotStates, Slots,
           Writes, Reads, Fills, WriteLabels, ReadLabels
  <2> QED
    BY <2>1, <2>2, <2>3, <2>4, <2>5 DEF CallerStep
<1>8. CASE push_restore(p)
  <2>1. QueueTypes'
    <3>0. [s[p] EXCEPT !.state = "EMPTY"] \in Slots
      BY <1>0, WithState, Zenon DEF SlotStates
    <3>1. slots' \in [Indices -> Slots]
      BY <1>0, <1>8, <3>0 DEF QueueInv, QueueTypes, push_restore, Swap
    <3>2. s' \in [Callers -> Slots]
      BY <1>0, <1>8, <3>0 DEF QueueInv, QueueTypes, push_restore
    <3>3. pc' \in [Callers -> Labels]
      BY <1>8 DEF QueueInv, QueueTypes, push_restore, Labels, WriteLabels, ReadLabels
    <3> QED
      BY <1>8, <3>1, <3>2, <3>3 DEF QueueInv, QueueTypes, push_restore
  <2>2. Frame(p)
    BY <1>8 DEF QueueInv, QueueTypes, Frame, push_restore, Swap
  <2>3. Expects(p)'
    BY <1>0, <1>8
       DEF QueueInv, QueueTypes, OwnInv, Expects, push_restore, Swap, SlotStates, Slots
  <2>4. OwnersKept(p)
    BY <1>0, <1>8
       DEF QueueInv, QueueTypes, OwnInv, Expects, OwnersKept, push_restore, Swap,
           SlotStates, Slots
  <2>5. Balances(p)
    BY <1>0, <1>8
       DEF QueueInv, QueueTypes, Expects, Balances, push_restore, Swap, SlotStates, Slots,
           Writes, Reads, Fills, WriteLabels, ReadLabels
  <2> QED
    BY <2>1, <2>2, <2>3, <2>4, <2>5 DEF CallerStep
<1>9. CASE push_post(p)
  <2>1. QueueTypes'
    BY <1>0, <1>9
       DEF QueueInv, QueueTypes, push_post, Return, Labels, WriteLabels, ReadLabels
  <2>2. Frame(p)
    BY <1>9 DEF QueueInv, QueueTypes, Frame, push_post, Return
  <2>3. Expects(p)'
    BY <1>0, <1>9 DEF QueueInv, QueueTypes, OwnInv, Expects, push_post, Return
  <2>4. OwnersKept(p)
    BY <1>0, <1>9 DEF QueueInv, QueueTypes, OwnInv, Expects, OwnersKept, push_post, Return
  <2>5. Balances(p)
    BY <1>0, <1>9
       DEF QueueInv, QueueTypes, Expects, Balances, push_post, Return, Writes, Reads,
           Fills, WriteLabels, ReadLabels
  <2> QED
    BY <2>1, <2>2, <2>3, <2>4, <2>5 DEF CallerStep
<1> QED
  BY <1>1, <1>2, <1>3, <1>4, <1>5, <1>6, <1>7, <1>8, <1>9 DEF push

\* The steps of pop skip pushes in progress, and claim and free slots that are full.
LEMMA PopSteps ==
  ASSUME QueueInv, NEW p \in Callers, pop(p)
  PROVE  CallerStep(p)
PROOF
<1> DEFINE i == q[p].index
<1> USE DEF Goto, SlotOf, Unfinished, Readable, OwnLabels, semVars, lostVars, queueVars,
           localVars, PushUnits, PopUnits
<1>0. /\ i \in Indices /\ q[p] \in Positions
      /\ slots[i] \in Slots /\ s[p] \in Slots /\ SlotOf(p) = slots[i]
  BY DEF QueueInv, QueueTypes, Positions
<1>1. CASE pop_load(p)
  <2>1. QueueTypes'
    BY <1>0, <1>1 DEF QueueInv, QueueTypes, pop_load, Labels, WriteLabels, ReadLabels
  <2>2. Frame(p)
    BY <1>1 DEF QueueInv, QueueTypes, Frame, pop_load
  <2>3. Expects(p)'
    BY <1>0, <1>1 DEF QueueInv, QueueTypes, OwnInv, Expects, pop_load
  <2>4. OwnersKept(p)
    BY <1>0, <1>1 DEF QueueInv, QueueTypes, OwnInv, Expects, OwnersKept, pop_load
  <2>5. Balances(p)
    BY <1>0, <1>1
       DEF QueueInv, QueueTypes, Expects, Balances, pop_load, Writes, Reads, Fills,
           WriteLabels, ReadLabels
  <2> QED
    BY <2>1, <2>2, <2>3, <2>4, <2>5 DEF CallerStep
<1>2. CASE pop_scan(p)
  <2>1. QueueTypes'
    BY <1>0, <1>2 DEF QueueInv, QueueTypes, pop_scan, Labels, WriteLabels, ReadLabels
  <2>2. Frame(p)
    BY <1>2 DEF QueueInv, QueueTypes, Frame, pop_scan
  <2>3. Expects(p)'
    BY <1>0, <1>2 DEF QueueInv, QueueTypes, OwnInv, Expects, pop_scan
  <2>4. OwnersKept(p)
    BY <1>0, <1>2 DEF QueueInv, QueueTypes, OwnInv, Expects, OwnersKept, pop_scan
  <2>5. Balances(p)
    BY <1>0, <1>2
       DEF QueueInv, QueueTypes, Expects, Balances, pop_scan, Writes, Reads, Fills,
           WriteLabels, ReadLabels
  <2> QED
    BY <2>1, <2>2, <2>3, <2>4, <2>5 DEF CallerStep
<1>3. CASE pop_skip(p)
  <2>1. QueueTypes'
    <3>0. Advanced(s[p], "SKIPPED") \in Slots
      BY <1>0, AdvancedSlot DEF SlotStates
    <3>1. slots' \in [Indices -> Slots]
      BY <1>0, <1>3, <3>0 DEF QueueInv, QueueTypes, pop_skip, Swap
    <3>2. s' \in [Callers -> Slots]
      BY <1>0, <1>3, <3>0 DEF QueueInv, QueueTypes, pop_skip
    <3>3. pc' \in [Callers -> Labels]
      BY <1>3 DEF QueueInv, QueueTypes, pop_skip, Labels, WriteLabels, ReadLabels
    <3> QED
      BY <1>3, <3>1, <3>2, <3>3 DEF QueueInv, QueueTypes, pop_skip
  <2>2. Frame(p)
    BY <1>3 DEF QueueInv, QueueTypes, Frame, pop_skip, Swap
  <2>3. Expects(p)'
    BY <1>0, <1>3
       DEF QueueInv, QueueTypes, OwnInv, Expects, pop_skip, Swap, SlotStates, Slots
  <2>4. OwnersKept(p)
    BY <1>0, <1>3, AdvancedSlot
       DEF QueueInv, QueueTypes, OwnInv, Expects, OwnersKept, pop_skip, Swap, SlotStates,
           Slots
  <2>5. Balances(p)
    BY <1>0, <1>3, AdvancedSlot
       DEF QueueInv, QueueTypes, Expects, Balances, pop_skip, Swap, SlotStates, Slots,
           Writes, Reads, Fills, WriteLabels, ReadLabels
  <2> QED
    BY <2>1, <2>2, <2>3, <2>4, <2>5 DEF CallerStep
<1>4. CASE pop_reload(p)
  <2>1. QueueTypes'
    BY <1>0, <1>4, NextPosition
       DEF QueueInv, QueueTypes, pop_reload, Reload, Labels, WriteLabels, ReadLabels
  <2>2. Frame(p)
    BY <1>4 DEF QueueInv, QueueTypes, Frame, pop_reload, Reload
  <2>3. Expects(p)'
    BY <1>0, <1>4 DEF QueueInv, QueueTypes, OwnInv, Expects, pop_reload, Reload
  <2>4. OwnersKept(p)
    BY <1>0, <1>4, NextPosition
       DEF QueueInv, QueueTypes, OwnInv, Expects, OwnersKept, pop_reload, Reload
  <2>5. Balances(p)
    BY <1>0, <1>4, NextPosition
       DEF QueueInv, QueueTypes, Expects, Balances, pop_reload, Reload, Writes, Reads,
           Fills, WriteLabels, ReadLabels
  <2> QED
    BY <2>1, <2>2, <2>3, <2>4, <2>5 DEF CallerStep
<1>5. CASE pop_claim(p)
  <2>1. QueueTypes'
    <3>0. [s[p] EXCEPT !.state = "POP"] \in Slots
      BY <1>0, WithState, Zenon DEF SlotStates
    <3>1. slots' \in [Indices -> Slots]
      BY <1>0, <1>5, <3>0 DEF QueueInv, QueueTypes, pop_claim, Claim, Swap
    <3>2. s' \in [Callers -> Slots]
      BY <1>0, <1>5, <3>0 DEF QueueInv, QueueTypes, pop_claim
    <3>3. pc' \in [Callers -> Labels]
      BY <1>5 DEF QueueInv, QueueTypes, pop_claim, Labels, WriteLabels, ReadLabels
    <3> QED
      BY <1>5, <3>1, <3>2, <3>3 DEF QueueInv, QueueTypes, pop_claim
  <2>2. Frame(p)
    BY <1>5 DEF QueueInv, QueueTypes, Frame, pop_claim, Claim, Swap
  <2>3. Expects(p)'
    BY <1>0, <1>5
       DEF QueueInv, QueueTypes, OwnInv, Expects, pop_claim, Claim, Swap, SlotStates,
           Slots
  <2>4. OwnersKept(p)
    BY <1>0, <1>5
       DEF QueueInv, QueueTypes, OwnInv, Expects, OwnersKept, pop_claim, Claim, Swap,
           SlotStates, Slots
  <2>5. Balances(p)
    BY <1>0, <1>5
       DEF QueueInv, QueueTypes, Expects, Balances, pop_claim, Claim, Swap, SlotStates,
           Slots, Writes, Reads, Fills, WriteLabels, ReadLabels
  <2> QED
    BY <2>1, <2>2, <2>3, <2>4, <2>5 DEF CallerStep
<1>6. CASE pop_copy(p)
  <2>1. QueueTypes'
    BY <1>0, <1>6 DEF QueueInv, QueueTypes, pop_copy, Labels, WriteLabels, ReadLabels
  <2>2. Frame(p)
    BY <1>6 DEF QueueInv, QueueTypes, Frame, pop_copy
  <2>3. Expects(p)'
    BY <1>0, <1>6, SMTT(40) DEF QueueInv, QueueTypes, OwnInv, Expects, pop_copy
  <2>4. OwnersKept(p)
    BY <1>0, <1>6 DEF QueueInv, QueueTypes, OwnInv, Expects, OwnersKept, pop_copy
  <2>5. Balances(p)
    BY <1>0, <1>6
       DEF QueueInv, QueueTypes, Expects, Balances, pop_copy, Writes, Reads, Fills,
           WriteLabels, ReadLabels
  <2> QED
    BY <2>1, <2>2, <2>3, <2>4, <2>5 DEF CallerStep
<1>7. CASE pop_free(p)
  <2>1. QueueTypes'
    <3>0. Advanced(s[p], "EMPTY") \in Slots
      BY <1>0, AdvancedSlot DEF SlotStates
    <3>1. slots' \in [Indices -> Slots]
      BY <1>0, <1>7, <3>0 DEF QueueInv, QueueTypes, pop_free, Free, Swap
    <3>2. s' \in [Callers -> Slots]
      BY <1>0, <1>7, <3>0 DEF QueueInv, QueueTypes, pop_free
    <3>3. pc' \in [Callers -> Labels]
      BY <1>7 DEF QueueInv, QueueTypes, pop_free, Labels, WriteLabels, ReadLabels
    <3> QED
      BY <1>7, <3>1, <3>2, <3>3 DEF QueueInv, QueueTypes, pop_free
  <2>2. Frame(p)
    BY <1>7 DEF QueueInv, QueueTypes, Frame, pop_free, Free, Swap
  <2>3. Expects(p)'
    BY <1>0, <1>7
       DEF QueueInv, QueueTypes, OwnInv, Expects, pop_free, Free, Swap, SlotStates, Slots
  <2>4. OwnersKept(p)
    BY <1>0, <1>7, AdvancedSlot, SMTT(40)
       DEF QueueInv, QueueTypes, OwnInv, Expects, OwnersKept, pop_free, Free, Swap,
           SlotStates, Slots
  <2>5. Balances(p)
    BY <1>0, <1>7, AdvancedSlot
       DEF QueueInv, QueueTypes, Expects, Balances, pop_free, Free, Swap, SlotStates,
           Slots, Writes, Reads, Fills, WriteLabels, ReadLabels
  <2> QED
    BY <2>1, <2>2, <2>3, <2>4, <2>5 DEF CallerStep
<1>8. CASE pop_store(p)
  <2>1. QueueTypes'
    BY <1>0, <1>8, NextPosition
       DEF QueueInv, QueueTypes, pop_store, Labels, WriteLabels, ReadLabels
  <2>2. Frame(p)
    BY <1>8 DEF QueueInv, QueueTypes, Frame, pop_store
  <2>3. Expects(p)'
    BY <1>0, <1>8 DEF QueueInv, QueueTypes, OwnInv, Expects, pop_store
  <2>4. OwnersKept(p)
    BY <1>0, <1>8, NextPosition
       DEF QueueInv, QueueTypes, OwnInv, Expects, OwnersKept, pop_store
  <2>5. Balances(p)
    BY <1>0, <1>8, NextPosition
       DEF QueueInv, QueueTypes, Expects, Balances, pop_store, Writes, Reads, Fills,
           WriteLabels, ReadLabels
  <2> QED
    BY <2>1, <2>2, <2>3, <2>4, <2>5 DEF CallerStep
<1>9. CASE pop_post(p)
  <2>1. QueueTypes'
    BY <1>0, <1>9
       DEF QueueInv, QueueTypes, pop_post, Return, Labels, WriteLabels, ReadLabels
  <2>2. Frame(p)
    BY <1>9 DEF QueueInv, QueueTypes, Frame, pop_post, Return
  <2>3. Expects(p)'
    BY <1>0, <1>9 DEF QueueInv, QueueTypes, OwnInv, Expects, pop_post, Return
  <2>4. OwnersKept(p)
    BY <1>0, <1>9 DEF QueueInv, QueueTypes, OwnInv, Expects, OwnersKept, pop_post, Return
  <2>5. Balances(p)
    BY <1>0, <1>9
       DEF QueueInv, QueueTypes, Expects, Balances, pop_post, Return, Writes, Reads,
           Fills, WriteLabels, ReadLabels
  <2> QED
    BY <2>1, <2>2, <2>3, <2>4, <2>5 DEF CallerStep
<1> QED
  BY <1>1, <1>2, <1>3, <1>4, <1>5, <1>6, <1>7, <1>8, <1>9 DEF pop

\* The steps of peek of its own leave full slots full.
LEMMA PeekSteps ==
  ASSUME QueueInv, NEW p \in Callers, peek(p)
  PROVE  CallerStep(p)
PROOF
<1> DEFINE i == q[p].index
<1> USE DEF Goto, SlotOf, Unfinished, Readable, OwnLabels, semVars, lostVars, queueVars,
           localVars, PushUnits, PopUnits
<1>0. /\ i \in Indices /\ q[p] \in Positions
      /\ slots[i] \in Slots /\ s[p] \in Slots /\ SlotOf(p) = slots[i]
  BY DEF QueueInv, QueueTypes, Positions
<1>1. CASE peek_scan(p)
  <2>1. QueueTypes'
    BY <1>0, <1>1 DEF QueueInv, QueueTypes, peek_scan, Labels, WriteLabels, ReadLabels
  <2>2. Frame(p)
    BY <1>1 DEF QueueInv, QueueTypes, Frame, peek_scan
  <2>3. Expects(p)'
    BY <1>0, <1>1 DEF QueueInv, QueueTypes, OwnInv, Expects, peek_scan
  <2>4. OwnersKept(p)
    BY <1>0, <1>1 DEF QueueInv, QueueTypes, OwnInv, Expects, OwnersKept, peek_scan
  <2>5. Balances(p)
    BY <1>0, <1>1
       DEF QueueInv, QueueTypes, Expects, Balances, peek_scan, Writes, Reads, Fills,
           WriteLabels, ReadLabels
  <2> QED
    BY <2>1, <2>2, <2>3, <2>4, <2>5 DEF CallerStep
<1>2. CASE peek_release(p)
  <2>1. QueueTypes'
    <3>0. Advanced(s[p], "FULL") \in Slots
      BY <1>0, AdvancedSlot DEF SlotStates
    <3>1. slots' \in [Indices -> Slots]
      BY <1>0, <1>2, <3>0 DEF QueueInv, QueueTypes, peek_release, Swap
    <3>2. s' \in [Callers -> Slots]
      BY <1>0, <1>2, <3>0 DEF QueueInv, QueueTypes, peek_release
    <3>3. pc' \in [Callers -> Labels]
      BY <1>2 DEF QueueInv, QueueTypes, peek_release, Labels, WriteLabels, ReadLabels
    <3> QED
      BY <1>2, <3>1, <3>2, <3>3 DEF QueueInv, QueueTypes, peek_release
  <2>2. Frame(p)
    BY <1>2 DEF QueueInv, QueueTypes, Frame, peek_release, Swap
  <2>3. Expects(p)'
    BY <1>0, <1>2, SMTT(40)
       DEF QueueInv, QueueTypes, OwnInv, Expects, peek_release, Swap, SlotStates, Slots
  <2>4. OwnersKept(p)
    BY <1>0, <1>2, AdvancedSlot, SMTT(40)
       DEF QueueInv, QueueTypes, OwnInv, Expects, OwnersKept, peek_release, Swap,
           SlotStates, Slots
  <2>5. Balances(p)
    BY <1>0, <1>2, AdvancedSlot
       DEF QueueInv, QueueTypes, Expects, Balances, peek_release, Swap, SlotStates, Slots,
           Writes, Reads, Fills, WriteLabels, ReadLabels
  <2> QED
    BY <2>1, <2>2, <2>3, <2>4, <2>5 DEF CallerStep
<1>3. CASE peek_post(p)
  <2>1. QueueTypes'
    BY <1>0, <1>3
       DEF QueueInv, QueueTypes, peek_post, Return, Labels, WriteLabels, ReadLabels
  <2>2. Frame(p)
    BY <1>3 DEF QueueInv, QueueTypes, Frame, peek_post, Return
  <2>3. Expects(p)'
    BY <1>0, <1>3 DEF QueueInv, QueueTypes, OwnInv, Expects, peek_post, Return
  <2>4. OwnersKept(p)
    BY <1>0, <1>3 DEF QueueInv, QueueTypes, OwnInv, Expects, OwnersKept, peek_post, Return
  <2>5. Balances(p)
    BY <1>0, <1>3
       DEF QueueInv, QueueTypes, Expects, Balances, peek_post, Return, Writes, Reads,
           Fills, WriteLabels, ReadLabels
  <2> QED
    BY <2>1, <2>2, <2>3, <2>4, <2>5 DEF CallerStep
<1> QED
  BY <1>1, <1>2, <1>3 DEF peek

-----------------------------------------------------------------------------
(* The invariant and the theorem.                                          *)

\* RT_QUEUE_STATIC gives push_sem as many units as there are slots, all empty.
LEMMA QueueInit == Init => QueueInv
PROOF
<1> SUFFICES ASSUME Init PROVE QueueInv
  OBVIOUS
<1>0. 0 \in Indices
  BY QueueAssumption DEF Indices
<1>1. QueueTypes
  <2>1. enq \in Positions
    BY <1>0 DEF Init, Positions, Gens
  <2>2. [gen |-> 0, state |-> "EMPTY"] \in Slots
    BY DEF Slots, SlotStates, Gens
  <2>3. slots \in [Indices -> Slots] /\ s \in [Callers -> Slots]
    BY <1>0, <2>2 DEF Init
  <2> QED
    BY <2>1, <2>3, QueueAssumption DEF Init, QueueTypes, Labels
<1>2. OwnInv /\ (\A p \in Callers : Expects(p))
  BY DEF Init, OwnInv, Expects, OwnLabels
<1>3. TokensMatchSlots
  <2>1. Holding = {}
    BY DEF Init, Holding, Readable
  <2>2. Count(WriteLabels) = Cardinality({}) /\ Count(ReadLabels) = Cardinality({})
    BY Zenon DEF Init, Count, WriteLabels, ReadLabels
  <2>3. Cardinality({}) = 0
    BY FS_EmptySet
  <2> QED
    BY <2>1, <2>2, <2>3, TokensByLabel, QueueAssumption DEF Init, PushUnits, PopUnits
<1> QED
  BY <1>1, <1>2, <1>3 DEF QueueInv

\* A step of a caller, or one that leaves a caller alone, keeps the invariant.
LEMMA QueueStep == QueueInv /\ [PreemptNext]_vars => QueueInv'
PROOF
<1> SUFFICES ASSUME QueueInv, [PreemptNext]_vars PROVE QueueInv'
  OBVIOUS
<1>1. ASSUME NEW p \in Callers, Step(p) PROVE QueueInv'
  BY <1>1, CallSteps, PushSteps, PopSteps, PeekSteps, CallerStepKeeps, ZenonT(60) DEF Step
<1>2. ASSUME UNCHANGED <<semVars, queueVars, pc, localVars>> PROVE QueueInv'
  BY <1>2
     DEF QueueInv, QueueTypes, OwnInv, Expects, TokensMatchSlots, SlotOf, Holding,
         Pushing, Freed, Popping, Filled, Readable, Unfinished, semVars, lostVars,
         queueVars, localVars
<1> QED
  BY <1>1, <1>2 DEF PreemptNext, Next, Preempt, vars

\* The units of push_sem and pop_sem agree with the slots at every step of push, pop
\* and peek (queue.c), whatever callers interleave and whether one of them is left
\* alone: so a caller that rt_sem_wait lets past has a slot to find.  Programs may pass
\* ticks = 0 to the timed forms; each of those calls that fails costs one unit.
THEOREM TokensAlwaysMatchSlots ==
  (Spec => []TokensMatchSlots) /\ (LiveSpec => []TokensMatchSlots)
PROOF
<1>1. QueueInv => TokensMatchSlots
  BY DEF QueueInv
<1>2. [Next]_vars => [PreemptNext]_vars
  BY DEF PreemptNext
<1> QED
  BY <1>1, <1>2, QueueInit, QueueStep, PTL DEF Spec, LiveSpec

-----------------------------------------------------------------------------
(* Programs that never call a timed form with ticks = 0.                   *)

NoZeroTicks ==
  \A pr \in Programs : \A p \in Callers : \A i \in 1..Len(pr[p]) : pr[p][i] \notin ZeroTickOps

\* Without such calls no unit is lost.
KeptInv ==
  /\ program \in Programs /\ step \in [Callers -> Nat \ {0}]
  /\ push_lost = 0 /\ pop_lost = 0

\* A step of a caller goes on in its program, and only a failed call without ticks
\* takes a unit away.
LEMMA KeptStep ==
  ASSUME NoZeroTicks, KeptInv, NEW p \in Callers, Step(p)
  PROVE  KeptInv'
PROOF
<1>0. ~ZeroTicksFails(p)
  <2>1. program[p] \in Seq(Operations) /\ step[p] \in Nat \ {0}
    BY QueueAssumption DEF KeptInv
  <2>2. step[p] <= Len(program[p]) => program[p][step[p]] \notin ZeroTickOps
    BY <2>1 DEF NoZeroTicks, KeptInv
  <2>3. "none" \notin ZeroTickOps
    BY DEF ZeroTickOps
  <2> QED
    BY <2>2, <2>3, Zenon DEF ZeroTicksFails, Operation
<1>1. UNCHANGED program
  BY DEF Step
<1>2. UNCHANGED lostVars
  <2>1. CASE Call(p)
    BY <1>0, <2>1, Zenon
       DEF Call, rt_queue_push, rt_queue_pop, rt_queue_peek, TryFails, TimesOut, semVars
  <2>2. CASE push(p)
    BY <2>2, Zenon
       DEF push, push_load, push_scan, push_reload, push_claim, push_store, push_copy,
           push_publish, push_restore, push_post, semVars
  <2>3. CASE pop(p)
    BY <2>3, Zenon
       DEF pop, pop_load, pop_scan, pop_skip, pop_reload, pop_claim, pop_copy, pop_free,
           pop_store, pop_post, semVars
  <2>4. CASE peek(p)
    BY <2>4, Zenon DEF peek, peek_scan, peek_release, peek_post, semVars
  <2> QED
    BY <2>1, <2>2, <2>3, <2>4, Zenon DEF Step
<1>3. step' = step \/ Return(p)
  <2>1. CASE Call(p)
    BY <1>0, <2>1, Zenon
       DEF Call, rt_queue_push, rt_queue_pop, rt_queue_peek, TryFails, TimesOut
  <2>2. CASE push(p)
    BY <2>2, Zenon
       DEF push, push_load, push_scan, push_reload, push_claim, push_store, push_copy,
           push_publish, push_restore, push_post
  <2>3. CASE pop(p)
    BY <2>3, Zenon
       DEF pop, pop_load, pop_scan, pop_skip, pop_reload, pop_claim, pop_copy, pop_free,
           pop_store, pop_post
  <2>4. CASE peek(p)
    BY <2>4, Zenon DEF peek, peek_scan, peek_release, peek_post
  <2> QED
    BY <2>1, <2>2, <2>3, <2>4, Zenon DEF Step
<1>4. step' \in [Callers -> Nat \ {0}]
  BY <1>3 DEF KeptInv, Return
<1> QED
  BY <1>1, <1>2, <1>4 DEF KeptInv, lostVars

\* If no program passes ticks = 0 to a timed form (queue.c:334-363), every unit taken is
\* given back: slots that can be written and read are exactly as many as the units of
\* push_sem and pop_sem and the callers that have taken one.
THEOREM NoUnitIsLost ==
  ASSUME NoZeroTicks
  PROVE  /\ Spec => [](TokensMatchSlots /\ push_lost = 0 /\ pop_lost = 0)
         /\ LiveSpec => [](TokensMatchSlots /\ push_lost = 0 /\ pop_lost = 0)
PROOF
<1>1. Init => KeptInv
  BY DEF Init, KeptInv
<1>2. KeptInv /\ [PreemptNext]_vars => KeptInv'
  <2>1. ASSUME KeptInv, NEW p \in Callers, Step(p) PROVE KeptInv'
    BY <2>1, KeptStep
  <2>2. ASSUME KeptInv, UNCHANGED <<semVars, program, step>> PROVE KeptInv'
    BY <2>2 DEF KeptInv, semVars, lostVars
  <2> QED
    BY <2>1, <2>2 DEF PreemptNext, Next, Preempt, vars
<1>3. KeptInv => push_lost = 0 /\ pop_lost = 0
  BY DEF KeptInv
<1>4. [Next]_vars => [PreemptNext]_vars
  BY DEF PreemptNext
<1> QED
  BY <1>1, <1>2, <1>3, <1>4, TokensAlwaysMatchSlots, PTL DEF Spec, LiveSpec
=============================================================================
