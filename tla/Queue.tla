------------------------------- MODULE Queue --------------------------------
(***************************************************************************)
(* The bounded lock-free queue of src/src/queue.c.  Callers are tasks and  *)
(* interrupts; each atomic operation and each copy of an element is one    *)
(* step, and steps of callers interleave freely.  The two semaphores are   *)
(* taken for what Kernel shows of them: a wait takes a unit, a post adds   *)
(* one, and a timed wait without ticks fails with the count taken down.    *)
(***************************************************************************)
EXTENDS Integers, Sequences, FiniteSets

CONSTANTS
  Callers,   \* tasks and interrupts that use the queue
  Programs,  \* ways of using the queue: the operations each caller carries out
  Preemptible, \* the programs in which one caller may be left alone
  Rank,      \* their priorities
  Busy,      \* those that do nothing but use the queue
  NumElems,  \* the number of slots
  Nobody

\* The functions of queue.h.  Those that end in 0 are the timed ones with ticks = 0.
PushOps == {"push", "trypush", "timedpush", "timedpush0"}
PopOps == {"pop", "trypop", "timedpop", "timedpop0"}
PeekOps == {"peek", "trypeek", "timedpeek", "timedpeek0"}
TryOps == {"trypush", "trypop", "trypeek"}
TimedOps == {"timedpush", "timedpop", "timedpeek"}
ZeroTickOps == {"timedpush0", "timedpop0", "timedpeek0"}

Operations == PushOps \cup PopOps \cup PeekOps

ASSUME QueueAssumption ==
  /\ IsFiniteSet(Callers)
  /\ Programs \subseteq [Callers -> Seq(Operations)]
  /\ Rank \in [Callers -> Nat] /\ Busy \subseteq Callers
  /\ NumElems \in Nat \ {0}
  /\ Nobody \notin Callers

Gens == 16              \* 2^RT_QUEUE_GEN_BITS, of slots and of enq and deq
Indices == 0..NumElems - 1
Positions == [gen : 0..Gens - 1, index : Indices]
SlotStates == {"EMPTY", "PUSH", "POP", "SKIPPED", "FULL"}
Slots == [gen : 0..Gens - 1, state : SlotStates]

VARIABLES
  push_sem, pop_sem,    \* the units of the semaphores, less the debts of failed calls
  enq, deq,             \* where to look first
  slots, data,
  program,              \* the one of Programs that is carried out
  pc, step,             \* where each caller is in its operation and its program
  q, last, s, elem,     \* its local variables: enq or deq, last_enq or last_deq
  push_lost, pop_lost,  \* history: units that failed calls without ticks have taken
  pushed, log,          \* history: elements pushed; what each caller has read
  alone                 \* the one caller that still runs, if there is one

lostVars == <<push_lost, pop_lost>>
semVars == <<push_sem, pop_sem, lostVars>>
queueVars == <<enq, deq, slots, data>>
localVars == <<q, last, s, elem>>
historyVars == <<pushed, log>>
vars == <<semVars, queueVars, program, pc, step, localVars, historyVars, alone>>

\* RT_QUEUE_STATIC.
Init ==
  /\ push_sem = NumElems /\ pop_sem = 0 /\ push_lost = 0 /\ pop_lost = 0
  /\ enq = [gen |-> 0, index |-> 0] /\ deq = enq
  /\ slots = [i \in Indices |-> [gen |-> 0, state |-> "EMPTY"]]
  /\ data = [i \in Indices |-> Nobody]
  /\ program \in Programs
  /\ pc = [p \in Callers |-> "idle"] /\ step = [p \in Callers |-> 1]
  /\ q = [p \in Callers |-> enq] /\ last = q
  /\ s = [p \in Callers |-> slots[0]]
  /\ elem = [p \in Callers |-> Nobody]
  /\ pushed = {} /\ log = [p \in Callers |-> <<>>]
  /\ alone = Nobody

-----------------------------------------------------------------------------

\* Mutant: the generation stays when the index wraps.
next_same_gen(pos) == [pos EXCEPT !.index = (@ + 1) % NumElems]

\* The position after pos; the generation counts the turns.
next(pos) ==
  IF pos.index + 1 = NumElems
    THEN [gen |-> (pos.gen + 1) % Gens, index |-> 0]
    ELSE [pos EXCEPT !.index = @ + 1]

\* A slot value of the next generation.
Advanced(slot, state) == [gen |-> (slot.gen + 1) % Gens, state |-> state]

SlotOf(p) == slots[q[p].index]

Goto(p, label) == pc' = [pc EXCEPT ![p] = label]

\* rt_atomic_compare_exchange on the slot of p: succeed if it still has the
\* expected value.
Swap(p, expected, new) ==
  /\ SlotOf(p) = expected
  /\ slots' = [slots EXCEPT ![q[p].index] = new]

Operation(p) == IF step[p] <= Len(program[p]) THEN program[p][step[p]] ELSE "none"

Return(p) ==
  /\ Goto(p, "idle")
  /\ step' = [step EXCEPT ![p] = @ + 1]

-----------------------------------------------------------------------------
(* Calls.  A call that finds a unit takes it and goes on.                  *)

rt_queue_push(p) ==
  /\ pc[p] = "idle" /\ Operation(p) \in PushOps /\ push_sem > 0
  /\ push_sem' = push_sem - 1
  /\ Goto(p, "push_load")
  /\ UNCHANGED <<pop_sem, lostVars, queueVars, step, localVars, historyVars>>

rt_queue_pop(p) ==
  /\ pc[p] = "idle" /\ Operation(p) \in PopOps /\ pop_sem > 0
  /\ pop_sem' = pop_sem - 1
  /\ Goto(p, "pop_load")
  /\ UNCHANGED <<push_sem, lostVars, queueVars, step, localVars, historyVars>>

rt_queue_peek(p) ==
  /\ pc[p] = "idle" /\ Operation(p) \in PeekOps /\ pop_sem > 0
  /\ pop_sem' = pop_sem - 1
  /\ Goto(p, "pop_load")
  /\ UNCHANGED <<push_sem, lostVars, queueVars, step, localVars, historyVars>>

NoUnit(p) == IF Operation(p) \in PushOps THEN push_sem <= 0 ELSE pop_sem <= 0

\* rt_sem_trywait leaves the count alone when it fails.
TryFails(p) ==
  /\ pc[p] = "idle" /\ Operation(p) \in TryOps /\ NoUnit(p)
  /\ Return(p)
  /\ UNCHANGED <<semVars, queueVars, localVars, historyVars>>

\* A timed wait that has been waiting gives its unit back when its time is up.
TimesOut(p) ==
  /\ pc[p] = "idle" /\ Operation(p) \in TimedOps /\ NoUnit(p)
  /\ Return(p)
  /\ UNCHANGED <<semVars, queueVars, localVars, historyVars>>

\* With ticks = 0 it fails at once, and the count stays taken down.
ZeroTicksFails(p) ==
  /\ pc[p] = "idle" /\ Operation(p) \in ZeroTickOps /\ NoUnit(p)
  /\ \/ /\ Operation(p) \in PushOps
        /\ push_sem' = push_sem - 1 /\ push_lost' = push_lost + 1
        /\ UNCHANGED <<pop_sem, pop_lost>>
     \/ /\ Operation(p) \notin PushOps
        /\ pop_sem' = pop_sem - 1 /\ pop_lost' = pop_lost + 1
        /\ UNCHANGED <<push_sem, push_lost>>
  /\ Return(p)
  /\ UNCHANGED <<queueVars, localVars, historyVars>>

-----------------------------------------------------------------------------
(* push                                                                    *)

push_load(p) ==
  /\ pc[p] = "push_load"
  /\ q' = [q EXCEPT ![p] = enq] /\ last' = [last EXCEPT ![p] = enq]
  /\ Goto(p, "push_scan")
  /\ UNCHANGED <<semVars, queueVars, step, s, elem, historyVars>>

\* Mutant: the generation is not looked at.
Current_any(slot, pos) == TRUE

Current(slot, pos) == slot.gen = pos.gen

push_scan(p) ==
  /\ pc[p] = "push_scan"
  /\ s' = [s EXCEPT ![p] = SlotOf(p)]
  /\ Goto(p, IF SlotOf(p).state = "EMPTY" /\ Current(SlotOf(p), q[p])
               THEN "push_claim" ELSE "push_reload")
  /\ UNCHANGED <<semVars, queueVars, step, q, last, elem, historyVars>>

\* Start again where another caller has moved enq or deq to, or go on.
Reload(p, now) ==
  /\ q' = [q EXCEPT ![p] = IF now # last[p] THEN now ELSE next(@)]
  /\ last' = [last EXCEPT ![p] = now]

push_reload(p) ==
  /\ pc[p] = "push_reload"
  /\ Reload(p, enq)
  /\ Goto(p, "push_scan")
  /\ UNCHANGED <<semVars, queueVars, step, s, elem, historyVars>>

\* Mark the slot as being pushed to or popped from.
Claim(p, state) == Swap(p, s[p], [s[p] EXCEPT !.state = state])

push_claim(p) ==
  /\ pc[p] = "push_claim"
  /\ \/ /\ Claim(p, "PUSH")
        /\ s' = [s EXCEPT ![p].state = "PUSH"]
        /\ Goto(p, "push_store")
     \/ /\ SlotOf(p) # s[p]
        /\ Goto(p, "push_load")
        /\ UNCHANGED <<slots, s>>
  /\ UNCHANGED <<semVars, enq, deq, data, step, q, last, elem, historyVars>>

push_store(p) ==
  /\ pc[p] = "push_store"
  /\ enq' = next(q[p])
  /\ Goto(p, "push_copy")
  /\ UNCHANGED <<semVars, deq, slots, data, step, localVars, historyVars>>

\* Elements are told apart by who pushes them and when.
Element(p) == <<p, step[p]>>

\* Mutant: the element goes where enq points by now.
Put_at_enq(p) == data' = [data EXCEPT ![enq.index] = Element(p)]

Put(p) == data' = [data EXCEPT ![q[p].index] = Element(p)]

push_copy(p) ==
  /\ pc[p] = "push_copy"
  /\ Put(p)
  /\ Goto(p, "push_publish")
  /\ UNCHANGED <<semVars, enq, deq, slots, step, localVars, historyVars>>

push_publish(p) ==
  /\ pc[p] = "push_publish"
  /\ \/ /\ Swap(p, s[p], [s[p] EXCEPT !.state = "FULL"])
        /\ pushed' = pushed \cup {Element(p)}
        /\ Goto(p, "push_post")
        /\ UNCHANGED s
     \/ /\ SlotOf(p) # s[p]
        /\ s' = [s EXCEPT ![p] = SlotOf(p)]
        /\ Goto(p, "push_restore")
        /\ UNCHANGED <<slots, pushed>>
  /\ UNCHANGED <<semVars, enq, deq, data, step, q, last, elem, log>>

\* A slot that has been skipped becomes empty again, and another one is sought.
push_restore(p) ==
  /\ pc[p] = "push_restore"
  /\ \/ /\ Swap(p, s[p], [s[p] EXCEPT !.state = "EMPTY"])
        /\ Goto(p, "push_load")
        /\ UNCHANGED s
     \/ /\ SlotOf(p) # s[p]
        /\ s' = [s EXCEPT ![p] = SlotOf(p)]
        /\ UNCHANGED <<slots, pc>>
  /\ UNCHANGED <<semVars, enq, deq, data, step, q, last, elem, historyVars>>

push_post(p) ==
  /\ pc[p] = "push_post"
  /\ pop_sem' = pop_sem + 1
  /\ Return(p)
  /\ UNCHANGED <<push_sem, lostVars, queueVars, localVars, historyVars>>

-----------------------------------------------------------------------------
(* pop and peek, which have most of their steps in common                  *)

Peeking(p) == Operation(p) \in PeekOps

pop_load(p) ==
  /\ pc[p] = "pop_load"
  /\ q' = [q EXCEPT ![p] = deq] /\ last' = [last EXCEPT ![p] = deq]
  /\ Goto(p, "pop_scan")
  /\ UNCHANGED <<semVars, queueVars, step, s, elem, historyVars>>

Readable(slot) == slot.state \in {"FULL", "POP"}

Unfinished(slot) == slot.state \in {"PUSH", "SKIPPED"}

pop_scan(p) ==
  /\ pc[p] = "pop_scan" /\ ~Peeking(p)
  /\ s' = [s EXCEPT ![p] = SlotOf(p)]
  /\ Goto(p, CASE Current(SlotOf(p), q[p]) /\ Unfinished(SlotOf(p)) -> "pop_skip"
               [] Current(SlotOf(p), q[p]) /\ Readable(SlotOf(p)) -> "pop_claim"
               [] OTHER -> "pop_reload")
  /\ UNCHANGED <<semVars, queueVars, step, q, last, elem, historyVars>>

peek_scan(p) ==
  /\ pc[p] = "pop_scan" /\ Peeking(p)
  /\ s' = [s EXCEPT ![p] = SlotOf(p)]
  /\ Goto(p, IF Current(SlotOf(p), q[p]) /\ Readable(SlotOf(p))
               THEN "pop_claim" ELSE "pop_reload")
  /\ UNCHANGED <<semVars, queueVars, step, q, last, elem, historyVars>>

\* Skip a push in progress, unless it has been completed in the meantime.
pop_skip(p) ==
  /\ pc[p] = "pop_skip"
  /\ \/ /\ Swap(p, s[p], Advanced(s[p], "SKIPPED"))
        /\ Goto(p, "pop_reload")
        /\ UNCHANGED s
     \/ /\ SlotOf(p) # s[p]
        /\ s' = [s EXCEPT ![p] = SlotOf(p)]
        /\ Goto(p, IF Readable(SlotOf(p)) THEN "pop_claim" ELSE "pop_reload")
        /\ UNCHANGED slots
  /\ UNCHANGED <<semVars, enq, deq, data, step, q, last, elem, historyVars>>

pop_reload(p) ==
  /\ pc[p] = "pop_reload"
  /\ Reload(p, deq)
  /\ Goto(p, "pop_scan")
  /\ UNCHANGED <<semVars, queueVars, step, s, elem, historyVars>>

\* The slot may already be claimed by another caller: the first to finish wins.
pop_claim(p) ==
  /\ pc[p] = "pop_claim"
  /\ \/ /\ Claim(p, "POP")
        /\ s' = [s EXCEPT ![p].state = "POP"]
        /\ Goto(p, "pop_copy")
     \/ /\ SlotOf(p) # s[p]
        /\ Goto(p, "pop_load")
        /\ UNCHANGED <<slots, s>>
  /\ UNCHANGED <<semVars, enq, deq, data, step, q, last, elem, historyVars>>

pop_copy(p) ==
  /\ pc[p] = "pop_copy"
  /\ elem' = [elem EXCEPT ![p] = data[q[p].index]]
  /\ Goto(p, IF Peeking(p) THEN "peek_release" ELSE "pop_free")
  /\ UNCHANGED <<semVars, queueVars, step, q, last, s, historyVars>>

Read(p) == log' = [log EXCEPT ![p] = Append(@, [op |-> Operation(p), elem |-> elem[p]])]

\* Mutant: the slot is freed even if another caller has finished with it.
Free_always(p) ==
  slots' = [slots EXCEPT ![q[p].index] = Advanced(s[p], "EMPTY")]

Free(p) == Swap(p, s[p], Advanced(s[p], "EMPTY"))

pop_free(p) ==
  /\ pc[p] = "pop_free"
  /\ \/ /\ Free(p)
        /\ Read(p)
        /\ Goto(p, "pop_store")
     \/ /\ SlotOf(p) # s[p]
        /\ Goto(p, "pop_load")
        /\ UNCHANGED <<slots, log>>
  /\ UNCHANGED <<semVars, enq, deq, data, step, localVars, pushed>>

pop_store(p) ==
  /\ pc[p] = "pop_store"
  /\ deq' = next(q[p])
  /\ Goto(p, "pop_post")
  /\ UNCHANGED <<semVars, enq, slots, data, step, localVars, historyVars>>

pop_post(p) ==
  /\ pc[p] = "pop_post"
  /\ push_sem' = push_sem + 1
  /\ Return(p)
  /\ UNCHANGED <<pop_sem, lostVars, queueVars, localVars, historyVars>>

\* A peek makes the slot full again, but of the next generation.
peek_release(p) ==
  /\ pc[p] = "peek_release"
  /\ \/ /\ Swap(p, s[p], Advanced(s[p], "FULL"))
        /\ Read(p)
        /\ Goto(p, "peek_post")
     \/ /\ SlotOf(p) # s[p]
        /\ Goto(p, "pop_load")
        /\ UNCHANGED <<slots, log>>
  /\ UNCHANGED <<semVars, enq, deq, data, step, localVars, pushed>>

peek_post(p) ==
  /\ pc[p] = "peek_post"
  /\ pop_sem' = pop_sem + 1
  /\ Return(p)
  /\ UNCHANGED <<push_sem, lostVars, queueVars, localVars, historyVars>>

-----------------------------------------------------------------------------

push(p) ==
  \/ push_load(p) \/ push_scan(p) \/ push_reload(p) \/ push_claim(p)
  \/ push_store(p) \/ push_copy(p) \/ push_publish(p) \/ push_restore(p)
  \/ push_post(p)

pop(p) ==
  \/ pop_load(p) \/ pop_scan(p) \/ pop_skip(p) \/ pop_reload(p)
  \/ pop_claim(p) \/ pop_copy(p) \/ pop_free(p) \/ pop_store(p) \/ pop_post(p)

peek(p) == peek_scan(p) \/ peek_release(p) \/ peek_post(p)

Call(p) ==
  \/ rt_queue_push(p) \/ rt_queue_pop(p) \/ rt_queue_peek(p)
  \/ TryFails(p) \/ TimesOut(p) \/ ZeroTicksFails(p)

\* The operation a caller is about to begin would not block.
CanCall(p) ==
  /\ Operation(p) \in Operations
  /\ NoUnit(p) => Operation(p) \in TryOps \cup ZeroTickOps

\* A caller does not run while one of higher priority is in the middle of an
\* operation, or has another to begin at once.  Callers of the same priority may
\* take turns at any time: sched prefers the next task to an active one of the
\* same priority.
Runs(p) ==
  /\ alone \in {Nobody, p}
  /\ \A r \in Callers : Rank[r] > Rank[p] => pc[r] = "idle" /\ ~(r \in Busy /\ CanCall(r))

Step(p) ==
  /\ Runs(p)
  /\ Call(p) \/ push(p) \/ pop(p) \/ peek(p)
  /\ UNCHANGED <<program, alone>>

Next == \E p \in Callers : Step(p)

Spec == Init /\ [][Next]_vars

\* The scheduler lets the task of highest priority run and no other: from some
\* moment on, which may be in the middle of its operation, one caller is alone.
Preempt(p) == alone = Nobody /\ program \in Preemptible /\ alone' = p
              /\ UNCHANGED <<semVars, queueVars, program, pc, step, localVars, historyVars>>

PreemptNext == Next \/ \E p \in Callers : Preempt(p)

LiveSpec == Init /\ [][PreemptNext]_vars /\ WF_vars(Next)

-----------------------------------------------------------------------------
(* Properties.                                                             *)

Holding == {i \in Indices : Readable(slots[i])}

\* A push that has not made its slot full yet, and a pop that has freed its slot.
Pushing(p) == pc[p] \in {"push_load", "push_scan", "push_reload", "push_claim",
                         "push_store", "push_copy", "push_publish", "push_restore"}
Freed(p) == pc[p] \in {"pop_store", "pop_post"}

\* A pop that has not freed its slot yet or a peek, and a push that has filled its slot.
Popping(p) == pc[p] \in {"pop_load", "pop_scan", "pop_reload", "pop_skip", "pop_claim",
                         "pop_copy", "pop_free", "peek_release", "peek_post"}
Filled(p) == pc[p] = "push_post"

\* Slots that can be written to are as many as the units of push_sem, the pushes
\* under way and the pops that have yet to give back their unit: a push that gets
\* past push_sem finds a slot.  Slots that can be read are as many as the units of
\* pop_sem, the pops and peeks under way and the pushes that have yet to post: so
\* does a pop, which is what the comment in pop about full slots relies on.  The one
\* thing that costs units is a timed call with ticks = 0 that fails: each leaves one
\* slot empty, or one element in the queue, for good.
TokensMatchSlots ==
  /\ NumElems - Cardinality(Holding)
       = push_sem + push_lost + Cardinality({p \in Callers : Pushing(p) \/ Freed(p)})
  /\ Cardinality(Holding)
       = pop_sem + pop_lost + Cardinality({p \in Callers : Popping(p) \/ Filled(p)})

\* Where element e has been popped.
Pops(e) ==
  UNION {{<<p, i>> : i \in {k \in DOMAIN log[p] :
                              log[p][k].op \in PopOps /\ log[p][k].elem = e}}
           : p \in Callers}

\* Every element pushed is in one slot until it is popped, and is popped once,
\* even if several callers read its slot at the same time and if its first slot
\* was skipped; and nothing else is ever read.
NothingLostOrDoubled ==
  /\ \A e \in pushed :
       Cardinality(Pops(e)) + Cardinality({i \in Holding : data[i] = e}) = 1
  /\ \A p \in Callers : \A i \in DOMAIN log[p] : log[p][i].elem \in pushed

\* A caller reads the elements of one pusher in the order of the pushes
\* (examples/queue.c:38 takes anything else for out of order).
InOrder ==
  \A p \in Callers : \A i, j \in DOMAIN log[p] :
    i < j /\ log[p][i].elem[1] = log[p][j].elem[1]
      => log[p][i].elem[2] <= log[p][j].elem[2]

\* With one pusher, and nobody who peeks, order is kept.
OnePusherInOrder ==
  LET Does(p, ops) == \E i \in DOMAIN program[p] : program[p][i] \in ops
  IN /\ Cardinality({p \in Callers : Does(p, PushOps)}) <= 1
     /\ \A p \in Callers : ~Does(p, PeekOps)
     => InOrder

\* What a caller peeks at is what it pops next, if nobody else uses the queue:
\* peek sets the slot back "so another popper/peeker can read it" (queue.c:230).
PeekedIsPopped ==
  \A p \in Callers : \A i \in 1..Len(log[p]) - 1 :
    log[p][i].op = "peek" /\ log[p][i + 1].op = "pop"
      => log[p][i].elem = log[p][i + 1].elem

\* The queue is lock-free: a caller that has preempted all others for good, in
\* whatever state of theirs, completes its operation.
CompletesAlone == \A p \in Callers : alone = p /\ pc[p] # "idle" ~> pc[p] = "idle"

=============================================================================
