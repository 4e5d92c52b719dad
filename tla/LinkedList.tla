----------------------------- MODULE LinkedList -----------------------------
(***************************************************************************)
(* The circular doubly linked lists of src/src/list.c, with their          *)
(* pointers.  The lists of the kernel are used by one thread of control,   *)
(* so an operation is one action; the loop of rt_list_insert_by, which     *)
(* depends on the links being sound, takes one action per turn.            *)
(***************************************************************************)
EXTENDS Integers, Sequences, FiniteSets, FiniteSetsExt

CONSTANTS
  Heads,  \* the lists
  Nodes,  \* the nodes, each on at most one list
  Key,    \* what the comparison of rt_list_insert_by looks at
  Null    \* the pointers of a node that has not been initialised

Cells == Heads \cup Nodes

ASSUME LinkedListAssumption ==
  /\ Heads \cap Nodes = {} /\ Null \notin Cells
  /\ IsFiniteSet(Nodes)
  /\ Key \in [Nodes -> Nat]

VARIABLES
  prev, next,       \* the pointers of each head and node
  list, node, successor  \* rt_list_insert_by: its arguments and its position

linkVars == <<prev, next>>
insertVars == <<list, node, successor>>
vars == <<linkVars, insertVars>>

\* No rt_list_insert_by is under way.
Idle == list = Null

\* RT_LIST_INIT makes an empty list; nodes need no initialisation.
Init ==
  /\ prev = [x \in Cells |-> IF x \in Heads THEN x ELSE Null] /\ next = prev
  /\ list = Null /\ node = Null /\ successor = Null

\* A node may be inserted if it is on no list.
Unlinked(n) == next[n] \in {Null, n}

\* Mutant: the node is not linked to from behind.
insert_oneway(n, before, after) ==
  /\ prev' = [prev EXCEPT ![n] = before]
  /\ next' = [next EXCEPT ![before] = n, ![n] = after]

\* Link node n in between two neighbours.
insert(n, before, after) ==
  /\ prev' = [prev EXCEPT ![after] = n, ![n] = before]
  /\ next' = [next EXCEPT ![before] = n, ![n] = after]

rt_list_init(n) ==
  /\ Idle /\ Unlinked(n)
  /\ prev' = [prev EXCEPT ![n] = n] /\ next' = [next EXCEPT ![n] = n]
  /\ UNCHANGED insertVars

\* Insert before another node or, at the back, before the head.
rt_list_insert_before(n, x) ==
  /\ Idle /\ Unlinked(n) /\ x # n
  /\ x \in Heads \/ ~Unlinked(x)
  /\ insert(n, prev[x], x)
  /\ UNCHANGED insertVars

rt_list_push_front(h, n) ==
  /\ Idle /\ Unlinked(n)
  /\ insert(n, h, next[h])
  /\ UNCHANGED insertVars

rt_list_push_back(h, n) ==
  /\ Idle /\ Unlinked(n)
  /\ insert(n, prev[h], h)
  /\ UNCHANGED insertVars

\* The node is linked to itself, and its neighbours to each other.
Unlink(n) ==
  /\ prev' = [prev EXCEPT ![n] = n, ![next[n]] = prev[n]]
  /\ next' = [next EXCEPT ![n] = n, ![prev[n]] = next[n]]

rt_list_remove(n) ==
  /\ Idle /\ next[n] # Null
  /\ Unlink(n)
  /\ UNCHANGED insertVars

\* An empty list is left as it is, and is returned as its own front.
rt_list_pop_front(h) ==
  /\ Idle
  /\ Unlink(next[h])
  /\ UNCHANGED insertVars

rt_list_insert_by(h, n) ==
  /\ Idle /\ Unlinked(n)
  /\ list' = h /\ node' = n /\ successor' = next[h]
  /\ UNCHANGED linkVars

\* Mutant: nodes of equal key go in front.
Before_equal(n, m) == Key[n] >= Key[m]

\* The comparison: larger keys go first, as task_priority_greater_than has it.
Before(n, m) == Key[n] > Key[m]

\* Mutant: the walk does not stop at the head.
rt_list_for_each_endless ==
  /\ ~Idle
  /\ successor # list => ~Before(node, successor)
  /\ successor' = next[successor]
  /\ UNCHANGED <<linkVars, list, node>>

rt_list_for_each ==
  /\ ~Idle /\ successor # list /\ ~Before(node, successor)
  /\ successor' = next[successor]
  /\ UNCHANGED <<linkVars, list, node>>

rt_list_insert_by_end ==
  /\ ~Idle
  /\ successor # list => Before(node, successor)
  /\ insert(node, prev[successor], successor)
  /\ list' = Null /\ node' = Null /\ successor' = Null

\* Put dst, an empty list, in front of src and take src out of the ring.
rt_list_move_all(dst, src) ==
  LET last == prev[src]
      prev1 == [prev EXCEPT ![src] = dst, ![dst] = last]
      next1 == [next EXCEPT ![last] = dst, ![dst] = src]
  IN /\ Idle /\ next[dst] = dst
     /\ prev' = [prev1 EXCEPT ![src] = src, ![next1[src]] = prev1[src]]
     /\ next' = [next1 EXCEPT ![src] = src, ![prev1[src]] = next1[src]]
     /\ UNCHANGED insertVars

Operation ==
  \/ \E n \in Nodes : rt_list_init(n) \/ rt_list_remove(n)
  \/ \E h \in Heads : rt_list_pop_front(h)
  \/ \E n \in Nodes, x \in Cells : rt_list_insert_before(n, x)
  \/ \E n \in Nodes, h \in Heads :
       rt_list_push_front(h, n) \/ rt_list_push_back(h, n) \/ rt_list_insert_by(h, n)
  \/ \E dst, src \in Heads : dst # src /\ rt_list_move_all(dst, src)

InsertBy == rt_list_for_each \/ rt_list_insert_by_end

Next == Operation \/ InsertBy

Spec == Init /\ [][Next]_vars

\* A call of rt_list_insert_by keeps running; whether another call is made is up
\* to the caller.
LiveSpec == Spec /\ WF_vars(InsertBy)

-----------------------------------------------------------------------------
(* Properties.                                                             *)

Linked(x) == next[x] # Null

\* The pointers agree in both directions, whatever is inserted, removed and moved
\* in whatever order: following next and then prev leads back, also for a node
\* that has been removed, which rt_list_remove may be given again
\* (muntos.c:175 removes a task that need not be asleep).
LinksConsistent ==
  \A x \in Cells :
    /\ Linked(x) <=> prev[x] # Null
    /\ Linked(x) => /\ next[x] \in Cells /\ prev[x] \in Cells
                    /\ prev[next[x]] = x /\ next[prev[x]] = x

\* The sequence of nodes on list h: the cells from which following next leads
\* back to h.
ListOf(h) ==
  LET Steps == 0..Cardinality(Nodes) + 1
      at[i \in Steps] == IF i = 0 THEN h ELSE next[at[i - 1]]
      ends == {i \in Steps \ {0} : at[i] = h}
      length == IF ends = {} THEN 0 ELSE Min(ends) - 1
  IN [i \in 1..length |-> at[i]]

Abstract == INSTANCE Lists WITH lists <- [h \in Heads |-> ListOf(h)]

\* Every step does something to the lists that Lists allows, and each operation does
\* to them, as sequences, what it is for, and leaves the other lists alone.  In
\* particular rt_list_insert_by inserts "at the first position where cmp(node,
\* node->next)" (list.h:28), behind nodes of equal key, and a node that is on no list
\* may be removed once more (muntos.c:175).
ImplementsLists ==
  /\ Abstract!Spec
  /\ [][/\ \A n \in Nodes, h \in Heads :
             /\ rt_list_push_front(h, n) => Abstract!push_front(h, n)
             /\ rt_list_push_back(h, n) => Abstract!push_back(h, n)
        /\ \A n \in Nodes : rt_list_remove(n) => Abstract!remove(n)
        /\ \A h \in Heads :
             rt_list_pop_front(h) => \/ Abstract!pop_front(h)
                                     \/ ListOf(h) = <<>> /\ UNCHANGED linkVars
        /\ rt_list_insert_by_end => Abstract!insert_by(list, node)
        /\ \A dst, src \in Heads :
             dst # src /\ rt_list_move_all(dst, src) => Abstract!move_all(dst, src)
       ]_vars

\* rt_list_insert_by comes to an end: the walk meets the head again.
InsertByEnds == ~Idle ~> Idle

=============================================================================
