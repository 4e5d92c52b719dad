------------------------------- MODULE Lists --------------------------------
(***************************************************************************)
(* What the lists of muntos (src/include/muntos/list.h) promise: each list *)
(* is a sequence of nodes, and every operation changes the sequences and   *)
(* nothing else.  Kernel is built on these operations.                     *)
(***************************************************************************)
EXTENDS RtList

CONSTANTS
  Heads,  \* the lists
  Nodes,  \* the nodes, each on at most one list
  Key     \* what rt_list_insert_by compares

VARIABLE lists

Init == lists = [h \in Heads |-> <<>>]

Unlinked(n) == \A h \in Heads : ~Contains(lists[h], n)

push_front(h, n) ==
  /\ Unlinked(n)
  /\ lists' = [lists EXCEPT ![h] = <<n>> \o @]

push_back(h, n) ==
  /\ Unlinked(n)
  /\ lists' = [lists EXCEPT ![h] = Append(@, n)]

insert_before(n, h, i) ==
  /\ Unlinked(n)
  /\ i \in 1..Len(lists[h])
  /\ lists' = [lists EXCEPT ![h] = InsertAt(@, i, n)]

\* A node that is on no list is left alone.
remove(n) == lists' = [h \in Heads |-> rt_list_remove(lists[h], n)]

pop_front(h) ==
  /\ lists[h] # <<>>
  /\ lists' = [lists EXCEPT ![h] = Tail(@)]

insert_by(h, n) ==
  /\ Unlinked(n)
  /\ lists' = [lists EXCEPT ![h] =
                 rt_list_insert_by(@, n, {m \in Nodes : Key[n] > Key[m]})]

move_all(dst, src) ==
  /\ lists[dst] = <<>>
  /\ lists' = [lists EXCEPT ![src] = <<>>, ![dst] = lists[src]]

Next ==
  \/ \E h \in Heads, n \in Nodes :
       \/ push_front(h, n) \/ push_back(h, n) \/ insert_by(h, n)
       \/ \E i \in 1..Len(lists[h]) : insert_before(n, h, i)
  \/ \E n \in Nodes : remove(n)
  \/ \E h \in Heads : pop_front(h)
  \/ \E dst, src \in Heads : dst # src /\ move_all(dst, src)

Spec == Init /\ [][Next]_lists

=============================================================================
