------------------------------- MODULE RtList -------------------------------
(***************************************************************************)
(* The lists of muntos (src/src/list.c) as the kernel uses them: a list    *)
(* head is the sequence of the nodes linked to it, front first.  A node is *)
(* on at most one list, and a node on no list is linked to itself, so that *)
(* removing it changes nothing.                                            *)
(***************************************************************************)
EXTENDS Integers, Sequences, Functions, FiniteSetsExt

\* The operators on sequences that the lists need.  SequencesExt has them too, but
\* extending it would bring the theorems on which Bags rests, over a hundred of them,
\* into the scope of every proof about the kernel.
Contains(list, node) == \E i \in 1..Len(list) : list[i] = node

InsertAt(list, i, node) ==
  SubSeq(list, 1, i - 1) \o <<node>> \o SubSeq(list, i, Len(list))

RemoveAt(list, i) == SubSeq(list, 1, i - 1) \o SubSeq(list, i + 1, Len(list))

\* rt_list_insert_by walks the list up to the first node that cmp puts after the
\* new one (the set later has these nodes) and inserts the new node before it, or
\* at the back when there is none.
rt_list_insert_by(list, node, later) ==
  LET successors == {i \in 1..Len(list) : list[i] \in later}
  IN InsertAt(list, IF successors = {} THEN Len(list) + 1 ELSE Min(successors),
              node)

\* rt_list_remove unlinks a node from the list it is on; a node that is on no
\* list is linked to itself and stays so.
rt_list_remove(list, node) ==
  LET positions == {i \in 1..Len(list) : list[i] = node}
  IN IF positions = {} THEN list ELSE RemoveAt(list, Min(positions))

=============================================================================
