-------------------------- MODULE LinkedListProofs --------------------------
(***************************************************************************)
(* The links of list.c stay consistent, for any lists, nodes and keys.     *)
(***************************************************************************)
EXTENDS LinkedList, TLAPS

LinkType ==
  /\ prev \in [Cells -> Cells \cup {Null}]
  /\ next \in [Cells -> Cells \cup {Null}]

\* While rt_list_insert_by runs, its node is on no list and its position is a
\* linked cell other than the node.
InsertInv ==
  list # Null =>
    /\ list \in Heads /\ node \in Nodes /\ successor \in Cells
    /\ Unlinked(node) /\ Linked(successor) /\ successor # node

LinkInv ==
  /\ LinkType /\ LinksConsistent /\ InsertInv
  /\ \A h \in Heads : Linked(h)

\* Initially the heads are linked to themselves and nothing else is linked.
LEMMA LinkInit == Init => LinkInv
BY LinkedListAssumption
DEF Init, LinkInv, LinkType, LinksConsistent, InsertInv, Linked, Cells

\* Linking an unlinked node in front of a linked cell keeps the links consistent.
LEMMA InsertLinks ==
  ASSUME LinkType, LinksConsistent, \A h \in Heads : Linked(h),
         NEW n \in Nodes, NEW x \in Cells, Unlinked(n), Linked(x), x # n,
         insert(n, prev[x], x)
  PROVE  /\ LinkType' /\ LinksConsistent'
         /\ \A h \in Heads : Linked(h)'
<1>1. n \in Cells /\ Null \notin Cells
  BY LinkedListAssumption DEF Cells
<1>2. prev[x] \in Cells /\ prev[x] # n /\ next[prev[x]] = x
  BY <1>1 DEF LinksConsistent, Linked, Unlinked
<1>3. LinkType'
  BY <1>1, <1>2 DEF insert, LinkType
<1>4. LinksConsistent'
  <2> SUFFICES ASSUME NEW y \in Cells
               PROVE  /\ next'[y] # Null <=> prev'[y] # Null
                      /\ next'[y] # Null =>
                           /\ next'[y] \in Cells /\ prev'[y] \in Cells
                           /\ prev'[next'[y]] = y /\ next'[prev'[y]] = y
    BY DEF LinksConsistent, Linked
  <2> QED BY <1>1, <1>2 DEF insert, LinkType, LinksConsistent, Linked, Unlinked
<1>5. \A h \in Heads : Linked(h)'
  BY <1>1, <1>2 DEF insert, LinkType, Linked, Cells
<1> QED BY <1>3, <1>4, <1>5

\* Taking a linked cell out of its ring keeps the links consistent.
LEMMA UnlinkLinks ==
  ASSUME LinkType, LinksConsistent, \A h \in Heads : Linked(h),
         NEW n \in Cells, Linked(n), Unlink(n)
  PROVE  /\ LinkType' /\ LinksConsistent'
         /\ \A h \in Heads : Linked(h)'
<1>1. Null \notin Cells
  BY LinkedListAssumption
<1>2. /\ next[n] \in Cells /\ prev[n] \in Cells
      /\ prev[next[n]] = n /\ next[prev[n]] = n
  BY DEF LinksConsistent
<1>3. LinkType'
  BY <1>2 DEF Unlink, LinkType
<1>4. LinksConsistent'
  <2> SUFFICES ASSUME NEW y \in Cells
               PROVE  /\ next'[y] # Null <=> prev'[y] # Null
                      /\ next'[y] # Null =>
                           /\ next'[y] \in Cells /\ prev'[y] \in Cells
                           /\ prev'[next'[y]] = y /\ next'[prev'[y]] = y
    BY DEF LinksConsistent, Linked
  <2> QED BY <1>1, <1>2 DEF Unlink, LinkType, LinksConsistent, Linked
<1>5. \A h \in Heads : Linked(h)'
  BY <1>1, <1>2 DEF Unlink, LinkType, Linked, Cells
<1> QED BY <1>3, <1>4, <1>5

\* Moving a list to an empty one keeps the links consistent.
LEMMA MoveLinks ==
  ASSUME LinkInv, NEW dst \in Heads, NEW src \in Heads, dst # src,
         rt_list_move_all(dst, src)
  PROVE  /\ LinkType' /\ LinksConsistent'
         /\ \A h \in Heads : Linked(h)'
<1> DEFINE last == prev[src]
           first == next[src]
<1>1. Null \notin Cells /\ dst \in Cells /\ src \in Cells
  BY LinkedListAssumption DEF Cells
<1>2. /\ Linked(src) /\ next[dst] = dst /\ prev[dst] = dst
      /\ last \in Cells /\ first \in Cells
      /\ prev[first] = src /\ next[last] = src /\ last # dst /\ first # dst
  BY <1>1 DEF LinkInv, LinksConsistent, Linked, rt_list_move_all
<1>3. CASE last = src
  <2>1. first = src
    BY <1>2, <1>3
  <2>2. prev' = prev /\ next' = next
    BY <1>1, <1>2, <1>3, <2>1 DEF rt_list_move_all, LinkInv, LinkType
  <2> QED BY <2>2 DEF LinkInv, LinkType, LinksConsistent, Linked
<1>4. CASE last # src
  <2>1. first # src
    BY <1>2, <1>4
  <2>2. /\ prev' = [prev EXCEPT ![src] = src, ![dst] = last, ![first] = dst]
        /\ next' = [next EXCEPT ![src] = src, ![dst] = first, ![last] = dst]
    BY <1>1, <1>2, <1>4, <2>1 DEF rt_list_move_all, LinkInv, LinkType
  <2>3. LinkType'
    BY <1>1, <1>2, <2>2 DEF LinkInv, LinkType
  <2>4. LinksConsistent'
    <3> SUFFICES ASSUME NEW y \in Cells
                 PROVE  /\ next'[y] # Null <=> prev'[y] # Null
                        /\ next'[y] # Null =>
                             /\ next'[y] \in Cells /\ prev'[y] \in Cells
                             /\ prev'[next'[y]] = y /\ next'[prev'[y]] = y
      BY DEF LinksConsistent, Linked
    <3> QED BY <1>1, <1>2, <1>4, <2>1, <2>2
            DEF LinkInv, LinkType, LinksConsistent, Linked
  <2>5. \A h \in Heads : Linked(h)'
    BY <1>1, <1>2, <2>2 DEF LinkInv, LinkType, Linked, Cells
  <2> QED BY <2>3, <2>4, <2>5
<1> QED BY <1>3, <1>4

\* Every step keeps the invariant.
LEMMA LinkStep == LinkInv /\ [Next]_vars => LinkInv'
<1> SUFFICES ASSUME LinkInv, [Next]_vars PROVE LinkInv'
  OBVIOUS
<1> USE DEF LinkInv
<1>0. Null \notin Cells /\ Heads \cap Nodes = {} /\ Null \notin Heads
  BY LinkedListAssumption DEF Cells
\* Outside rt_list_insert_by there is nothing to say of its variables.
<1>idle. ASSUME Idle, UNCHANGED insertVars PROVE InsertInv'
  BY <1>idle DEF Idle, insertVars, InsertInv
<1>1. ASSUME NEW n \in Nodes, rt_list_init(n) PROVE LinkInv'
  <2>1. LinkType'
    BY <1>1 DEF rt_list_init, LinkType, Cells
  <2>2. LinksConsistent'
    BY <1>0, <1>1 DEF rt_list_init, LinkType, LinksConsistent, Linked, Unlinked, Cells
  <2>3. \A h \in Heads : Linked(h)'
    BY <1>0, <1>1 DEF rt_list_init, LinkType, Linked, Cells
  <2> QED BY <1>idle, <1>1, <2>1, <2>2, <2>3 DEF rt_list_init
<1>2. ASSUME NEW n \in Nodes, rt_list_remove(n) PROVE LinkInv'
  BY <1>idle, <1>2, UnlinkLinks DEF rt_list_remove, Linked, Cells
<1>3. ASSUME NEW h \in Heads, rt_list_pop_front(h) PROVE LinkInv'
  <2>1. next[h] \in Cells /\ Linked(next[h])
    BY <1>0 DEF LinksConsistent, Linked, Cells
  <2> QED BY <1>idle, <1>3, <2>1, UnlinkLinks DEF rt_list_pop_front
<1>4. ASSUME NEW n \in Nodes, NEW x \in Cells, rt_list_insert_before(n, x)
      PROVE  LinkInv'
  <2>1. Linked(x)
    BY <1>4 DEF rt_list_insert_before, Linked, Unlinked
  <2> QED BY <1>idle, <1>4, <2>1, InsertLinks DEF rt_list_insert_before
<1>5. ASSUME NEW n \in Nodes, NEW h \in Heads, rt_list_push_front(h, n)
      PROVE  LinkInv'
  <2>1. /\ next[h] \in Cells /\ Linked(next[h]) /\ prev[next[h]] = h
        /\ next[h] # n
    BY <1>0, <1>5 DEF rt_list_push_front, LinksConsistent, Linked, Unlinked, Cells
  <2> QED BY <1>idle, <1>5, <2>1, InsertLinks DEF rt_list_push_front
<1>6. ASSUME NEW n \in Nodes, NEW h \in Heads, rt_list_push_back(h, n)
      PROVE  LinkInv'
  BY <1>0, <1>idle, <1>6, InsertLinks DEF rt_list_push_back, Cells
<1>7. ASSUME NEW n \in Nodes, NEW h \in Heads, rt_list_insert_by(h, n)
      PROVE  LinkInv'
  <2>1. next[h] \in Cells /\ Linked(next[h]) /\ next[h] # n
    BY <1>0, <1>7 DEF rt_list_insert_by, LinksConsistent, Linked, Unlinked, Cells
  <2> QED BY <1>7, <2>1 DEF rt_list_insert_by, linkVars, LinkType, LinksConsistent,
             InsertInv, Linked, Unlinked
<1>8. ASSUME rt_list_for_each PROVE LinkInv'
  <2>1. /\ list # Null /\ successor \in Cells /\ Linked(successor)
        /\ node \in Nodes /\ Unlinked(node) /\ successor # node
    BY <1>8 DEF rt_list_for_each, Idle, InsertInv
  <2>2. /\ next[successor] \in Cells /\ Linked(next[successor])
        /\ next[successor] # node
    BY <1>0, <2>1 DEF LinksConsistent, Linked, Unlinked, Cells
  <2> QED BY <1>8, <2>1, <2>2 DEF rt_list_for_each, linkVars, LinkType,
             LinksConsistent, InsertInv, Linked, Unlinked
<1>9. ASSUME rt_list_insert_by_end PROVE LinkInv'
  <2>1. /\ successor \in Cells /\ Linked(successor)
        /\ node \in Nodes /\ Unlinked(node) /\ successor # node
    BY <1>9 DEF rt_list_insert_by_end, Idle, InsertInv
  <2>2. InsertInv'
    BY <1>9 DEF rt_list_insert_by_end, InsertInv
  <2> QED BY <1>9, <2>1, <2>2, InsertLinks DEF rt_list_insert_by_end
<1>10. ASSUME NEW dst \in Heads, NEW src \in Heads, dst # src,
              rt_list_move_all(dst, src)
       PROVE  LinkInv'
  BY <1>idle, <1>10, MoveLinks, Zenon DEF rt_list_move_all
<1>11. CASE UNCHANGED vars
  BY <1>11 DEF vars, linkVars, insertVars, LinkType, LinksConsistent, InsertInv,
               Linked, Unlinked
<1> QED
  BY <1>1, <1>2, <1>3, <1>4, <1>5, <1>6, <1>7, <1>8, <1>9, <1>10, <1>11
  DEF Next, Operation, InsertBy

\* In every list of list.c, next and prev are inverse to each other, whatever
\* calls are made in whatever order: the property LinksConsistent, for any number
\* of lists and nodes.
THEOREM LinksStayConsistent == Spec => []LinksConsistent
<1>1. LinkInv => LinksConsistent
  BY DEF LinkInv
<1> QED BY LinkInit, LinkStep, <1>1, PTL DEF Spec

=============================================================================
