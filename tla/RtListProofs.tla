---------------------------- MODULE RtListProofs ----------------------------
(***************************************************************************)
(* What the list operations of the kernel do to a list without repeated    *)
(* nodes, for lists of any length.                                         *)
(***************************************************************************)
EXTENDS RtList, SequenceTheorems, WellFoundedInduction, TLAPS

\* A nonempty set of natural numbers has a least element, which Min chooses.
LEMMA MinIsLeast ==
  ASSUME NEW S \in SUBSET Nat, S # {}
  PROVE  Min(S) \in S /\ \A x \in S : Min(S) <= x
<1>1. PICK m \in S : \A y \in S : ~(<<y, m>> \in OpToRel(<, Nat))
  BY NatLessThanWellFounded, WFMin
<1>2. \A y \in S : y < m => <<y, m>> \in OpToRel(<, Nat)
  BY Zenon DEF OpToRel
<1>3. \A y \in S : ~(y < m)
  BY <1>1, <1>2
<1>4. \A y \in S : m <= y
  BY <1>3
<1> QED BY <1>4, Zenon DEF Min

\* The elements of a sequence with one more inserted at position i.
LEMMA InsertedAt ==
  ASSUME NEW S, NEW list \in Seq(S), NEW e \in S, NEW i \in 1..Len(list) + 1
  PROVE  LET new == InsertAt(list, i, e)
         IN /\ new \in Seq(S) /\ Len(new) = Len(list) + 1
            /\ new[i] = e
            /\ \A j \in 1..i - 1 : new[j] = list[j]
            /\ \A j \in i..Len(list) : new[j + 1] = list[j]
<1> DEFINE front == SubSeq(list, 1, i - 1)
           back == SubSeq(list, i, Len(list))
           new == front \o <<e>> \o back
<1>1. /\ front \in Seq(S) /\ Len(front) = i - 1
      /\ \A j \in 1..i - 1 : front[j] = list[j]
  BY SubSeqProperties
<1>2. /\ back \in Seq(S) /\ Len(back) = Len(list) - i + 1
      /\ \A j \in 1..Len(list) - i + 1 : back[j] = list[i + j - 1]
  BY SubSeqProperties
<1>3. \A j \in i..Len(list) : back[j + 1 - i] = list[j]
  BY <1>2
<1> HIDE DEF front, back
<1>4. /\ front \o <<e>> \in Seq(S) /\ Len(front \o <<e>>) = i
      /\ \A j \in 1..i - 1 : (front \o <<e>>)[j] = list[j]
      /\ (front \o <<e>>)[i] = e
  BY <1>1
<1>5. /\ new \in Seq(S) /\ Len(new) = Len(list) + 1
      /\ \A j \in 1..i : new[j] = (front \o <<e>>)[j]
  BY <1>2, <1>4
<1>6. \A j \in i..Len(list) : new[j + 1] = back[j + 1 - i]
  BY <1>2, <1>4
<1>7. \A j \in i..Len(list) : new[j + 1] = list[j]
  BY <1>3, <1>6, Zenon
<1>8. new = InsertAt(list, i, e)
  BY DEF InsertAt, front, back
<1> HIDE DEF new
<1> QED BY <1>4, <1>5, <1>7, <1>8

\* The elements of a sequence without the one at position i.
LEMMA RemovedAt ==
  ASSUME NEW S, NEW list \in Seq(S), NEW i \in 1..Len(list)
  PROVE  LET new == RemoveAt(list, i)
         IN /\ new \in Seq(S) /\ Len(new) = Len(list) - 1
            /\ \A j \in 1..i - 1 : new[j] = list[j]
            /\ \A j \in i + 1..Len(list) : new[j - 1] = list[j]
<1> DEFINE front == SubSeq(list, 1, i - 1)
           back == SubSeq(list, i + 1, Len(list))
           new == front \o back
<1>1. /\ front \in Seq(S) /\ Len(front) = i - 1
      /\ \A j \in 1..i - 1 : front[j] = list[j]
  BY SubSeqProperties
<1>2. /\ back \in Seq(S) /\ Len(back) = Len(list) - i
      /\ \A j \in 1..Len(list) - i : back[j] = list[i + 1 + j - 1]
  BY SubSeqProperties
<1>3. \A j \in i + 1..Len(list) : back[j - i] = list[j]
  BY <1>2
<1> HIDE DEF front, back
<1>4. /\ new \in Seq(S) /\ Len(new) = Len(list) - 1
      /\ \A j \in 1..Len(list) - 1 :
           new[j] = IF j <= i - 1 THEN front[j] ELSE back[j - (i - 1)]
  <2>1. /\ new \in Seq(S) /\ Len(new) = Len(front) + Len(back)
        /\ \A j \in 1..Len(front) + Len(back) :
             new[j] = IF j <= Len(front) THEN front[j] ELSE back[j - Len(front)]
    BY <1>1, <1>2, ConcatProperties, Zenon
  <2> HIDE DEF new
  <2> QED BY <2>1, <1>1, <1>2
<1>6. \A j \in i + 1..Len(list) : /\ j - 1 \in 1..Len(list) - 1 /\ ~(j - 1 <= i - 1)
                                  /\ (j - 1) - (i - 1) = j - i
  OBVIOUS
<1>7. \A j \in 1..i - 1 : j \in 1..Len(list) - 1 /\ j <= i - 1
  OBVIOUS
<1>8. \A j \in i + 1..Len(list) : new[j - 1] = list[j]
  BY <1>3, <1>4, <1>6, Zenon
<1>9. \A j \in 1..i - 1 : new[j] = list[j]
  BY <1>1, <1>4, <1>7, Zenon
<1>5. new = RemoveAt(list, i)
  BY DEF RemoveAt, front, back
<1> HIDE DEF new
<1> QED BY <1>4, <1>5, <1>8, <1>9

\* rt_list_insert_by adds the node to the list, once.
LEMMA InsertedBy ==
  ASSUME NEW S, NEW list \in Seq(S), IsInjective(list), NEW node \in S,
         ~Contains(list, node), NEW later
  PROVE  LET new == rt_list_insert_by(list, node, later)
         IN /\ new \in Seq(S) /\ Len(new) = Len(list) + 1
            /\ IsInjective(new)
            /\ \A x : Contains(new, x) <=> x = node \/ Contains(list, x)
<1> DEFINE successors == {k \in 1..Len(list) : list[k] \in later}
           i == IF successors = {} THEN Len(list) + 1 ELSE Min(successors)
           new == InsertAt(list, i, node)
<1>1. i \in 1..Len(list) + 1
  <2>1. successors \in SUBSET Nat /\ successors \subseteq 1..Len(list)
    OBVIOUS
  <2>2. successors # {} => Min(successors) \in successors
    BY <2>1, MinIsLeast, Zenon
  <2> QED BY <2>1, <2>2
<1> HIDE DEF i
<1>2. /\ new \in Seq(S) /\ Len(new) = Len(list) + 1
      /\ new[i] = node
      /\ \A j \in 1..i - 1 : new[j] = list[j]
      /\ \A j \in i..Len(list) : new[j + 1] = list[j]
  BY <1>1, InsertedAt
<1>3. new = rt_list_insert_by(list, node, later)
  BY DEF rt_list_insert_by, i
<1> HIDE DEF new
<1>4. \A j \in 1..Len(new) : \/ j = i
                             \/ j \in 1..i - 1 /\ j \in 1..Len(list) /\ new[j] = list[j]
                             \/ j \in i + 1..Len(new) /\ j - 1 \in 1..Len(list)
                                /\ new[j] = list[j - 1]
  <2> SUFFICES ASSUME NEW j \in 1..Len(new), j # i
               PROVE  \/ j \in 1..i - 1 /\ j \in 1..Len(list) /\ new[j] = list[j]
                      \/ j \in i + 1..Len(new) /\ j - 1 \in 1..Len(list)
                         /\ new[j] = list[j - 1]
    OBVIOUS
  <2>1. CASE j < i
    BY <2>1, <1>1, <1>2
  <2>2. CASE j > i
    <3>1. j - 1 \in i..Len(list) /\ (j - 1) + 1 = j
      BY <2>2, <1>1, <1>2
    <3>2. new[j] = list[j - 1]
      BY <3>1, <1>2
    <3> QED BY <3>1, <3>2, <2>2, <1>1
  <2> QED BY <2>1, <2>2, <1>1
<1>5. \A x : Contains(list, x) => Contains(new, x)
  <2> SUFFICES ASSUME NEW x, NEW j \in 1..Len(list), list[j] = x
               PROVE  Contains(new, x)
    BY DEF Contains
  <2>1. CASE j < i
    <3>1. j \in 1..i - 1 /\ j \in 1..Len(new)
      BY <2>1, <1>1, <1>2
    <3> QED BY <3>1, <1>2 DEF Contains
  <2>2. CASE j >= i
    <3>1. j \in i..Len(list) /\ j + 1 \in 1..Len(new)
      BY <2>2, <1>1, <1>2
    <3> QED BY <3>1, <1>2 DEF Contains
  <2> QED BY <2>1, <2>2, <1>1
<1>6. \A x : Contains(new, x) => x = node \/ Contains(list, x)
  BY <1>2, <1>4, SMTT(40) DEF Contains
<1>7. Contains(new, node)
  BY <1>1, <1>2 DEF Contains
<1>8. IsInjective(new)
  <2> SUFFICES ASSUME NEW j \in 1..Len(new), NEW k \in 1..Len(new),
                      new[j] = new[k], j < k
               PROVE  FALSE
    BY <1>2, LenProperties DEF IsInjective
  <2>0. \A a, b \in 1..Len(list) : list[a] = list[b] => a = b
    BY LenProperties DEF IsInjective
  <2>1. \A a \in 1..Len(new) : a # i => new[a] # node
    BY <1>4, SMTT(40) DEF Contains
  <2>2. j # i /\ k # i
    BY <2>1, <1>2
  <2> QED BY <2>0, <2>2, <1>1, <1>4, SMTT(40)
<1> QED BY <1>2, <1>3, <1>5, <1>6, <1>7, <1>8

\* The nodes are in descending order of their keys.
Descending(key, list) ==
  \A i, j \in 1..Len(list) : i < j => key[list[i]] >= key[list[j]]

\* rt_list_insert_by keeps a list in order: the node comes after those that are not
\* to come later.
LEMMA InsertedInOrder ==
  ASSUME NEW S, NEW key \in [S -> Int], NEW list \in Seq(S), Descending(key, list),
         NEW node \in S, NEW later, \A x \in S : x \in later <=> key[node] > key[x]
  PROVE  Descending(key, rt_list_insert_by(list, node, later))
<1> DEFINE successors == {k \in 1..Len(list) : list[k] \in later}
           i == IF successors = {} THEN Len(list) + 1 ELSE Min(successors)
           new == InsertAt(list, i, node)
<1>0. /\ successors \in SUBSET Nat /\ successors \subseteq 1..Len(list)
      /\ \A k \in 1..Len(list) : k \in successors <=> key[node] > key[list[k]]
  BY ElementOfSeq
<1>1. /\ i \in 1..Len(list) + 1
      /\ \A k \in 1..i - 1 : k \in 1..Len(list) /\ key[list[k]] >= key[node]
      /\ i \in 1..Len(list) => key[node] > key[list[i]]
  <2>1. CASE successors = {}
    <3>1. i = Len(list) + 1
      BY <2>1
    <3>2. \A k \in 1..Len(list) : ~(key[node] > key[list[k]])
      BY <2>1, <1>0
    <3>3. \A k \in 1..Len(list) : key[list[k]] >= key[node]
      BY <3>2, ElementOfSeq
    <3> QED BY <3>1, <3>3
  <2>2. CASE successors # {}
    <3>1. i \in successors /\ \A k \in successors : i <= k
      BY <2>2, <1>0, MinIsLeast, Zenon
    <3> HIDE DEF i
    <3>2. \A k \in 1..i - 1 : k \in 1..Len(list) /\ k \notin successors
      BY <3>1, <1>0
    <3>3. \A k \in 1..i - 1 : k \in 1..Len(list) /\ key[list[k]] >= key[node]
      BY <3>2, <1>0, ElementOfSeq
    <3> QED BY <3>1, <3>3, <1>0
  <2> QED BY <2>1, <2>2, Zenon
<1> HIDE DEF i
<1>2. /\ new \in Seq(S) /\ Len(new) = Len(list) + 1
      /\ new[i] = node
      /\ \A j \in 1..i - 1 : new[j] = list[j]
      /\ \A j \in i..Len(list) : new[j + 1] = list[j]
  BY <1>1, InsertedAt
<1>3. new = rt_list_insert_by(list, node, later)
  BY DEF rt_list_insert_by, i
<1> HIDE DEF new
<1> SUFFICES ASSUME NEW j \in 1..Len(new), NEW k \in 1..Len(new), j < k
             PROVE  key[new[j]] >= key[new[k]]
  BY <1>3 DEF Descending
<1>4. \A a \in 1..Len(list) : key[list[a]] \in Int
  BY ElementOfSeq
<1>5. \A a, b \in 1..Len(list) : a < b => key[list[a]] >= key[list[b]]
  BY DEF Descending
<1>6. \A a \in i..Len(list) : key[node] > key[list[a]]
  <2> TAKE a \in i..Len(list)
  <2>1. i \in 1..Len(list) /\ a \in 1..Len(list) /\ (i = a \/ i < a)
    BY <1>1
  <2>2. key[node] > key[list[i]] /\ (i = a \/ key[list[i]] >= key[list[a]])
    BY <2>1, <1>1, <1>5
  <2> QED BY <2>1, <2>2, <1>4
<1>7. CASE k < i
  <2>1. /\ j \in 1..i - 1 /\ k \in 1..i - 1
        /\ j \in 1..Len(list) /\ k \in 1..Len(list)
    BY <1>7, <1>1
  <2> QED BY <2>1, <1>2, <1>5, Zenon
<1>8. CASE k = i
  <2>1. j \in 1..i - 1
    BY <1>8
  <2> QED BY <2>1, <1>8, <1>1, <1>2, Zenon
<1>9. CASE k > i
  <2>1. k - 1 \in i..Len(list) /\ (k - 1) + 1 = k /\ k - 1 \in 1..Len(list)
    BY <1>9, <1>1, <1>2
  <2>2. new[k] = list[k - 1]
    BY <2>1, <1>2, Zenon
  <2>3. CASE j < i
    <3>1. j \in 1..i - 1 /\ j \in 1..Len(list) /\ j < k - 1
      BY <2>3, <1>9, <1>1
    <3>2. new[j] = list[j]
      BY <3>1, <1>2, SMTT(40)
    <3> QED BY <3>1, <3>2, <2>1, <2>2, <1>5
  <2>4. CASE j = i
    BY <2>4, <2>1, <2>2, <1>2, <1>6, <1>4, SMTT(40)
  <2>5. CASE j > i
    <3>1. j - 1 \in i..Len(list) /\ (j - 1) + 1 = j /\ j - 1 \in 1..Len(list) /\ j - 1 < k - 1
      BY <2>5, <1>9, <1>1, <1>2
    <3>2. new[j] = list[j - 1]
      BY <3>1, <1>2, Zenon
    <3> QED BY <3>1, <3>2, <2>1, <2>2, <1>5, SMTT(40)
  <2> QED BY <2>3, <2>4, <2>5, <1>1
<1> QED BY <1>7, <1>8, <1>9, <1>1

\* rt_list_remove takes the node off the list, and changes nothing if it is not on it.
LEMMA Removed ==
  ASSUME NEW S, NEW list \in Seq(S), IsInjective(list), NEW node
  PROVE  LET new == rt_list_remove(list, node)
         IN /\ new \in Seq(S) /\ IsInjective(new)
            /\ Len(new) = IF Contains(list, node) THEN Len(list) - 1 ELSE Len(list)
            /\ \A x : Contains(new, x) <=> x # node /\ Contains(list, x)
<1> DEFINE new == rt_list_remove(list, node)
<1>0. \A a, b \in 1..Len(list) : list[a] = list[b] => a = b
  BY LenProperties DEF IsInjective
<1>1. CASE ~Contains(list, node)
  <2>1. new = list
    BY <1>1 DEF rt_list_remove, Contains
  <2> QED BY <1>1, <2>1
<1>2. CASE Contains(list, node)
  <2> DEFINE I == {k \in 1..Len(list) : list[k] = node}
             i == Min(I)
  <2>1. I \in SUBSET Nat /\ I # {}
    BY <1>2 DEF Contains
  <2>2. i \in I
    BY <2>1, MinIsLeast, Zenon
  <2>3. i \in 1..Len(list) /\ list[i] = node
    BY <2>2
  <2>4. new = RemoveAt(list, i)
    BY <1>2, <2>1 DEF rt_list_remove, Contains
  <2> HIDE DEF i, new
  <2>5. /\ new \in Seq(S) /\ Len(new) = Len(list) - 1
        /\ \A j \in 1..i - 1 : new[j] = list[j]
        /\ \A j \in i + 1..Len(list) : new[j - 1] = list[j]
    BY <2>3, <2>4, RemovedAt, Zenon
  <2>6. \A j \in 1..Len(new) :
          \/ j < i /\ j \in 1..Len(list) /\ new[j] = list[j]
          \/ j >= i /\ j + 1 \in 1..Len(list) /\ new[j] = list[j + 1]
    <3> TAKE j \in 1..Len(new)
    <3>1. CASE j < i
      BY <3>1, <2>3, <2>5
    <3>2. CASE j >= i
      <4>1. j + 1 \in i + 1..Len(list) /\ (j + 1) - 1 = j
        BY <3>2, <2>3, <2>5
      <4>2. new[j] = list[j + 1]
        BY <4>1, <2>5
      <4> QED BY <4>1, <4>2, <3>2, <2>3
    <3> QED BY <3>1, <3>2, <2>3
  <2>7. IsInjective(new)
    <3> SUFFICES ASSUME NEW j \in 1..Len(new), NEW k \in 1..Len(new), new[j] = new[k]
                 PROVE  j = k
      BY <2>5, LenProperties DEF IsInjective
    <3> QED BY <2>3, <2>6, <1>0
  <2>8. \A x : Contains(new, x) => x # node /\ Contains(list, x)
    <3> SUFFICES ASSUME NEW x, NEW j \in 1..Len(new), new[j] = x
                 PROVE  x # node /\ Contains(list, x)
      BY DEF Contains
    <3>1. PICK k \in 1..Len(list) : k # i /\ list[k] = x
      <4>1. j < i => j # i
        BY <2>3
      <4>2. j >= i => j + 1 # i
        BY <2>3
      <4> QED BY <4>1, <4>2, <2>6
    <3> QED BY <3>1, <2>3, <1>0 DEF Contains
  <2>9. \A x : x # node /\ Contains(list, x) => Contains(new, x)
    <3> SUFFICES ASSUME NEW k \in 1..Len(list), list[k] # node
                 PROVE  \E j \in 1..Len(new) : new[j] = list[k]
      BY DEF Contains
    <3>1. CASE k < i
      BY <3>1, <2>3, <2>5
    <3>2. CASE k > i
      <4>1. k \in i + 1..Len(list) /\ k - 1 \in 1..Len(new)
        BY <3>2, <2>3, <2>5
      <4> QED BY <4>1, <2>5
    <3> QED BY <3>1, <3>2, <2>3
  <2> QED BY <1>2, <2>5, <2>7, <2>8, <2>9 DEF new
<1> QED BY <1>1, <1>2

\* The front node and the rest of a list.
LEMMA FrontAndRest ==
  ASSUME NEW S, NEW list \in Seq(S), IsInjective(list), list # <<>>
  PROVE  /\ Head(list) \in S /\ Contains(list, Head(list))
         /\ Tail(list) \in Seq(S) /\ IsInjective(Tail(list))
         /\ Len(Tail(list)) = Len(list) - 1
         /\ \A x : Contains(Tail(list), x) <=> x # Head(list) /\ Contains(list, x)
<1> DEFINE h == Head(list)
           new == Tail(list)
<1>0. \A a, b \in 1..Len(list) : list[a] = list[b] => a = b
  BY LenProperties DEF IsInjective
<1>1. /\ h \in S /\ h = list[1] /\ Len(list) \in Nat \ {0}
      /\ new \in Seq(S) /\ Len(new) = Len(list) - 1
      /\ \A i \in 1..Len(new) : new[i] = list[i + 1]
  BY HeadTailProperties, EmptySeq
<1> HIDE DEF h, new
<1>2. Contains(list, h)
  BY <1>1 DEF Contains
<1>3. \A i \in 1..Len(new) : i + 1 \in 1..Len(list) /\ i + 1 # 1
  BY <1>1
<1>4. IsInjective(new)
  <2> SUFFICES ASSUME NEW j \in 1..Len(new), NEW k \in 1..Len(new), new[j] = new[k]
               PROVE  j = k
    BY <1>1, LenProperties DEF IsInjective
  <2>1. list[j + 1] = list[k + 1]
    BY <1>1
  <2> QED BY <2>1, <1>0, <1>3
<1>5. \A x : Contains(new, x) => x # h /\ Contains(list, x)
  <2> SUFFICES ASSUME NEW i \in 1..Len(new)
               PROVE  new[i] # h /\ Contains(list, new[i])
    BY DEF Contains
  <2>1. new[i] = list[i + 1] /\ i + 1 \in 1..Len(list) /\ i + 1 # 1 /\ 1 \in 1..Len(list)
    BY <1>1, <1>3
  <2> QED BY <2>1, <1>0, <1>1 DEF Contains
<1>6. \A x : x # h /\ Contains(list, x) => Contains(new, x)
  <2> SUFFICES ASSUME NEW i \in 1..Len(list), list[i] # h
               PROVE  \E j \in 1..Len(new) : new[j] = list[i]
    BY DEF Contains
  <2>1. i # 1
    BY <1>1
  <2>2. i - 1 \in 1..Len(new) /\ (i - 1) + 1 = i
    BY <2>1, <1>1
  <2> QED BY <2>2, <1>1, Zenon
<1> QED BY <1>1, <1>2, <1>4, <1>5, <1>6 DEF h, new

\* The rest of a list is in order, and the front node is first in this order.
LEMMA FrontIsFirst ==
  ASSUME NEW S, NEW key \in [S -> Int], NEW list \in Seq(S), Descending(key, list),
         list # <<>>
  PROVE  /\ Descending(key, Tail(list))
         /\ \A x : Contains(list, x) => key[Head(list)] >= key[x]
<1>1. /\ Head(list) = list[1] /\ Len(list) \in Nat \ {0} /\ Head(list) \in S
      /\ Tail(list) \in Seq(S) /\ Len(Tail(list)) = Len(list) - 1
      /\ \A i \in 1..Len(Tail(list)) : Tail(list)[i] = list[i + 1]
  BY HeadTailProperties, EmptySeq
<1>2. Descending(key, Tail(list))
  <2> SUFFICES ASSUME NEW j \in 1..Len(Tail(list)), NEW k \in 1..Len(Tail(list)), j < k
               PROVE  key[Tail(list)[j]] >= key[Tail(list)[k]]
    BY DEF Descending
  <2>1. /\ Tail(list)[j] = list[j + 1] /\ Tail(list)[k] = list[k + 1]
        /\ j + 1 \in 1..Len(list) /\ k + 1 \in 1..Len(list) /\ j + 1 < k + 1
    BY <1>1
  <2> QED BY <2>1 DEF Descending
<1>3. ASSUME NEW i \in 1..Len(list) PROVE key[list[1]] >= key[list[i]]
  <2>1. 1 \in 1..Len(list) /\ (i = 1 \/ 1 < i) /\ key[list[1]] \in Int
    BY <1>1
  <2> QED BY <2>1 DEF Descending
<1> QED BY <1>1, <1>2, <1>3 DEF Contains

\* What becomes of Contains when an element is put in front.
LEMMA ContainsPush ==
  ASSUME NEW S, NEW q \in Seq(S), NEW r \in S, NEW x
  PROVE  /\ <<r>> \o q \in Seq(S)
         /\ Contains(<<r>> \o q, x) <=> x = r \/ Contains(q, x)
<1> DEFINE p == <<r>> \o q
<1>1. p \in Seq(S) /\ Len(p) = Len(q) + 1
  OBVIOUS
<1>2. p[1] = r /\ \A i \in 1..Len(q) : p[i + 1] = q[i]
  OBVIOUS
<1>3. ASSUME Contains(p, x) PROVE x = r \/ Contains(q, x)
  <2>1. PICK i \in 1..Len(p) : p[i] = x
    BY <1>3 DEF Contains
  <2>2. CASE i = 1
    BY <2>1, <2>2, <1>2
  <2>3. CASE i # 1
    <3>1. i - 1 \in 1..Len(q) /\ p[(i - 1) + 1] = q[i - 1]
      BY <2>1, <2>3, <1>1, <1>2
    <3> QED BY <3>1, <2>1 DEF Contains
  <2> QED BY <2>2, <2>3
<1>4. ASSUME x = r PROVE Contains(p, x)
  BY <1>1, <1>2, <1>4 DEF Contains
<1>5. ASSUME Contains(q, x) PROVE Contains(p, x)
  <2>1. PICK i \in 1..Len(q) : q[i] = x
    BY <1>5 DEF Contains
  <2>2. i + 1 \in 1..Len(p) /\ p[i + 1] = x
    BY <2>1, <1>1, <1>2
  <2> QED BY <2>2 DEF Contains
<1> QED BY <1>1, <1>3, <1>4, <1>5

\* The same for the first element that is taken off.
LEMMA ContainsTail ==
  ASSUME NEW S, NEW q \in Seq(S), q # <<>>, NEW x
  PROVE  /\ Head(q) \in S /\ Tail(q) \in Seq(S)
         /\ Contains(q, x) <=> x = Head(q) \/ Contains(Tail(q), x)
<1>1. Head(q) \in S /\ Tail(q) \in Seq(S) /\ q = <<Head(q)>> \o Tail(q)
  OBVIOUS
<1>2. Contains(<<Head(q)>> \o Tail(q), x) <=> x = Head(q) \/ Contains(Tail(q), x)
  BY <1>1, ContainsPush, Zenon
<1> QED BY <1>1, <1>2, Zenon

\* Nothing is on an empty list.
LEMMA ContainsEmpty == ASSUME NEW x PROVE ~Contains(<<>>, x)
  BY DEF Contains

\* The elements of a list, as a set and by position.
LEMMA ContainsRange ==
  ASSUME NEW S, NEW list \in Seq(S), NEW x
  PROVE  x \in Range(list) <=> Contains(list, x)
  BY LenProperties DEF Range, Contains

\* A list has only elements of its type.
LEMMA ContainsType ==
  ASSUME NEW S, NEW list \in Seq(S), NEW x, Contains(list, x)
  PROVE  x \in S
  BY ElementOfSeq DEF Contains

\* A sequence without repeated elements stays one when a new element is pushed.
LEMMA InjectivePush ==
  ASSUME NEW S, NEW q \in Seq(S), IsInjective(q), NEW r \in S, ~Contains(q, r)
  PROVE  IsInjective(<<r>> \o q)
<1> DEFINE p == <<r>> \o q
<1>1. p \in Seq(S) /\ Len(p) = Len(q) + 1
  OBVIOUS
<1>2. p[1] = r /\ \A i \in 2..Len(p) : i - 1 \in 1..Len(q) /\ p[i] = q[i - 1]
  OBVIOUS
<1>3. \A a, b \in 1..Len(q) : q[a] = q[b] => a = b
  BY LenProperties DEF IsInjective
<1>4. \A a \in 1..Len(q) : q[a] # r
  BY DEF Contains
<1> HIDE DEF p
<1> SUFFICES ASSUME NEW j \in 1..Len(p), NEW k \in 1..Len(p), p[j] = p[k]
             PROVE  j = k
  BY <1>1, LenProperties DEF IsInjective, p
<1>5. CASE j = 1 \/ k = 1
  BY <1>5, <1>2, <1>4
<1>6. CASE j \in 2..Len(p) /\ k \in 2..Len(p)
  <2>1. q[j - 1] = q[k - 1] /\ j - 1 \in 1..Len(q) /\ k - 1 \in 1..Len(q)
    BY <1>2, <1>6
  <2> QED BY <2>1, <1>3
<1> QED BY <1>5, <1>6, <1>1

\* Two lists that have no element in common, one after the other.
LEMMA ConcatInjective ==
  ASSUME NEW S, NEW p \in Seq(S), NEW q \in Seq(S), IsInjective(p), IsInjective(q),
         \A x \in S : ~(Contains(p, x) /\ Contains(q, x))
  PROVE  IsInjective(p \o q)
<1> DEFINE r == p \o q
<1>1. /\ r \in Seq(S) /\ Len(r) = Len(p) + Len(q)
      /\ \A i \in 1..Len(r) : r[i] = IF i <= Len(p) THEN p[i] ELSE q[i - Len(p)]
  BY ConcatProperties
<1> HIDE DEF r
<1>2. /\ \A a, b \in 1..Len(p) : p[a] = p[b] => a = b
      /\ \A a, b \in 1..Len(q) : q[a] = q[b] => a = b
  BY LenProperties DEF IsInjective
<1>3. \A a \in 1..Len(p), b \in 1..Len(q) : p[a] # q[b]
  BY ElementOfSeq DEF Contains
<1>4. \A i \in 1..Len(r) : /\ i <= Len(p) => i \in 1..Len(p) /\ r[i] = p[i]
                           /\ i > Len(p) => i - Len(p) \in 1..Len(q) /\ r[i] = q[i - Len(p)]
  BY <1>1
<1> SUFFICES ASSUME NEW i \in 1..Len(r), NEW j \in 1..Len(r), r[i] = r[j]
             PROVE  i = j
  BY <1>1, LenProperties DEF IsInjective, r
<1>5. CASE i <= Len(p) /\ j <= Len(p)
  BY <1>5, <1>2, <1>4
<1>6. CASE i > Len(p) /\ j > Len(p)
  <2>1. i - Len(p) = j - Len(p)
    BY <1>6, <1>2, <1>4, ZenonT(40)
  <2> QED BY <2>1, <1>1
<1>7. CASE i <= Len(p) /\ j > Len(p)
  BY <1>7, <1>3, <1>4
<1>8. CASE i > Len(p) /\ j <= Len(p)
  BY <1>8, <1>3, <1>4
<1>9. Len(p) \in Nat /\ i \in Int /\ j \in Int
  BY <1>1, LenProperties
<1> QED BY <1>5, <1>6, <1>7, <1>8, <1>9

=============================================================================
