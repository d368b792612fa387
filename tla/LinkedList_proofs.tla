-------------------------- MODULE LinkedList_proofs --------------------------
(***************************************************************************)
(* What the pointer operations of LinkedList preserve, for every number of *)
(* nodes: the list stays one ring of the head and the listed nodes.        *)
(***************************************************************************)
EXTENDS LinkedList, SequenceFacts, FiniteSetTheorems

\* The place of the ring that is i steps of next from the head.
At(s, i) == IF i \in 1..Len(s) THEN s[i] ELSE head

\* The nodes, each of them once, in the order s, and the head are a ring.
Ring(links, nodes, s) ==
    /\ \A i \in 1..Len(s) : s[i] \in nodes
    /\ \A n \in nodes : \E i \in 1..Len(s) : s[i] = n
    /\ \A i, j \in 1..Len(s) : s[i] = s[j] => i = j
    /\ \A i \in 0..Len(s) : /\ links.next[At(s, i)] = At(s, i + 1)
                            /\ links.prev[At(s, i + 1)] = At(s, i)

IsRing(links, nodes) ==
    /\ links \in Links /\ nodes \subseteq Nodes
    /\ \E s \in Seq(Nodes) : Ring(links, nodes, s)

(***************************************************************************)
(* Every place of a ring is at some index.                                 *)
(***************************************************************************)
LEMMA RingIndex ==
    ASSUME NEW links, NEW nodes, nodes \subseteq Nodes, NEW s \in Seq(Nodes),
           Ring(links, nodes, s), NEW n \in nodes \cup {head}
    PROVE  \E i \in 0..Len(s) : At(s, i) = n
<1>1. CASE n = head
  <2>1. 0 \in 0..Len(s) /\ 0 \notin 1..Len(s)
    OBVIOUS
  <2> QED
    BY <1>1, <2>1 DEF At
<1>2. CASE n \in nodes
  <2>1. PICK i \in 1..Len(s) : s[i] = n
    BY <1>2 DEF Ring
  <2> QED
    BY <2>1 DEF At
<1> QED
  BY <1>1, <1>2

(***************************************************************************)
(* The pointers of a ring lead to its places and back, and from no node to *)
(* itself.                                                                 *)
(***************************************************************************)
LEMMA RingSteps ==
    ASSUME NEW links, NEW nodes, IsRing(links, nodes), NEW n \in nodes \cup {head}
    PROVE  /\ links.next[n] \in nodes \cup {head} /\ links.prev[links.next[n]] = n
           /\ links.prev[n] \in nodes \cup {head} /\ links.next[links.prev[n]] = n
           /\ n # head => links.next[n] # n
<1>1. PICK s \in Seq(Nodes) : Ring(links, nodes, s)
  BY DEF IsRing
<1>2. PICK i \in 0..Len(s) : At(s, i) = n
  BY <1>1, RingIndex DEF IsRing
<1>3. \A j \in 0..(Len(s) + 1) : At(s, j) \in nodes \cup {head}
  BY <1>1 DEF Ring, At
<1>4. links.next[n] = At(s, i + 1) /\ links.prev[At(s, i + 1)] = n
  BY <1>1, <1>2 DEF Ring
<1>5. PICK k \in 0..Len(s) : At(s, k + 1) = n
  <2>1. CASE i = 0
    <3>1. n = head /\ Len(s) + 1 \notin 1..Len(s)
      BY <1>2, <2>1 DEF At
    <3> QED
      BY <3>1 DEF At
  <2>2. CASE i # 0
    <3>1. i - 1 \in 0..Len(s) /\ (i - 1) + 1 = i
      BY <2>2
    <3> QED
      BY <1>2, <3>1
  <2> QED
    BY <2>1, <2>2
<1>6. links.prev[n] = At(s, k) /\ links.next[At(s, k)] = n
  BY <1>1, <1>5 DEF Ring
<1>7. ASSUME n # head PROVE links.next[n] # n
  <2>1. i \in 1..Len(s) /\ n = s[i]
    BY <1>2, <1>7 DEF At
  <2>2. At(s, i + 1) # s[i]
    <3>1. CASE i = Len(s)
      BY <1>7, <2>1, <3>1 DEF At
    <3>2. CASE i # Len(s)
      BY <1>1, <2>1, <3>2 DEF At, Ring
    <3> QED
      BY <3>1, <3>2
  <2> QED
    BY <1>4, <2>1, <2>2
<1>8. i + 1 \in 0..(Len(s) + 1) /\ k \in 0..(Len(s) + 1)
  OBVIOUS
<1> QED
  BY <1>3, <1>4, <1>6, <1>7, <1>8

(***************************************************************************)
(* No place is twice in a ring; the head is before and behind the nodes.   *)
(***************************************************************************)
LEMMA RingDistinct ==
    ASSUME NEW links, NEW nodes, nodes \subseteq Nodes, NEW s \in Seq(Nodes),
           Ring(links, nodes, s)
    PROVE  /\ \A i, j \in 0..Len(s) : At(s, i) = At(s, j) => i = j
           /\ \A i, j \in 1..(Len(s) + 1) : At(s, i) = At(s, j) => i = j
<1>1. \A i \in 1..Len(s) : s[i] # head
  BY HeadAssumption
<1>2. \A i, j \in 1..Len(s) : s[i] = s[j] => i = j
  BY DEF Ring
<1> QED
  BY <1>1, <1>2 DEF At

(***************************************************************************)
(* The empty list.                                                         *)
(***************************************************************************)
LEMMA RingInit == IsRing(InitList, {})
<1>1. <<>> \in Seq(Nodes) /\ Len(<<>>) = 0
  OBVIOUS
<1>2. Ring(InitList, {}, <<>>)
  <2>1. \A i \in {0, 1} : At(<<>>, i) = head
    BY DEF At
  <2> QED
    BY <1>1, <2>1 DEF Ring, InitList, Places
<1>3. InitList \in Links
  BY DEF InitList, Links, Places
<1> QED
  BY <1>1, <1>2, <1>3 DEF IsRing

(***************************************************************************)
(* list_delete takes one node out of the ring.                             *)
(***************************************************************************)
LEMMA RingDeleteAt ==
    ASSUME NEW links \in Links, NEW nodes \in SUBSET Nodes, NEW s \in Seq(Nodes),
           Ring(links, nodes, s), NEW k \in 1..Len(s)
    PROVE  /\ ListDelete(links, s[k]) \in Links
           /\ RemoveAt(s, k) \in Seq(Nodes)
           /\ Ring(ListDelete(links, s[k]), nodes \ {s[k]}, RemoveAt(s, k))
<1> DEFINE node == s[k]
           new == ListDelete(links, node)
<1>1. links \in Links /\ nodes \subseteq Nodes
  OBVIOUS
<1>2. Ring(links, nodes, s)
  OBVIOUS
<1>3. k \in 1..Len(s) /\ s[k] = node /\ node \in nodes
  BY DEF Ring
<1> DEFINE m == Len(s) - 1
           t == RemoveAt(s, k)
<1>4. /\ m \in Nat /\ t \in Seq(Nodes) /\ Len(t) = m
      /\ \A i \in 1..m : t[i] = IF i < k THEN s[i] ELSE s[i + 1]
  BY RemoveAtFacts
<1> HIDE DEF node, t
<1>5. \A i \in 1..m : t[i] = IF i < k THEN s[i] ELSE s[i + 1]
  BY <1>4
<1>6. \A i \in 0..(m + 1) : At(t, i) = IF i < k THEN At(s, i) ELSE At(s, i + 1)
  BY <1>4, <1>5 DEF At
<1>7. At(s, k) = node /\ links.prev[node] = At(s, k - 1) /\ links.next[node] = At(s, k + 1)
  <2>1. At(s, k) = node
    BY <1>3 DEF At
  <2>2. k \in 0..Len(s) /\ k - 1 \in 0..Len(s) /\ (k - 1) + 1 = k
    OBVIOUS
  <2> QED
    BY <1>2, <2>1, <2>2 DEF Ring
<1>8. \A i \in 0..(Len(s) + 1) : At(s, i) \in Places
  BY DEF At, Places
<1>9. /\ new.next = [links.next EXCEPT ![At(s, k - 1)] = At(s, k + 1)]
      /\ new.prev = [links.prev EXCEPT ![At(s, k + 1)] = At(s, k - 1)]
  BY <1>7 DEF ListDelete
<1>10. new \in Links
  <2>1. k - 1 \in 0..(Len(s) + 1) /\ k + 1 \in 0..(Len(s) + 1)
    OBVIOUS
  <2>2. At(s, k - 1) \in Places /\ At(s, k + 1) \in Places
    BY <1>8, <2>1
  <2>3. new = [next |-> new.next, prev |-> new.prev]
    BY DEF ListDelete
  <2>4. new.next \in [Places -> Places] /\ new.prev \in [Places -> Places]
    BY <1>1, <1>9, <2>2 DEF Links
  <2> HIDE DEF new
  <2> QED
    BY <2>3, <2>4 DEF Links
<1> HIDE DEF new
<1>11. ASSUME NEW i \in 0..m
       PROVE  new.next[At(t, i)] = At(t, i + 1) /\ new.prev[At(t, i + 1)] = At(t, i)
  <2>1. CASE i < k - 1
    <3>1. At(t, i) = At(s, i) /\ At(t, i + 1) = At(s, i + 1)
      BY <1>4, <1>6, <2>1
    <3>2. links.next[At(s, i)] = At(s, i + 1) /\ links.prev[At(s, i + 1)] = At(s, i)
      BY <1>2, <1>4 DEF Ring
    <3>3. At(s, i) # At(s, k - 1) /\ At(s, i + 1) # At(s, k + 1)
      BY <1>1, <1>2, <2>1, RingDistinct
    <3>4. At(s, i) \in Places /\ At(s, i + 1) \in Places
      BY <1>8
    <3> QED
      BY <1>1, <1>9, <3>1, <3>2, <3>3, <3>4 DEF Links
  <2>2. CASE i = k - 1
    <3>1. At(t, i) = At(s, k - 1) /\ At(t, i + 1) = At(s, k + 1)
      BY <1>4, <1>6, <2>2
    <3>2. At(s, k - 1) \in Places /\ At(s, k + 1) \in Places
      BY <1>8
    <3> QED
      BY <1>1, <1>9, <3>1, <3>2 DEF Links
  <2>3. CASE i > k - 1
    <3>1. At(t, i) = At(s, i + 1) /\ At(t, i + 1) = At(s, i + 2)
      BY <1>4, <1>6, <2>3
    <3>2. i + 1 \in 0..Len(s) /\ (i + 1) + 1 = i + 2
      OBVIOUS
    <3>3. links.next[At(s, i + 1)] = At(s, i + 2) /\ links.prev[At(s, i + 2)] = At(s, i + 1)
      BY <1>2, <3>2 DEF Ring
    <3>4. At(s, i + 1) # At(s, k - 1) /\ At(s, i + 2) # At(s, k + 1)
      BY <1>1, <1>2, <2>3, RingDistinct
    <3>5. At(s, i + 1) \in Places /\ At(s, i + 2) \in Places
      BY <1>8
    <3> QED
      BY <1>1, <1>9, <3>1, <3>3, <3>4, <3>5 DEF Links
  <2> QED
    BY <2>1, <2>2, <2>3
<1>12. ASSUME NEW i \in 1..m PROVE t[i] \in nodes \ {node}
  <2>1. PICK j \in 1..Len(s) : j # k /\ t[i] = s[j]
    BY <1>5
  <2> QED
    BY <1>2, <1>3, <2>1 DEF Ring
<1>13. ASSUME NEW n \in nodes \ {node} PROVE \E i \in 1..m : t[i] = n
  <2>1. PICK j \in 1..Len(s) : s[j] = n
    BY <1>2 DEF Ring
  <2>2. CASE j < k
    BY <1>5, <2>1, <2>2
  <2>3. CASE j > k
    <3>1. j - 1 \in 1..m /\ ~(j - 1 < k) /\ (j - 1) + 1 = j
      BY <2>3
    <3> QED
      BY <1>5, <2>1, <3>1
  <2> QED
    BY <1>3, <2>1, <2>2, <2>3
<1>14. \A i, j \in 1..m : t[i] = t[j] => i = j
  BY <1>2, <1>5 DEF Ring
<1>15. Ring(new, nodes \ {node}, t)
  BY <1>4, <1>11, <1>12, <1>13, <1>14 DEF Ring
<1> QED
  BY <1>4, <1>10, <1>15 DEF new, node, t

LEMMA RingDelete ==
    ASSUME NEW links, NEW nodes, IsRing(links, nodes), NEW node \in nodes
    PROVE  IsRing(ListDelete(links, node), nodes \ {node})
<1>1. links \in Links /\ nodes \in SUBSET Nodes
  BY DEF IsRing
<1>2. PICK s \in Seq(Nodes) : Ring(links, nodes, s)
  BY DEF IsRing
<1>3. PICK k \in 1..Len(s) : s[k] = node
  BY <1>2 DEF Ring
<1> QED
  BY <1>1, <1>2, <1>3, RingDeleteAt DEF IsRing

(***************************************************************************)
(* list_add_between adds a node to the ring, between two neighbours.       *)
(***************************************************************************)
LEMMA RingAddAt ==
    ASSUME NEW links \in Links, NEW nodes \in SUBSET Nodes, NEW s \in Seq(Nodes),
           Ring(links, nodes, s), NEW k \in 0..Len(s), NEW node \in Nodes \ nodes
    PROVE  LET new == ListAddBetween(links, node, At(s, k), At(s, k + 1))
           IN  /\ new \in Links
               /\ InsertAt(s, k + 1, node) \in Seq(Nodes)
               /\ Ring(new, nodes \cup {node}, InsertAt(s, k + 1, node))
<1> DEFINE before == At(s, k)
           after == At(s, k + 1)
           new == ListAddBetween(links, node, before, after)
<1>1. links \in Links /\ nodes \subseteq Nodes /\ node # head /\ node \in Places
  BY HeadAssumption DEF Places
<1>2. Ring(links, nodes, s)
  OBVIOUS
<1>3. k \in 0..Len(s) /\ At(s, k) = before
  OBVIOUS
<1>4. At(s, k + 1) = after
  OBVIOUS
<1> DEFINE m == Len(s) + 1
           t == InsertAt(s, k + 1, node)
<1>5. /\ m \in Nat /\ t \in Seq(Nodes) /\ Len(t) = m
      /\ \A i \in 1..m : t[i] = IF i < k + 1 THEN s[i] ELSE IF i = k + 1 THEN node ELSE s[i - 1]
  <2>1. PICK p \in 1..Len(s) + 1 : p = k + 1
    OBVIOUS
  <2>2. node \in Nodes
    OBVIOUS
  <2>3. InsertAt(s, p, node) \in Seq(Nodes) /\ Len(InsertAt(s, p, node)) = Len(s) + 1
    BY <2>2, InsertAtFacts
  <2>4. \A i \in 1..Len(s) + 1 :
            InsertAt(s, p, node)[i] = IF i < p THEN s[i] ELSE IF i = p THEN node ELSE s[i - 1]
    BY <2>2, SMTT(60), InsertAtFacts
  <2>5. t = InsertAt(s, p, node) /\ m \in Nat
    BY <2>1
  <2> HIDE DEF t
  <2> QED
    BY <2>1, <2>3, <2>4, <2>5
<1> HIDE DEF before, after, t
<1>6. \A i \in 1..m : t[i] = IF i <= k THEN s[i] ELSE IF i = k + 1 THEN node ELSE s[i - 1]
  BY <1>5
<1>7. \A i \in 0..(m + 1) : At(t, i) = IF i <= k THEN At(s, i)
                                       ELSE IF i = k + 1 THEN node ELSE At(s, i - 1)
  BY <1>5, <1>6 DEF At
<1>8. \A i \in 0..(Len(s) + 1) : At(s, i) \in Places /\ At(s, i) # node
  <2>1. \A i \in 1..Len(s) : s[i] \in nodes
    BY <1>2 DEF Ring
  <2> QED
    BY <1>1, <2>1 DEF At, Places
<1>9. before \in Places /\ after \in Places /\ before # node /\ after # node
  BY <1>3, <1>4, <1>8
<1>10. /\ new.next = [links.next EXCEPT ![node] = after, ![before] = node]
       /\ new.prev = [links.prev EXCEPT ![after] = node, ![node] = before]
  BY DEF ListAddBetween
<1>11. new \in Links
  <2>1. new = [next |-> new.next, prev |-> new.prev]
    BY DEF ListAddBetween
  <2>2. new.next \in [Places -> Places] /\ new.prev \in [Places -> Places]
    BY <1>1, <1>9, <1>10 DEF Links
  <2> HIDE DEF new
  <2> QED
    BY <2>1, <2>2 DEF Links
<1> HIDE DEF new
<1>12. /\ \A n \in Places : new.next[n] = IF n = before THEN node ELSE
                                         IF n = node THEN after ELSE links.next[n]
       /\ \A n \in Places : new.prev[n] = IF n = node THEN before ELSE
                                         IF n = after THEN node ELSE links.prev[n]
  BY <1>1, <1>9, <1>10 DEF Links
<1>13. ASSUME NEW i \in 0..m
       PROVE  new.next[At(t, i)] = At(t, i + 1) /\ new.prev[At(t, i + 1)] = At(t, i)
  <2>1. CASE i < k
    <3>1. At(t, i) = At(s, i) /\ At(t, i + 1) = At(s, i + 1)
      BY <1>5, <1>7, <2>1
    <3>2. links.next[At(s, i)] = At(s, i + 1) /\ links.prev[At(s, i + 1)] = At(s, i)
      BY <1>2, <2>1 DEF Ring
    <3>3. At(s, i) # before /\ At(s, i + 1) # after
      BY <1>1, <1>2, <1>3, <1>4, <2>1, RingDistinct
    <3> QED
      BY <1>8, <1>12, <2>1, <3>1, <3>2, <3>3
  <2>2. CASE i = k
    <3>1. At(t, i) = before /\ At(t, i + 1) = node
      BY <1>3, <1>5, <1>7, <2>2
    <3> QED
      BY <1>1, <1>9, <1>12, <3>1
  <2>3. CASE i = k + 1
    <3>1. At(t, i) = node /\ At(t, i + 1) = after
      BY <1>4, <1>5, <1>7, <2>3
    <3> QED
      BY <1>1, <1>9, <1>12, <3>1
  <2>4. CASE i > k + 1
    <3>1. At(t, i) = At(s, i - 1) /\ At(t, i + 1) = At(s, i)
      BY <1>5, <1>7, <2>4
    <3>2. i - 1 \in 0..Len(s) /\ (i - 1) + 1 = i
      BY <2>4
    <3>3. links.next[At(s, i - 1)] = At(s, i) /\ links.prev[At(s, i)] = At(s, i - 1)
      BY <1>2, <3>2 DEF Ring
    <3>4. At(s, i - 1) # before /\ At(s, i) # after
      BY <1>1, <1>2, <1>3, <1>4, <2>4, RingDistinct
    <3> QED
      BY <1>8, <1>12, <3>1, <3>2, <3>3, <3>4
  <2> QED
    BY <2>1, <2>2, <2>3, <2>4
<1>14. \A i \in 1..m : t[i] \in nodes \cup {node}
  BY <1>2, <1>6 DEF Ring
<1>15. ASSUME NEW n \in nodes \cup {node} PROVE \E i \in 1..m : t[i] = n
  <2>1. CASE n = node
    BY <1>6, <2>1
  <2>2. CASE n \in nodes
    <3>1. PICK j \in 1..Len(s) : s[j] = n
      BY <1>2, <2>2 DEF Ring
    <3>2. CASE j <= k
      BY <1>6, <3>1, <3>2
    <3>3. CASE j > k
      <4>1. j + 1 \in 1..m /\ ~(j + 1 <= k) /\ j + 1 # k + 1 /\ (j + 1) - 1 = j
        BY <3>3
      <4> QED
        BY <1>6, <3>1, <4>1
    <3> QED
      BY <3>2, <3>3
  <2> QED
    BY <2>1, <2>2
<1>16. \A i, j \in 1..m : t[i] = t[j] => i = j
  <2>1. \A i \in 1..Len(s) : s[i] # node
    BY <1>2 DEF Ring
  <2>2. \A i, j \in 1..Len(s) : s[i] = s[j] => i = j
    BY <1>2 DEF Ring
  <2> SUFFICES ASSUME NEW i \in 1..m, NEW j \in 1..m, t[i] = t[j], i < j
               PROVE  FALSE
    OBVIOUS
  <2>3. t[i] = (IF i <= k THEN s[i] ELSE IF i = k + 1 THEN node ELSE s[i - 1])
    BY <1>6
  <2>4. t[j] = (IF j <= k THEN s[j] ELSE IF j = k + 1 THEN node ELSE s[j - 1])
    BY <1>6
  <2>5. CASE j <= k
    <3>1. i <= k /\ i \in 1..Len(s) /\ j \in 1..Len(s)
      BY <2>5
    <3>2. t[i] = s[i] /\ t[j] = s[j]
      BY <2>3, <2>4, <2>5, <3>1
    <3>3. i = j
      BY <2>2, <3>1, <3>2
    <3> QED
      BY <3>3
  <2>6. CASE j = k + 1
    <3>1. i <= k /\ i \in 1..Len(s) /\ ~(j <= k)
      BY <2>6
    <3>2. t[i] = s[i] /\ t[j] = node
      BY <2>3, <2>4, <2>6, <3>1
    <3>3. s[i] # node
      BY <2>1, <3>1
    <3> QED
      BY <3>2, <3>3
  <2>7. CASE j > k + 1
    <3>1. j - 1 \in 1..Len(s) /\ t[j] = s[j - 1]
      BY <2>4, <2>7
    <3>2. CASE i <= k
      <4>1. t[i] = s[i] /\ i \in 1..Len(s)
        BY <2>3, <3>2
      <4>2. i = j - 1
        BY <2>2, <3>1, <4>1
      <4> QED
        BY <2>7, <3>2, <4>2
    <3>3. CASE i = k + 1
      <4>1. t[i] = node
        BY <2>3, <3>3
      <4>2. s[j - 1] # node
        BY <2>1, <3>1
      <4> QED
        BY <3>1, <4>1, <4>2
    <3>4. CASE i > k + 1
      <4>1. i - 1 \in 1..Len(s) /\ t[i] = s[i - 1]
        BY <2>3, <3>4
      <4> QED
        BY <2>2, <3>1, <4>1
    <3> QED
      BY <3>2, <3>3, <3>4
  <2> QED
    BY <2>5, <2>6, <2>7
<1>17. Ring(new, nodes \cup {node}, t)
  BY <1>5, <1>13, <1>14, <1>15, <1>16 DEF Ring
<1> QED
  BY <1>5, <1>11, <1>17 DEF new, before, after, t

LEMMA RingAdd ==
    ASSUME NEW links, NEW nodes, IsRing(links, nodes), NEW node \in Nodes \ nodes,
           NEW before \in nodes \cup {head}, NEW after, links.next[before] = after
    PROVE  IsRing(ListAddBetween(links, node, before, after), nodes \cup {node})
<1>1. links \in Links /\ nodes \in SUBSET Nodes
  BY DEF IsRing
<1>2. PICK s \in Seq(Nodes) : Ring(links, nodes, s)
  BY DEF IsRing
<1>3. PICK k \in 0..Len(s) : At(s, k) = before
  BY <1>1, <1>2, RingIndex, ZenonT(60)
<1>4. At(s, k + 1) = after
  BY <1>2, <1>3 DEF Ring
<1> DEFINE new == ListAddBetween(links, node, before, after)
<1>5. /\ new \in Links /\ InsertAt(s, k + 1, node) \in Seq(Nodes)
      /\ Ring(new, nodes \cup {node}, InsertAt(s, k + 1, node))
  BY <1>1, <1>2, <1>3, <1>4, RingAddAt
<1> HIDE DEF new
<1>6. nodes \cup {node} \subseteq Nodes
  BY <1>1
<1> QED
  BY <1>5, <1>6 DEF IsRing, new
-----------------------------------------------------------------------------
(***************************************************************************)
(* A ring has each node once, and no more nodes than there are.            *)
(***************************************************************************)
LEMMA RingLength ==
    ASSUME NEW links, NEW nodes \in SUBSET Nodes, NEW s \in Seq(Nodes), Ring(links, nodes, s)
    PROVE  Len(s) = Cardinality(nodes) /\ Len(s) <= Cardinality(Nodes) /\ ToSet(s) = nodes
<1>1. s \in Bijection(1..Len(s), nodes)
  <2>1. s \in [1..Len(s) -> nodes]
    BY DEF Ring
  <2> QED
    BY <2>1 DEF Ring, Bijection, Injection, Surjection, IsInjective
<1>2. IsFiniteSet(1..Len(s)) /\ Cardinality(1..Len(s)) = Len(s)
  <2>1. Len(s) \in Nat /\ Cardinality(1..Len(s)) = (IF 1 > Len(s) THEN 0 ELSE Len(s) - 1 + 1)
    BY FS_Interval
  <2>2. (IF 1 > Len(s) THEN 0 ELSE Len(s) - 1 + 1) = Len(s)
    BY <2>1
  <2> QED
    BY <2>1, <2>2, FS_Interval
<1>3. Cardinality(nodes) = Cardinality(1..Len(s))
  BY <1>1, <1>2, FS_Bijection DEF ExistsBijection
<1>4. Cardinality(nodes) <= Cardinality(Nodes)
  BY NodeAssumption, FS_Subset
<1>5. ToSet(s) = nodes
  BY DEF ToSet, Ring
<1> QED
  BY <1>2, <1>3, <1>4, <1>5

(***************************************************************************)
(* A loop that begins behind the head, goes on by step and ends at stop    *)
(* visits s, if step goes along s and stop is first met behind s.          *)
(***************************************************************************)
LEMMA VisitIs ==
    ASSUME NEW step \in [Places -> Places], NEW s \in Seq(Nodes), Len(s) <= Cardinality(Nodes),
           \A i \in 0..Len(s) : step[At(s, i)] = At(s, i + 1),
           NEW stop, head \in stop, \A i \in 1..Len(s) : s[i] \notin stop
    PROVE  Visit(step, stop) = s
<1> DEFINE c == Cardinality(Nodes) + 1
           n == Len(s)
           Walk(f, m) == \A k \in 1..m : f[k] = IF k = 1 THEN step[head] ELSE step[f[k - 1]]
           T == {m \in Nat : \E f \in [1..m -> Places] : Walk(f, m)}
<1>1. c \in Nat /\ n \in Nat /\ n + 1 <= c /\ c # 0
  BY NodeAssumption, FS_CardinalityType
<1> HIDE DEF c
<1>2. 0 \in T
  <2>1. [k \in 1..0 |-> head] \in [1..0 -> Places] /\ 1..0 = {}
    OBVIOUS
  <2> QED
    BY <2>1
<1>3. ASSUME NEW m \in Nat, m \in T PROVE m + 1 \in T
  <2>1. PICK f \in [1..m -> Places] : Walk(f, m)
    BY <1>3
  <2> DEFINE g == [k \in 1..(m + 1) |->
                     IF k <= m THEN f[k] ELSE IF k = 1 THEN step[head] ELSE step[f[k - 1]]]
  <2>2. ASSUME NEW k \in 1..(m + 1)
        PROVE  g[k] \in Places /\ g[k] = IF k = 1 THEN step[head] ELSE step[g[k - 1]]
    <3>1. head \in Places
      BY DEF Places
    <3>2. CASE k <= m
      <4>1. g[k] = f[k] /\ (k # 1 => g[k - 1] = f[k - 1]) /\ k \in 1..m
        BY <3>2
      <4>2. f[k] = (IF k = 1 THEN step[head] ELSE step[f[k - 1]]) /\ f[k] \in Places
        BY <2>1, <4>1
      <4> HIDE DEF g
      <4> QED
        BY <4>1, <4>2
    <3>3. CASE k = m + 1 /\ k = 1
      BY <3>1, <3>3
    <3>4. CASE k = m + 1 /\ k # 1
      <4>1. k - 1 \in 1..m /\ f[k - 1] \in Places
        BY <3>4
      <4> QED
        BY <3>4, <4>1
    <3> QED
      BY <3>2, <3>3, <3>4
  <2>3. g \in [1..(m + 1) -> Places]
    BY <2>2
  <2> HIDE DEF g
  <2> QED
    BY <2>2, <2>3
<1>4. \A m \in Nat : m \in T
  <2> HIDE DEF T
  <2> QED
    BY <1>2, <1>3, NatSetInduction
<1>5. PICK f \in [1..c -> Places] : Walk(f, c)
  BY <1>1, <1>4
<1> DEFINE IsAt(g) == g = [k \in 1..c |-> IF k = 1 THEN step[head] ELSE step[g[k - 1]]]
           at == CHOOSE g : IsAt(g)
<1>6. IsAt(f)
  BY <1>5
<1>7. IsAt(at)
  BY <1>6
<1> DEFINE I == {i \in 1..Len(at) : at[i] \in stop}
           first == IF I # {} THEN Min(I) ELSE 0
<1>8. Visit(step, stop) = IF first = 0 THEN at ELSE SubSeq(at, 1, first - 1)
  BY DEF Visit, SelectInSeq, c
<1> HIDE DEF at
<1>9. at = [k \in 1..c |-> IF k = 1 THEN step[head] ELSE step[at[k - 1]]]
  BY <1>7
<1>10. Len(at) = c /\ \A k \in 1..c : at[k] = IF k = 1 THEN step[head] ELSE step[at[k - 1]]
  BY <1>1, <1>9
<1> DEFINE U == {k \in Nat : k \in 1..(n + 1) => at[k] = At(s, k)}
<1>11. 0 \in U
  OBVIOUS
<1>12. ASSUME NEW k \in Nat, k \in U PROVE k + 1 \in U
  <2> SUFFICES ASSUME k + 1 \in 1..(n + 1) PROVE at[k + 1] = At(s, k + 1)
    OBVIOUS
  <2>1. k + 1 \in 1..c /\ (k + 1) - 1 = k /\ k \in 0..n
    BY <1>1
  <2>2. step[At(s, k)] = At(s, k + 1)
    BY <2>1
  <2>3. CASE k = 0
    <3>1. At(s, 0) = head
      BY DEF At
    <3> QED
      BY <1>10, <2>1, <2>2, <2>3, <3>1
  <2>4. CASE k # 0
    <3>1. at[k] = At(s, k) /\ k + 1 # 1
      BY <1>12, <2>1, <2>4
    <3> QED
      BY <1>10, <2>1, <2>2, <3>1
  <2> QED
    BY <2>3, <2>4
<1>13. \A k \in Nat : k \in U
  <2> HIDE DEF U
  <2> QED
    BY <1>11, <1>12, NatSetInduction
<1>14. \A k \in 1..(n + 1) : at[k] = At(s, k)
  BY <1>1, <1>13
<1>15. at[n + 1] = head /\ \A k \in 1..n : at[k] = s[k]
  <2>1. At(s, n + 1) = head
    BY <1>1 DEF At
  <2>2. n + 1 \in 1..(n + 1) /\ \A k \in 1..n : k \in 1..(n + 1)
    BY <1>1
  <2> QED
    BY <1>14, <2>1, <2>2 DEF At
<1>16. n + 1 \in I /\ I \in SUBSET Nat /\ \A i \in I : n + 1 <= i
  <2>1. n + 1 \in 1..c
    BY <1>1
  <2>2. ASSUME NEW i \in I PROVE n + 1 <= i
    <3>1. i \notin 1..n
      BY <1>15
    <3> QED
      BY <1>1, <1>10, <3>1
  <2> QED
    BY <1>1, <1>10, <1>15, <2>1, <2>2
<1>17. first = n + 1
  BY <1>16, MinIs
<1> HIDE DEF first
<1>18. Visit(step, stop) = SubSeq(at, 1, n)
  BY <1>1, <1>8, <1>17
<1>19. \A i \in 1..n : at[i] \in Nodes
  BY <1>15
<1>20. /\ SubSeq(at, 1, n) \in Seq(Nodes) /\ Len(SubSeq(at, 1, n)) = n
       /\ \A i \in 1..n : SubSeq(at, 1, n)[i] = s[i]
  BY <1>1, <1>15, <1>19, SubSeqProperties
<1> QED
  BY <1>18, <1>20, SeqEqual
(***************************************************************************)
(* The loops over a ring visit its nodes in order, and in reverse.         *)
(***************************************************************************)
LEMMA RingLoops ==
    ASSUME NEW links \in Links, NEW nodes \in SUBSET Nodes, NEW s \in Seq(Nodes),
           Ring(links, nodes, s)
    PROVE  /\ ForEach(links) = s
           /\ ForEachPrev(links) = Reverse(s)
           /\ ForEachMapping(links) = s
<1>1. /\ links.next \in [Places -> Places] /\ links.prev \in [Places -> Places]
      /\ Len(s) <= Cardinality(Nodes)
  BY RingLength DEF Links
<1>2. \A i \in 0..Len(s) : /\ links.next[At(s, i)] = At(s, i + 1)
                           /\ links.prev[At(s, i + 1)] = At(s, i)
  BY DEF Ring
<1>3. \A i \in 1..Len(s) : s[i] \in Nodes /\ s[i] # head
  BY HeadAssumption
<1>4. ForEach(links) = s
  BY <1>1, <1>2, <1>3, VisitIs DEF ForEach
<1>5. ForEachPrev(links) = Reverse(s)
  <2> DEFINE n == Len(s)
             u == Reverse(s)
  <2>1. u = [i \in 1..n |-> s[(n - i) + 1]] /\ n \in Nat
    BY DEF Reverse
  <2> HIDE DEF u
  <2>2. ASSUME NEW i \in 1..n PROVE s[(n - i) + 1] \in Nodes
    BY <2>1, (n - i) + 1 \in 1..n
  <2>3. /\ u \in Seq(Nodes) /\ Len(u) = n
        /\ \A i \in 1..n : u[i] = s[(n - i) + 1]
    BY <2>1, <2>2
  <2>4. ASSUME NEW i \in 0..(n + 1) PROVE At(u, i) = At(s, n + 1 - i)
    <3>1. (n - i) + 1 = n + 1 - i
      BY <2>1
    <3>2. CASE i \in 1..n
      <4>1. n + 1 - i \in 1..n
        BY <2>1, <3>2
      <4> QED
        BY <2>3, <3>1, <3>2, <4>1 DEF At
    <3>3. CASE i \notin 1..n
      <4>1. n + 1 - i \notin 1..n
        BY <2>1, <3>3
      <4> QED
        BY <2>3, <3>3, <4>1 DEF At
    <3> QED
      BY <3>2, <3>3
  <2>5. ASSUME NEW i \in 0..n PROVE links.prev[At(u, i)] = At(u, i + 1)
    <3>1. n - i \in 0..n /\ (n - i) + 1 = n + 1 - i /\ n + 1 - (i + 1) = n - i
      BY <2>1
    <3>2. links.prev[At(s, n + 1 - i)] = At(s, n - i)
      BY <1>2, <3>1
    <3>3. At(u, i) = At(s, n + 1 - i) /\ At(u, i + 1) = At(s, n - i)
      <4>1. i \in 0..(n + 1) /\ i + 1 \in 0..(n + 1)
        BY <2>1
      <4> QED
        BY <2>4, <3>1, <4>1
    <3> QED
      BY <3>2, <3>3
  <2>6. \A i \in 1..n : u[i] \notin {head}
    <3>1. ASSUME NEW i \in 1..n PROVE u[i] \in Nodes
      BY <2>2, <2>3
    <3> QED
      BY <3>1, HeadAssumption
  <2>7. Visit(links.prev, {head}) = u
    <3>1. \A i \in 0..Len(u) : links.prev[At(u, i)] = At(u, i + 1)
      BY <2>3, <2>5
    <3>2. \A i \in 1..Len(u) : u[i] \notin {head}
      BY <2>3, <2>6
    <3>3. u \in Seq(Nodes) /\ Len(u) <= Cardinality(Nodes)
      BY <1>1, <2>3
    <3> QED
      BY <1>1, <3>1, <3>2, <3>3, VisitIs
  <2> QED
    BY <2>7 DEF ForEachPrev, u
<1>6. ForEachMapping(links) = s
  <2> DEFINE stop == {n \in Places : LastMapping(links, n)}
  <2>1. ASSUME NEW i \in 0..Len(s) PROVE links.prev[links.next[At(s, i)]] = At(s, i)
    BY <1>2
  <2>2. At(s, 0) = head /\ 0 \in 0..Len(s) /\ head \in Places
    BY DEF At, Places
  <2>3. head \in stop
    BY <2>1, <2>2 DEF LastMapping
  <2>4. ASSUME NEW i \in 1..Len(s) PROVE s[i] \notin stop
    <3>1. At(s, i) = s[i] /\ i \in 0..Len(s)
      BY DEF At
    <3> QED
      BY <1>3, <2>1, <3>1 DEF LastMapping
  <2> HIDE DEF stop
  <2>5. Visit(links.next, stop) = s
    BY <1>1, <1>2, <2>3, <2>4, VisitIs
  <2> QED
    BY <2>5 DEF ForEachMapping, stop
<1> QED
  BY <1>4, <1>5, <1>6
=============================================================================
