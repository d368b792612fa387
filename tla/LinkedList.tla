----------------------------- MODULE LinkedList -----------------------------
(***************************************************************************)
(* The circular doubly linked list of mapping_list.c, pointer by pointer.  *)
(*                                                                         *)
(* A node is a mapping_t that malloc may return; head is the list itself,  *)
(* which is linked but holds no mapping.  `links` is a record of the two   *)
(* pointer fields of all of them.  What the fields of a node hold that is  *)
(* not in the list is never relied on.                                     *)
(***************************************************************************)
EXTENDS Integers, Sequences, SequencesExt, FiniteSets

CONSTANTS Nodes, head

ASSUME HeadAssumption == head \notin Nodes
ASSUME NodeAssumption == IsFiniteSet(Nodes)

Places == Nodes \cup {head}
Links == [next : [Places -> Places], prev : [Places -> Places]]

\* init_mapping_list
InitList ==
    [next |-> [n \in Places |-> head], prev |-> [n \in Places |-> head]]

\* Mutant of ListAddBetween: the next one does not point back.
ListAddOneWay(links, new, before, after) ==
    [next |-> [links.next EXCEPT ![new] = after, ![before] = new],
     prev |-> [links.prev EXCEPT ![new] = before]]

ListAddBetween(links, new, before, after) ==
    [next |-> [links.next EXCEPT ![new] = after, ![before] = new],
     prev |-> [links.prev EXCEPT ![after] = new, ![new] = before]]

ListAdd(links, new) == ListAddBetween(links, new, head, links.next[head])

ListDelete(links, node) ==
    [next |-> [links.next EXCEPT ![links.prev[node]] = links.next[node]],
     prev |-> [links.prev EXCEPT ![links.next[node]] = links.prev[node]]]

\* The nodes that a loop visits which starts at step[head], goes on by step
\* and ends at a node of stop.  A loop that does not end shows as a sequence
\* that is longer than the list can be.
Visit(step, stop) ==
    LET at[k \in 1..(Cardinality(Nodes) + 1)] ==
            IF k = 1 THEN step[head] ELSE step[at[k - 1]]
        first == SelectInSeq(at, LAMBDA n : n \in stop)
    IN  IF first = 0 THEN at ELSE SubSeq(at, 1, first - 1)

\* list_for_each and list_for_each_prev
ForEach(links) == Visit(links.next, {head})
ForEachPrev(links) == Visit(links.prev, {head})

\* last_mapping, and the loop from first_mapping by next_mapping that
\* apply_mapping makes with it.
LastMapping(links, node) == links.prev[links.next[node]] = head
ForEachMapping(links) == Visit(links.next, {n \in Places : LastMapping(links, n)})

-----------------------------------------------------------------------------
\* Both pointers of a node of the list lead to a node of the list, and back.
Linked(links, nodes) ==
    \A n \in nodes \cup {head} :
        /\ links.next[n] \in nodes \cup {head} /\ links.prev[links.next[n]] = n
        /\ links.prev[n] \in nodes \cup {head} /\ links.next[links.prev[n]] = n
=============================================================================
