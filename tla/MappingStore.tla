---------------------------- MODULE MappingStore ----------------------------
(***************************************************************************)
(* What the mapping list promises to the lines that change it: it is a     *)
(* sequence, and a line adds one mapping (after it has dropped the one     *)
(* with the same buttons) or drops one.                                    *)
(***************************************************************************)
EXTENDS MappingList

CONSTANT Entries      \* the mappings that lines add

VARIABLE list

Map(mapping) == mapping \in Entries /\ list' = MapMapping(list, mapping)
Drop(i) == list' = RemoveMapping(list, i)
Restart == list' = <<>>

Init == list = <<>>
Next ==
    \/ \E mapping \in ToSet(list') : Map(mapping)   \* Entries may be infinite
    \/ \E i \in DOMAIN list : Drop(i)
    \/ Restart

Spec == Init /\ [][Next]_list
=============================================================================
