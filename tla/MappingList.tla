---------------------------- MODULE MappingList ----------------------------
(***************************************************************************)
(* The mapping list (mapping_list.c), as operators on a sequence.          *)
(*                                                                         *)
(* The code keeps the mappings in a circular doubly linked list; its head  *)
(* is not an entry.  The sequence lists the entries from head->next to     *)
(* head->prev.  An entry is a record                                       *)
(*   mask       the set of GPIO numbers that are 1 in gpio_mask            *)
(*   bits       bit_count, the number of buttons the MAP line named        *)
(*   type       "KEY" or "COMMAND"                                         *)
(*   value      the keycode or the shell command                           *)
(*   activated  the combination was found pressed by the last search       *)
(* malloc and strdup are taken to succeed.                                 *)
(***************************************************************************)
EXTENDS Integers, Sequences, SequencesExt

\* Mutant of NewMapping: the new entry counts as active.
NewMappingActive(mask, bits, type, value) ==
    [mask |-> mask, bits |-> bits, type |-> type, value |-> value,
     activated |-> TRUE]

\* An entry as parse_config_line fills it: never active.
NewMapping(mask, bits, type, value) ==
    [mask |-> mask, bits |-> bits, type |-> type, value |-> value,
     activated |-> FALSE]

\* find_mapping: the first entry with exactly this mask, 0 for NULL.
FindMapping(list, mask) == SelectInSeq(list, LAMBDA e : e.mask = mask)

\* Mutant of InsertPosition: before the first entry that has no fewer buttons.
InsertPositionAscending(list, bits) ==
    LET p == SelectInSeq(list, LAMBDA e : e.bits >= bits)
    IN  IF p = 0 THEN 1 ELSE p

\* The place of a new entry: before the first one that has no more buttons,
\* and when every entry has more, at the head.
InsertPosition(list, bits) ==
    LET p == SelectInSeq(list, LAMBDA e : e.bits <= bits)
    IN  IF p = 0 THEN 1 ELSE p

InsertMapping(list, mapping) ==
    InsertAt(list, InsertPosition(list, mapping.bits), mapping)

\* remove_mapping and clear_mapping_list drop entries, and for an active
\* entry that holds a key they send the key up event: KeysUp is those keys.
RemoveMapping(list, i) == RemoveAt(list, i)

\* Mutant: no key is sent up.
KeysUpNone(list, dropped) == {}

KeysUp(list, dropped) ==
    {list[i].value : i \in {j \in dropped :
                               list[j].type = "KEY" /\ list[j].activated}}

\* Mutant of MapMapping: an entry with the same mask stays.
MapMappingTwice(list, mapping) == InsertMapping(list, mapping)

\* The list after the MAP line of `mapping`: an entry with the same mask is
\* removed, then the new one is inserted.
MapMapping(list, mapping) ==
    LET i == FindMapping(list, mapping.mask)
    IN  InsertMapping(IF i = 0 THEN list ELSE RemoveMapping(list, i), mapping)

-----------------------------------------------------------------------------
(* The active mappings, and the keys of some.                              *)

Active(mappings) == {i \in DOMAIN mappings : mappings[i].activated}
KeysOf(mappings, those) ==
    {mappings[i].value : i \in {j \in those : mappings[j].type = "KEY"}}

-----------------------------------------------------------------------------
(* What users of the list rely on.                                         *)

Sorted(list) ==
    \A i, j \in DOMAIN list : i < j => list[i].bits >= list[j].bits

Unique(list) ==
    \A i, j \in DOMAIN list : list[i].mask = list[j].mask => i = j
=============================================================================
