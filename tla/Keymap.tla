------------------------------- MODULE Keymap -------------------------------
(***************************************************************************)
(* What the mapping loop promises to a user: the mappings that are active, *)
(* and the keys that are down for them, change all at once to those of a   *)
(* set of pressed buttons; and no mapping leaves the list with its key     *)
(* down.                                                                   *)
(***************************************************************************)
EXTENDS MappingList

CONSTANTS
    Buttons,    \* the bits of a gpio mask
    Keys,       \* keycodes
    Entries     \* the mappings that lines add

VARIABLES
    list,       \* the mapping list
    down        \* the keys whose last event is "down"

Taken(mappings, i) == UNION {mappings[j].mask : j \in {k \in Active(mappings) : k < i}}

\* There are pressed buttons for which this holds: a mapping is active if its
\* buttons are pressed and no active one before it takes one of them.
Search ==
    \E old \in {list}, new \in {list'} :
        /\ DOMAIN new = DOMAIN old
        /\ \E pressed \in SUBSET Buttons : \A i \in DOMAIN old :
              new[i] = [old[i] EXCEPT !.activated = old[i].mask \subseteq pressed \ Taken(new, i)]
        /\ down' = (down \ KeysOf(old, Active(old) \ Active(new)))
                        \cup KeysOf(old, Active(new) \ Active(old))

Drop(i) ==
    /\ list' = RemoveAt(list, i)
    /\ down' = down \ KeysOf(list, {i} \cap Active(list))

Map(mapping) ==
    LET same == {i \in DOMAIN list : list[i].mask = mapping.mask}
    IN  /\ \/ same = {} /\ list' = InsertMapping(list, mapping)
           \/ \E i \in same : list' = InsertMapping(RemoveAt(list, i), mapping)
        /\ down' = down \ KeysOf(list, same \cap Active(list))

Clear ==
    /\ list' = <<>>
    /\ down' = down \ KeysOf(list, Active(list))

\* A key event that is no mapping's: a KEY* line, the power key.
Event(key) ==
    /\ down' \in {down \cup {key}, down \ {key}}
    /\ UNCHANGED list

Init == list = <<>> /\ down = {}
Next ==
    /\ <<list, down>>' # <<list, down>>
    /\ \/ Search
       \/ \E mapping \in Entries : Map(mapping)
       \/ \E i \in DOMAIN list : Drop(i)
       \/ Clear
       \/ \E key \in Keys : Event(key)

Spec == Init /\ [][Next]_<<list, down>>
=============================================================================
