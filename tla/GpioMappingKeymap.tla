-------------------------- MODULE GpioMappingKeymap --------------------------
(***************************************************************************)
(* The mapping loop as an implementation of Keymap: a search that has      *)
(* looked at its first entry counts as done.                               *)
(***************************************************************************)
EXTENDS GpioMapping

\* The entries that a search for these buttons activates: those whose buttons
\* are left over by the winners before them.
Winners(mappings, buttons) ==
    CHOOSE w \in SUBSET DOMAIN mappings :
        \A i \in DOMAIN mappings :
            i \in w <=>
                mappings[i].mask \subseteq
                    buttons \ UNION {mappings[j].mask : j \in {k \in w : k < i}}

\* The list and the keys when the search is done.
Searched(mappings, buttons) ==
    [i \in DOMAIN mappings |->
        [mappings[i] EXCEPT !.activated = i \in Winners(mappings, buttons)]]
KeysSearched(mappings, buttons, keys) ==
    LET on == Winners(mappings, buttons)
        was == Active(mappings)
    IN  (keys \ KeysOf(mappings, was \ on)) \cup KeysOf(mappings, on \ was)

Searching == pc = "apply" /\ cursor > 1
ListDone == IF Searching THEN Searched(list, current) ELSE list
DownDone == IF Searching THEN KeysSearched(list, current, down) ELSE down

\* The mappings that the lines of the configuration make.
LineMappings ==
    {NewMapping(l.mask, l.bits, "KEY", l.value) : l \in {m \in AllLines : m.op = "MAP KEY"}}
        \cup {NewMapping(l.mask, l.bits, "COMMAND", l.value)
                : l \in {m \in AllLines : m.op = "MAP COMMAND"}}

AsKeymap == INSTANCE Keymap
    WITH list <- ListDone, down <- DownDone, Buttons <- Gpio, Entries <- LineMappings

\* The loop implements Keymap, when no key is mapped twice: a search changes
\* the active mappings and their keys all at once, though lines, power key
\* presses and failures come between the steps of the calls.
KeymapSpec == AsKeymap!Spec
=============================================================================
