------------------------------ MODULE KeyTable ------------------------------
(***************************************************************************)
(* The key table (keydefs.c) and its two users in parse_config.c: one      *)
(* reads it by name, the other by code.                                    *)
(*                                                                         *)
(* The names in the table are all different, so a name is the index of its *)
(* entry, from 0 as in C; NoKey is any other name, such as the "?" that    *)
(* keycode_name gives for a code without an entry.                         *)
(***************************************************************************)
EXTENDS Integers

NoKey == -1

KeyNames == 0..294

\* key_names: the code of the entry that has a name.  Where the table repeats
\* a code (KEY_HANGUEL, KEY_SCREENLOCK, ...) the second name is an alias.
CodeOf(name) ==
    CASE name \in 0..83    -> name             \* KEY_RESERVED
      [] name \in 84..121  -> name + 1         \* KEY_ZENKAKUHANKAKU
      [] name \in 122..152 -> name             \* KEY_HANGUEL
      [] name \in 153..195 -> name - 1         \* KEY_SCREENLOCK
      [] name \in 196..244 -> name + 4         \* KEY_PLAYCD
      [] name = 245        -> 256              \* BTN_MISC
      [] name \in 246..255 -> name + 10        \* BTN_0
      [] name = 256        -> 272              \* BTN_MOUSE
      [] name \in 257..264 -> name + 15        \* BTN_LEFT
      [] name = 265        -> 288              \* BTN_JOYSTICK
      [] name \in 266..277 -> name + 22        \* BTN_TRIGGER
      [] name \in 278..279 -> name + 25        \* BTN_DEAD
      [] name \in 280..294 -> name + 24        \* BTN_SOUTH

\* lookup_key: where the name is in the table, which parse_config_line uses as
\* the keycode.
LookupKey(name) == IF name \in KeyNames THEN name ELSE NoKey

\* keycode_name: the first entry that has the code, or NoKey.
KeycodeName(code) ==
    LET having == {name \in KeyNames : CodeOf(name) = code}
    IN  IF having = {} THEN NoKey ELSE CHOOSE name \in having : \A n \in having : name <= n

\* What is left of a key that SAVE writes and LOAD reads.
SavedKey(key) == LookupKey(KeycodeName(key))
=============================================================================
