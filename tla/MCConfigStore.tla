---------------------------- MODULE MCConfigStore ----------------------------
(***************************************************************************)
(* An instance of ConfigStore: three buttons, files that LOAD each other and *)
(* themselves, one whose key is unknown, one whose last line is CLEAR, and *)
(* room for three mappings.                                                *)
(***************************************************************************)
EXTENDS ConfigStore

CONSTANTS n1, n2, n3, fn, a, b, boot, nest, loop, out_, none, dim

MCNodes == {n1, n2, n3}
MCFileNames == {boot, nest, loop, out_}

\* Indexes in the key table: KEY_K has the code of its index, KEY_UP the code
\* of another entry's index, KEY_ZENKAKUHANKAKU an index without an entry.
KeyK == 37
KeyUp == 102
KeyZ == 84

MapKey(mask, bits, key) == [Text("MAP KEY") EXCEPT !.mask = mask, !.bits = bits, !.value = key]
MapCommand(mask) == [Text("MAP COMMAND") EXCEPT !.mask = mask, !.bits = 1, !.value = dim]
Unmap(mask) == [Text("UNMAP") EXCEPT !.mask = mask]
OfFile(op, file) == [Text(op) EXCEPT !.file = file]
KeyPress(key) == [Text("KEY") EXCEPT !.value = key]
File(texts) == [texts |-> texts, ended |-> TRUE]

MCDisk ==
    boot :> File(<<Text("COMMENT"), MapKey({fn}, 1, KeyK), OfFile("LOAD", nest)>>)
      @@ nest :> [texts |-> <<MapKey({fn, a}, 2, KeyK), Text("CLEAR")>>, ended |-> FALSE]
      @@ loop :> File(<<MapCommand({fn}), OfFile("LOAD", loop), KeyPress(KeyK),
                        MapKey({fn, a}, 2, KeyK), Unmap({a}), KeyPress(NoKey)>>)

MCFifoLines ==
    {MapKey({a}, 1, KeyK), MapKey({fn, a}, 2, KeyUp), MapKey({b}, 2, KeyZ),
     Unmap({fn}), Text("COMMENT"), OfFile("LOAD", loop),
     OfFile("LOAD", out_), OfFile("SAVE", out_), OfFile("SAVE", boot)}

\* Lines that send keys.
MCKeyLines == {KeyPress(KeyK), KeyPress(KeyUp), Text("NOP"), Text("SAVE")}
=============================================================================
