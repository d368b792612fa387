--------------------------- MODULE MCGpioMapping ---------------------------
(***************************************************************************)
(* Instances of GpioMapping for TLC: the buttons FN (bit 7) and A (bit 12),*)
(* the lid (bit 10) and the pseudo button MENU (bit 5).                    *)
(***************************************************************************)
EXTENDS GpioMappingKeymap

FN == 7
A == 12

MapKey(mask, key) ==
    [op |-> "MAP KEY", mask |-> mask, bits |-> Cardinality(mask), value |-> key]
MapCommand(mask, command) ==
    [op |-> "MAP COMMAND", mask |-> mask, bits |-> Cardinality(mask), value |-> command]
Plain(op) == [op |-> op, mask |-> {}]
Unmap(mask) == [Plain("UNMAP") EXCEPT !.mask = mask]
KeyEvent(op, key) == [op |-> op, mask |-> {}, bits |-> 0, value |-> key]

MCGpio == {MENU, FN, NOE, A}
MCSmallGpio == {MENU, NOE, A}
MCKeys == {"KEY_K", "KEY_A", "KEY_Q", "KEY_J"}
MCCommands == {"snap"}
\* EIO (5) turns -errno into "all buttons but bit 2", EREMOTEIO (121) into a
\* mask without MENU.
MCErrnos == {5, 121}

\* A file in the style of fkgpiod.conf.
MCBoot ==
    << MapKey({FN}, "KEY_K"), MapKey({A}, "KEY_A"), MapKey({MENU}, "KEY_Q"),
       MapCommand({FN, A}, "snap") >>

\* A file whose MAP lines with fewer buttons come last: the list loses its
\* order, has it again when MENU is removed, and loses it a second time.
MCUnordered ==
    << Plain("CLEAR"), MapKey({FN, A}, "KEY_J"), MapKey({MENU}, "KEY_Q"),
       Unmap({MENU}), MapKey({A}, "KEY_A") >>

\* Lines that change the list, one by one and as a file.
MCMapScripts ==
    { <<Unmap({A})>>,
      <<MapKey({A}, "KEY_A")>>,
      <<MapKey({FN, A}, "KEY_J")>>,
      MCUnordered }

\* Lines that send keys and lines without an effect on the mapping.
MCKeyScripts ==
    { <<KeyEvent("KEYDOWN", "KEY_A")>>, <<KeyEvent("KEYUP", "KEY_A")>>,
      <<KeyEvent("KEYPRESS", "KEY_J")>>, <<Plain("NOP")>>, <<Plain("BAD")>> }

MCAllScripts == MCMapScripts \cup MCKeyScripts
\* One plain key, for the runs about the lid and the power key.
MCSmallBoot == << MapKey({A}, "KEY_A"), MapKey({MENU}, "KEY_Q") >>
MCClear == { <<Plain("CLEAR")>> }
MCNop == { <<Plain("NOP")>> }
\* A combination before the button it contains.
MCCombinationFirst == << MapKey({FN, A}, "KEY_J"), MapKey({A}, "KEY_A") >>
\* A button that only a command uses.
MCCommandOnly == << MapKey({FN}, "KEY_K"), MapCommand({A}, "snap") >>
MCNone == {}
MCAllFaults == AllFaults
=============================================================================
