---------------------------- MODULE MCFifoBuffer ----------------------------
(***************************************************************************)
(* Writers of lines of one and two words and of two lines at once, and     *)
(* writers of a blank line and of a line without newline.                  *)
(***************************************************************************)
EXTENDS FifoBuffer

CONSTANTS a, b

MCWhole == {<<a, NL>>, <<b, SP, a, NL>>, <<a, b, NL, b, NL>>}
MCWrites == MCWhole \cup {<<NL>>, <<a, b>>}
=============================================================================
