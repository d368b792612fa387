----------------------------- MODULE MCPidFile -----------------------------
(***************************************************************************)
(* Instances of PidFile for TLC.                                           *)
(***************************************************************************)
EXTENDS PidFile

CONSTANTS d1, d2, d3, k1

TwoStarts == {d1, d2}
ThreeStarts == {d1, d2, d3}
OneKill == {k1}
NoKill == {}
=============================================================================
