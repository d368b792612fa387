------------------------------ MODULE LineQueue ------------------------------
(***************************************************************************)
(* What the script FIFO promises to those who write whole lines to it: a   *)
(* queue of bytes, from which the daemon takes and runs one line at a time,*)
(* the first, whole and once.                                              *)
(***************************************************************************)
EXTENDS Naturals, Sequences

CONSTANTS
    NL,          \* the byte that ends a line
    Messages     \* what may be written at once: whole lines

VARIABLES
    waiting,     \* the bytes that were written and not run
    ran,         \* the lines that were run
    broken       \* something else was written: nothing is promised any more

vars == <<waiting, ran, broken>>

Init == waiting = <<>> /\ ran = <<>> /\ broken = FALSE

Send ==
    /\ \E w \in Messages : waiting' = waiting \o w
    /\ UNCHANGED <<ran, broken>>

\* The bytes before the first newline are the line.
Run ==
    /\ \E n \in 1..Len(waiting) :
        /\ waiting[n] = NL /\ \A i \in 1..(n - 1) : waiting[i] # NL
        /\ ran' = Append(ran, SubSeq(waiting, 1, n - 1))
        /\ waiting' = SubSeq(waiting, n + 1, Len(waiting))
    /\ UNCHANGED broken

Next == broken' \/ Send \/ Run

Spec == Init /\ [][Next]_vars
=============================================================================
