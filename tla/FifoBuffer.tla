----------------------------- MODULE FifoBuffer -----------------------------
(***************************************************************************)
(* The script FIFO and its buffer (gpio_mapping.c, the first part of       *)
(* handle_gpio_mapping), byte by byte: writers, the read loop that ends at *)
(* EWOULDBLOCK, strtok_r in a buffer that is not ended where the bytes     *)
(* read end, and total_bytes, an unsigned number.                          *)
(*                                                                         *)
(* What a line does is in ConfigStore and GpioMapping; here it only cuts   *)
(* words of the buffer.  The FIFO is open for reading and writing, so that *)
(* read never returns 0.                                                   *)
(***************************************************************************)
EXTENDS Integers, Sequences, SequencesExt, FiniteSetsExt

CONSTANTS
    Letters,     \* bytes of words
    SP,          \* what parse_config_line cuts words at: a blank or a "+"
    NL,          \* what strtok_r cuts lines at: "\n" or "\r"
    NUL,
    Writes,      \* what writers write at once
    Size,        \* of fifo_buffer
    WordSize,    \* size_t counts modulo WordSize
    MaxWrites    \* bound on the writes

Bytes == Letters \cup {SP, NL, NUL}
Index == 0..(Size - 1)

ASSUME ByteAssumption == NUL # NL
ASSUME WriteAssumption == \A w \in Writes : w \in Seq(Bytes \ {NUL}) /\ w # <<>>
ASSUME SizeAssumption == Size \in Nat \ {0} /\ WordSize \in Nat /\ WordSize > 2 * Size

VARIABLES
    pipe,      \* the bytes in the FIFO
    buffer,    \* fifo_buffer
    total,     \* total_bytes
    pc         \* "select", "read", or "dead" when the process has crashed

\* Histories: the lines that were run, the bytes and the writes so far, and
\* whether one of them had a blank line or an end without newline.
VARIABLES ran, written, writes, ragged

vars == <<pipe, buffer, total, pc, ran, written, writes, ragged>>

\* The bytes of the buffer from i until before j.
Part(b, i, j) == [k \in 1..(j - i) |-> b[i + k - 1]]

Ragged(w) ==
    \/ Head(w) = NL \/ Last(w) # NL
    \/ \E i \in 1..(Len(w) - 1) : w[i] = NL /\ w[i + 1] = NL

\* A writer: a write this short is not torn.  The bound: all bytes that wait
\* fit in the buffer (read may get sizeof - 1 bytes, however full it is).
Write(w) ==
    /\ pc # "dead" /\ writes < MaxWrites
    /\ total + Len(pipe) + Len(w) < Size
    /\ pipe' = pipe \o w
    /\ written' = written \o w
    /\ writes' = writes + 1
    /\ ragged' = (ragged \/ Ragged(w))
    /\ UNCHANGED <<buffer, total, pc, ran>>

\* select: something is in the FIFO.
Wake ==
    /\ pc = "select" /\ pipe # <<>>
    /\ pc' = "read"
    /\ UNCHANGED <<pipe, buffer, total, ran, written, writes, ragged>>

\* Mutant of Read: a NUL is left between what was there and the new bytes.
ReadBehindNul ==
    LET n == Min({Len(pipe), Size - 1})
    IN  /\ pc = "read" /\ pipe # <<>>
        /\ buffer' = [i \in Index |-> IF i \in (total + 1)..(total + n) THEN pipe[i - total]
                                      ELSE buffer[i]]
        /\ total' = total + n
        /\ pipe' = SubSeq(pipe, n + 1, Len(pipe))
        /\ UNCHANGED <<pc, ran, written, writes, ragged>>

\* read, and on with the loop.
Read ==
    LET n == Min({Len(pipe), Size - 1})
    IN  /\ pc = "read" /\ pipe # <<>>
        /\ buffer' = [i \in Index |-> IF i \in total..(total + n - 1) THEN pipe[i - total + 1]
                                      ELSE buffer[i]]
        /\ total' = total + n
        /\ pipe' = SubSeq(pipe, n + 1, Len(pipe))
        /\ UNCHANGED <<pc, ran, written, writes, ragged>>

TokenStart == Min({i \in Index : buffer[i] # NL})

\* Mutant of TokenEnd: the last newline that was read ends the token.
TokenEndLast ==
    LET start == TokenStart
    IN  Max({start} \cup {i \in start..(total - 1) : buffer[i] = NL})

\* strtok_r finds a token that is ended by a newline or by a NUL, be it in the
\* bytes that were read or in what was in the buffer before.
TokenEnd ==
    LET start == TokenStart
    IN  Min({i \in start..(Size - 1) : buffer[i] \in {NL, NUL}})
NoToken == buffer[TokenStart] = NUL

\* Mutant of NextLine: one byte too many.
NextLineFar(end) == end + 2

NextLine(end) == IF buffer[end] = NUL THEN end ELSE end + 1

\* The buffer when parse_config_line is done with the line: how many words it
\* has cut off depends on the line.
Parsed(end, words) ==
    [i \in Index |-> IF i = end \/ (i < words /\ buffer[i] = SP) THEN NUL ELSE buffer[i]]

\* Mutant of Moved: the rest is not moved to the front.
MovedNot(parsed, next, left) == parsed

\* memmove
Moved(parsed, next, left) == [i \in Index |-> parsed[IF i < left THEN next + i ELSE i]]

\* Mutant of Run: at EWOULDBLOCK the loop ends without a look at the buffer.
RunNothing ==
    /\ pc = "read" /\ pipe = <<>>
    /\ pc' = "select"
    /\ UNCHANGED <<pipe, buffer, total, ran, written, writes, ragged>>

\* EWOULDBLOCK: one line is run, and the other bytes wait for the next wake.
\* When total_bytes wraps, memmove leaves the address space.
RunLine ==
    LET end == TokenEnd
        next == NextLine(end)
        left == (total - next) % WordSize
    IN  /\ ran' = Append(ran, Part(buffer, TokenStart, end))
        /\ total' = left
        /\ IF left < Size
           THEN /\ pc' = "select"
                /\ \E words \in 0..end : buffer' = Moved(Parsed(end, words), next, left)
           ELSE pc' = "dead" /\ UNCHANGED buffer

Run ==
    /\ pc = "read" /\ pipe = <<>>
    /\ IF NoToken THEN pc' = "select" /\ UNCHANGED <<buffer, total, ran>> ELSE RunLine
    /\ UNCHANGED <<pipe, written, writes, ragged>>

Init ==
    /\ pipe = <<>> /\ buffer = [i \in Index |-> NUL] /\ total = 0 /\ pc = "select"
    /\ ran = <<>> /\ written = <<>> /\ writes = 0 /\ ragged = FALSE

Daemon == Wake \/ Read \/ Run
Next == Daemon \/ (\E w \in Writes : Write(w))

Spec == Init /\ [][Next]_vars

\* handle_gpio_mapping is called again and again, and select returns when the
\* FIFO is not empty.
FairSpec == Spec /\ WF_vars(Daemon)

-----------------------------------------------------------------------------
\* The buffer keeps its last NUL, on which strtok_r relies.
TypeOK ==
    /\ pipe \in Seq(Bytes) /\ buffer \in [Index -> Bytes] /\ total \in 0..(WordSize - 1)
    /\ pc \in {"select", "read", "dead"}
    /\ buffer[Size - 1] = NUL /\ (pc # "dead" => total < Size)

\* The bytes that were written and not run.
Waiting == Part(buffer, 0, total) \o pipe

\* As long as every write is whole lines, no byte is lost, repeated, joined to
\* another line or taken from what is left of older lines: the lines that were
\* run, the bytes that wait in the buffer and those in the FIFO are what was
\* written.
LinesInOrder ==
    ~ragged => FlattenSeq([i \in DOMAIN ran |-> Append(ran[i], NL)]) \o Waiting = written

\* Every step of the writers and of the daemon is one of the queue: each run
\* takes the first line of those that wait, just that line and all of it,
\* however the bytes are spread over the FIFO and the buffer.
Queue == INSTANCE LineQueue
         WITH waiting <- Waiting, broken <- ragged, Messages <- {w \in Writes : ~Ragged(w)}
QueueSpec == Queue!Spec

\* total_bytes only wraps after a blank or an unended line.
NoWrap == pc = "dead" => ragged

\* Whatever is in the FIFO makes the daemon run one more line.
AWriteIsHeard ==
    \A k \in 0..MaxWrites :
        (pipe # <<>> /\ Len(ran) = k) ~> (Len(ran) > k \/ ragged)

\* Every line that is written is run ("You can send script commands to the
\* fkgpiod daemon by writting to the /tmp/fkgpiod.fifo file").
LinesWritten == Len(SelectSeq(written, LAMBDA c : c = NL))
EveryLineRuns ==
    \A k \in 1..Size : LinesWritten >= k ~> (Len(ran) >= k \/ ragged)
=============================================================================
