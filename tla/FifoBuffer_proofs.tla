-------------------------- MODULE FifoBuffer_proofs --------------------------
(***************************************************************************)
(* Theorems of FifoBuffer for every size of the buffer, all lines and any  *)
(* number of writers: the buffer keeps its last NUL, and as long as only   *)
(* whole lines are written, total_bytes never wraps and the lines that are *)
(* run are those that were written, in their order, each run a step of the *)
(* abstract queue (LineQueue).                                             *)
(***************************************************************************)
EXTENDS FifoBuffer, SequenceFacts

\* The bytes of the lines that were run.
Lines(lines) == [i \in DOMAIN lines |-> Append(lines[i], NL)]

\* Lines that are not blank, and each is ended.
Whole(s) ==
    s # <<>> =>
        /\ s[1] # NL /\ s[Len(s)] = NL
        /\ \A i \in 1..(Len(s) - 1) : s[i] = NL => s[i + 1] # NL

\* The bytes that wait fit in the buffer, before its last NUL.
Fits == pc # "dead" => total + Len(pipe) < Size

\* There is a line to run when the read loop ends, the first byte that waits
\* begins it, and a newline ends it among the bytes that wait.
InOrder ==
    /\ pc # "dead"
    /\ pc = "read" => total + Len(pipe) > 0
    /\ Whole(Waiting)
    /\ Waiting \in Seq(Bytes \ {NUL})
    /\ FlattenSeq(Lines(ran)) \o Waiting = written

\* LinesInOrder is kept because the bytes that wait are whole lines, and no
\* byte is lost because they fit.
IInv ==
    /\ TypeOK
    /\ pipe \in Seq(Bytes \ {NUL}) /\ ran \in Seq(Seq(Bytes)) /\ written \in Seq(Bytes)
    /\ ragged \in BOOLEAN
    /\ Fits
    /\ ~ragged => InOrder

(***************************************************************************)
(* The bytes of a part of the buffer.                                      *)
(***************************************************************************)
LEMMA PartFacts ==
    ASSUME NEW S, NEW b \in [Index -> S], NEW i \in 0..Size, NEW j \in i..Size
    PROVE  /\ Part(b, i, j) \in Seq(S) /\ Len(Part(b, i, j)) = j - i
           /\ \A k \in 1..(j - i) : Part(b, i, j)[k] = b[i + k - 1]
<1>1. Size \in Nat /\ j - i \in Nat
  BY SizeAssumption
<1>2. ASSUME NEW k \in 1..(j - i) PROVE b[i + k - 1] \in S
  <2>1. i + k - 1 \in Index
    BY <1>1 DEF Index
  <2> QED
    BY <2>1
<1> QED
  BY <1>1, <1>2 DEF Part

\* The bytes at the beginning of the buffer.
LEMMA PrefixFacts ==
    ASSUME NEW S, NEW b \in [Index -> S], NEW n \in 0..Size
    PROVE  /\ Part(b, 0, n) \in Seq(S) /\ Len(Part(b, 0, n)) = n
           /\ \A k \in 1..n : Part(b, 0, n)[k] = b[k - 1]
<1>1. Size \in Nat /\ n \in Nat
  BY SizeAssumption
<1>2. ASSUME NEW k \in 1..n PROVE b[k - 1] \in S
  <2>1. k - 1 \in Index
    BY <1>1 DEF Index
  <2> QED
    BY <2>1
<1>3. Part(b, 0, n) = [k \in 1..n |-> b[k - 1]]
  BY <1>1 DEF Part
<1> QED
  BY <1>1, <1>2, <1>3

(***************************************************************************)
(* A write of whole lines behind whole lines.                              *)
(***************************************************************************)
LEMMA WholeConcat ==
    ASSUME NEW S, NEW s \in Seq(S), NEW w \in Seq(S), Whole(s), Whole(w)
    PROVE  Whole(s \o w)
<1> DEFINE t == s \o w
<1>1. /\ t \in Seq(S) /\ Len(t) = Len(s) + Len(w)
      /\ \A i \in 1..Len(s) : t[i] = s[i]
      /\ \A i \in 1..Len(w) : t[Len(s) + i] = w[i]
  OBVIOUS
<1>2. CASE s = <<>> \/ w = <<>>
  <2>1. t = s \/ t = w
    BY <1>2
  <2> QED
    BY <2>1
<1>3. CASE s # <<>> /\ w # <<>>
  <2>1. Len(s) \in Nat \ {0} /\ Len(w) \in Nat \ {0}
    BY <1>3
  <2>2. t[1] # NL
    BY <1>1, <1>3, <2>1 DEF Whole
  <2>3. t[Len(t)] = NL
    BY <1>1, <1>3, <2>1 DEF Whole
  <2>4. ASSUME NEW i \in 1..(Len(t) - 1), t[i] = NL PROVE t[i + 1] # NL
    <3>1. CASE i < Len(s)
      BY <1>1, <1>3, <2>1, <2>4, <3>1 DEF Whole
    <3>2. CASE i = Len(s)
      BY <1>1, <1>3, <2>1, <3>2 DEF Whole
    <3>3. CASE i > Len(s)
      <4> DEFINE j == i - Len(s)
      <4>1. j \in 1..(Len(w) - 1) /\ t[i] = w[j] /\ t[i + 1] = w[j + 1]
        <5>1. j \in 1..(Len(w) - 1) /\ Len(s) + j = i /\ Len(s) + (j + 1) = i + 1
          BY <1>1, <2>1, <3>3
        <5> QED
          BY <1>1, <2>1, <5>1
      <4> QED
        BY <1>3, <2>4, <4>1 DEF Whole
    <3> QED
      BY <2>1, <3>1, <3>2, <3>3
  <2> HIDE DEF t
  <2> QED
    BY <2>2, <2>3, <2>4 DEF Whole
<1> QED
  BY <1>2, <1>3

LEMMA NotRagged ==
    ASSUME NEW S, NEW w \in Seq(S), w # <<>>, ~Ragged(w)
    PROVE  Whole(w)
BY DEF Ragged, Whole, Last

(***************************************************************************)
(* The bytes of the lines that were run, with one more line.               *)
(***************************************************************************)
LEMMA LinesAppend ==
    ASSUME NEW lines \in Seq(Seq(Bytes)), NEW l \in Seq(Bytes)
    PROVE  /\ FlattenSeq(Lines(lines)) \in Seq(Bytes)
           /\ FlattenSeq(Lines(Append(lines, l))) = FlattenSeq(Lines(lines)) \o Append(l, NL)
<1>1. NL \in Bytes
  BY DEF Bytes
<1>2. \A i \in 1..Len(lines) : Append(lines[i], NL) \in Seq(Bytes)
  BY <1>1
<1>3. /\ Lines(lines) \in Seq(Seq(Bytes)) /\ Len(Lines(lines)) = Len(lines)
      /\ \A i \in 1..Len(lines) : Lines(lines)[i] = Append(lines[i], NL)
  <2>1. DOMAIN lines = 1..Len(lines) /\ Len(lines) \in Nat
    OBVIOUS
  <2>2. Lines(lines) = [i \in 1..Len(lines) |-> Append(lines[i], NL)]
    BY <2>1 DEF Lines
  <2> QED
    BY <1>2, <2>1, <2>2
<1>4. Lines(Append(lines, l)) = Append(Lines(lines), Append(l, NL))
  <2> DEFINE s == Append(lines, l)
             n == Len(lines) + 1
  <2>1. Append(l, NL) \in Seq(Bytes)
    BY <1>1
  <2>2. s \in Seq(Seq(Bytes)) /\ Len(s) = n /\ n \in Nat /\ DOMAIN s = 1..n
    OBVIOUS
  <2>3. s[n] = l /\ \A i \in 1..Len(lines) : s[i] = lines[i]
    OBVIOUS
  <2> HIDE DEF s
  <2>4. Lines(s) = [i \in 1..n |-> Append(s[i], NL)]
    BY <2>2 DEF Lines
  <2>5. \A i \in 1..n : s[i] \in Seq(Bytes) /\ Append(s[i], NL) \in Seq(Bytes)
    BY <1>1, <2>2
  <2>6. Lines(s) \in Seq(Seq(Bytes)) /\ Len(Lines(s)) = n
    BY <2>2, <2>4, <2>5
  <2> DEFINE u == Append(Lines(lines), Append(l, NL))
  <2>7. /\ u \in Seq(Seq(Bytes)) /\ Len(u) = n /\ u[n] = Append(l, NL)
        /\ \A i \in 1..Len(lines) : u[i] = Lines(lines)[i]
    BY <1>3, <2>1, AppendProperties
  <2> HIDE DEF u
  <2>8. ASSUME NEW i \in 1..n PROVE Lines(s)[i] = u[i]
    <3>1. Lines(s)[i] = Append(s[i], NL)
      BY <2>4
    <3>2. CASE i = n
      BY <2>3, <2>7, <3>1, <3>2
    <3>3. CASE i # n
      <4>1. i \in 1..Len(lines)
        BY <3>3
      <4> QED
        BY <1>3, <2>3, <2>7, <3>1, <4>1
    <3> QED
      BY <3>2, <3>3
  <2>9. Lines(s) = u
    BY <2>6, <2>7, <2>8, SeqEqual
  <2> QED
    BY <2>9 DEF s, u
<1>5. Append(l, NL) \in Seq(Bytes)
  BY <1>1
<1> QED
  BY <1>3, <1>4, <1>5, FlattenAppend

-----------------------------------------------------------------------------
LEMMA InvInit == Init => IInv
<1> SUFFICES ASSUME Init PROVE IInv
  OBVIOUS
<1>1. Part(buffer, 0, total) = <<>> /\ Lines(ran) = <<>>
  BY DEF Init, Part, Lines
<1>2. Waiting = <<>>
  BY <1>1 DEF Waiting, Init
<1>3. NUL \in Bytes
  BY DEF Bytes
<1>4. TypeOK
  BY <1>3, SizeAssumption DEF Init, TypeOK, Index
<1>5. InOrder
  BY <1>1, <1>2, FlattenEmpty DEF Init, InOrder, Whole
<1>6. Fits
  BY SizeAssumption DEF Init, Fits
<1>7. /\ pipe \in Seq(Bytes \ {NUL}) /\ ran \in Seq(Seq(Bytes)) /\ written \in Seq(Bytes)
      /\ ragged \in BOOLEAN
  BY EmptySeq DEF Init
<1> QED
  BY <1>4, <1>5, <1>6, <1>7 DEF IInv

\* A writer puts its bytes behind those that wait.
LEMMA WriteWaiting ==
    ASSUME IInv, NEW w \in Writes, Write(w)
    PROVE  Waiting' = Waiting \o w
<1>1. w \in Seq(Bytes)
  BY WriteAssumption
<1>2. pipe' = pipe \o w /\ UNCHANGED <<buffer, total>> /\ pc # "dead"
  BY DEF Write
<1>3. Part(buffer, 0, total) \in Seq(Bytes)
  <2>1. total \in 0..Size /\ Size \in Nat
    BY <1>2, SizeAssumption DEF IInv, TypeOK
  <2> QED
    BY <2>1, PartFacts DEF IInv, TypeOK
<1>4. pipe \in Seq(Bytes)
  BY DEF IInv, TypeOK
<1>5. (Part(buffer, 0, total) \o pipe) \o w = Part(buffer, 0, total) \o (pipe \o w)
  BY <1>1, <1>3, <1>4, ConcatAssociative
<1> QED
  BY <1>2, <1>5 DEF Waiting

(***************************************************************************)
(* A writer puts whole lines behind what waits, or the writes are ragged   *)
(* from now on.                                                            *)
(***************************************************************************)
LEMMA WriteInv ==
    ASSUME IInv, NEW w \in Writes, Write(w)
    PROVE  IInv'
<1>1. w \in Seq(Bytes \ {NUL}) /\ w # <<>> /\ w \in Seq(Bytes)
  BY WriteAssumption
<1>2. pipe' = pipe \o w /\ pipe' \in Seq(Bytes \ {NUL}) /\ Len(pipe') = Len(pipe) + Len(w)
  BY <1>1 DEF Write, IInv
<1>3. UNCHANGED <<buffer, total, pc, ran>> /\ pc # "dead"
  BY DEF Write
<1>4. TypeOK'
  <2>1. pipe' \in Seq(Bytes)
    BY <1>2
  <2> QED
    BY <1>3, <2>1 DEF IInv, TypeOK
<1>5. Fits'
  BY <1>2, <1>3, SizeAssumption DEF Write, Fits, IInv, TypeOK
<1>6. written' = written \o w /\ written' \in Seq(Bytes) /\ written \in Seq(Bytes)
  BY <1>1 DEF Write, IInv
<1>7. ASSUME ~ragged' PROVE InOrder'
  <2>1. InOrder /\ ~Ragged(w)
    BY <1>7 DEF Write, IInv
  <2>2. Waiting' = Waiting \o w
    BY WriteWaiting
  <2>3. Waiting \in Seq(Bytes \ {NUL}) /\ Waiting \in Seq(Bytes)
    BY <2>1 DEF InOrder
  <2>4. Waiting' \in Seq(Bytes \ {NUL})
    BY <1>1, <2>2, <2>3, ConcatProperties
  <2>5. Whole(Waiting')
    BY <1>1, <2>1, <2>2, <2>3, NotRagged, WholeConcat DEF InOrder
  <2>6. FlattenSeq(Lines(ran')) \o Waiting' = written'
    <3>1. FlattenSeq(Lines(ran)) \in Seq(Bytes)
      BY LinesAppend, EmptySeq DEF IInv
    <3>2. (FlattenSeq(Lines(ran)) \o Waiting) \o w = FlattenSeq(Lines(ran)) \o (Waiting \o w)
      BY <1>1, <2>3, <3>1, ConcatAssociative
    <3> QED
      BY <1>3, <1>6, <2>1, <2>2, <3>2 DEF InOrder
  <2>7. pc' = "read" => total' + Len(pipe') > 0
    BY <1>1, <1>2, <1>3, <2>1 DEF InOrder, IInv, TypeOK
  <2> QED
    BY <1>3, <2>4, <2>5, <2>6, <2>7 DEF InOrder
<1>8. ragged' \in BOOLEAN
  BY DEF Write
<1> QED
  BY <1>2, <1>3, <1>4, <1>5, <1>6, <1>7, <1>8 DEF IInv

LEMMA WakeInv ==
    ASSUME IInv, Wake
    PROVE  IInv'
<1>1. UNCHANGED <<pipe, buffer, total, ran, written, writes, ragged>>
  BY DEF Wake
<1>2. pc = "select" /\ pc' = "read" /\ pipe # <<>>
  BY DEF Wake
<1>3. TypeOK' /\ Fits'
  BY <1>1, <1>2 DEF IInv, TypeOK, Fits
<1>4. Len(pipe) > 0 /\ total \in Nat
  BY <1>2 DEF IInv, TypeOK
<1>5. Waiting' = Waiting
  BY <1>1 DEF Waiting
<1> QED
  BY <1>1, <1>2, <1>3, <1>4, <1>5 DEF IInv, InOrder

(***************************************************************************)
(* read takes all that is in the FIFO, behind what is in the buffer.       *)
(***************************************************************************)
LEMMA ReadInv ==
    ASSUME IInv, Read
    PROVE  IInv' /\ Waiting' = Waiting
<1> DEFINE n == Len(pipe)
<1>1. /\ pipe \in Seq(Bytes \ {NUL}) /\ pipe \in Seq(Bytes) /\ n \in Nat \ {0}
      /\ buffer \in [Index -> Bytes] /\ buffer[Size - 1] = NUL
      /\ total \in Nat /\ Size \in Nat /\ total + n < Size /\ WordSize > Size /\ WordSize \in Nat
  <2>1. pc = "read" /\ pipe # <<>>
    BY DEF Read
  <2> QED
    BY <2>1, SizeAssumption DEF IInv, TypeOK, Fits
<1>2. Min({n, Size - 1}) = n
  <2>1. {n, Size - 1} \in SUBSET Nat /\ \A x \in {n, Size - 1} : n <= x
    BY <1>1
  <2> QED
    BY <2>1, MinIs
<1>3. /\ buffer' = [i \in Index |-> IF i \in total..(total + n - 1) THEN pipe[i - total + 1]
                                    ELSE buffer[i]]
      /\ total' = total + n
      /\ pipe' = SubSeq(pipe, n + 1, n)
      /\ UNCHANGED <<pc, ran, written, writes, ragged>> /\ pc = "read"
  BY <1>2 DEF Read
<1>4. pipe' = <<>>
  BY <1>1, <1>3
<1>5. ASSUME NEW i \in total..(total + n - 1)
      PROVE  pipe[i - total + 1] \in Bytes /\ i \in Index /\ i # Size - 1
  <2>1. i - total + 1 \in 1..n
    BY <1>1
  <2> QED
    BY <1>1, <2>1 DEF Index
<1>6. buffer' \in [Index -> Bytes]
  BY <1>1, <1>3, <1>5
<1>7. buffer'[Size - 1] = NUL
  <2>1. Size - 1 \in Index
    BY SizeAssumption DEF Index
  <2> QED
    BY <1>1, <1>3, <1>5, <2>1
<1>8. TypeOK'
  <2>1. pipe' \in Seq(Bytes)
    BY <1>4
  <2> QED
    BY <1>1, <1>3, <1>6, <1>7, <2>1 DEF IInv, TypeOK
<1>9. Fits'
  BY <1>1, <1>3, <1>4 DEF Fits
<1>10. Waiting' = Waiting
  <2> DEFINE old == Part(buffer, 0, total)
             new == Part(buffer', 0, total + n)
  <2>1. old \in Seq(Bytes) /\ Len(old) = total /\ \A k \in 1..total : old[k] = buffer[k - 1]
    <3>1. total \in 0..Size /\ buffer \in [Index -> Bytes]
      BY <1>1
    <3> QED
      BY ZenonT(60), <3>1, PrefixFacts
  <2>2. /\ new \in Seq(Bytes) /\ Len(new) = total + n
        /\ \A k \in 1..(total + n) : new[k] = buffer'[k - 1]
    <3>1. total + n \in 0..Size
      BY <1>1
    <3> QED
      BY ZenonT(60), <1>6, <3>1, PrefixFacts
  <2> HIDE DEF old, new
  <2>3. /\ old \o pipe \in Seq(Bytes) /\ Len(old \o pipe) = total + n
        /\ \A k \in 1..(total + n) :
              (old \o pipe)[k] = IF k <= total THEN old[k] ELSE pipe[k - total]
    <3>1. pipe \in Seq(Bytes) /\ Len(pipe) = n /\ old \in Seq(Bytes) /\ Len(old) = total
      BY <1>1, <2>1
    <3>2. /\ old \o pipe \in Seq(Bytes) /\ Len(old \o pipe) = Len(old) + Len(pipe)
          /\ \A k \in 1..(Len(old) + Len(pipe)) :
                (old \o pipe)[k] = IF k <= Len(old) THEN old[k] ELSE pipe[k - Len(old)]
      BY ONLY <3>1, ConcatProperties, ZenonT(60)
    <3> QED
      BY ONLY <3>1, <3>2, ZenonT(60)
  <2>4. ASSUME NEW k \in 1..(total + n) PROVE new[k] = (old \o pipe)[k]
    <3>1. k - 1 \in Index /\ new[k] = buffer'[k - 1]
      BY <1>1, <2>2 DEF Index
    <3>2. CASE k <= total
      BY <1>1, <1>3, <2>1, <2>3, <3>1, <3>2
    <3>3. CASE k > total
      <4>1. k - 1 \in total..(total + n - 1) /\ (k - 1) - total + 1 = k - total
        BY <1>1, <3>3
      <4> QED
        BY <1>1, <1>3, <2>3, <3>1, <3>3, <4>1
    <3>4. k <= total \/ k > total
      BY <1>1
    <3> QED
      BY <3>2, <3>3, <3>4
  <2>5. new = old \o pipe
    BY <2>2, <2>3, <2>4, SeqEqual
  <2>6. new \o <<>> = new
    BY <2>2, ConcatEmptySeq
  <2> QED
    BY <1>3, <1>4, <2>5, <2>6 DEF Waiting, old, new
<1>11. pc' = "read" => total' + Len(pipe') > 0
  BY <1>1, <1>3, <1>4
<1>12. pipe' \in Seq(Bytes \ {NUL})
  BY <1>4
<1> QED
  BY <1>3, <1>8, <1>9, <1>10, <1>11, <1>12 DEF IInv, InOrder

(***************************************************************************)
(* strtok_r finds a token in the buffer, ended before its last NUL or by   *)
(* it.                                                                     *)
(***************************************************************************)
LEMMA TokenFacts ==
    ASSUME TypeOK
    PROVE  /\ TokenStart \in Index /\ buffer[TokenStart] # NL
           /\ \A i \in Index : buffer[i] # NL => TokenStart <= i
           /\ TokenEnd \in TokenStart..(Size - 1) /\ buffer[TokenEnd] \in {NL, NUL}
           /\ \A i \in TokenStart..(Size - 1) : buffer[i] \in {NL, NUL} => TokenEnd <= i
<1>1. Size - 1 \in Index /\ buffer[Size - 1] = NUL /\ Size \in Nat
  BY SizeAssumption DEF TypeOK, Index
<1> DEFINE starts == {i \in Index : buffer[i] # NL}
<1>2. starts \in SUBSET Nat /\ starts # {}
  BY <1>1, ByteAssumption DEF Index
<1>3. TokenStart \in starts /\ \A i \in starts : TokenStart <= i
  BY <1>2, MinNat DEF TokenStart
<1>4. TokenStart \in Index /\ TokenStart \in Nat
  BY <1>1, <1>3 DEF Index
<1> DEFINE ends == {i \in TokenStart..(Size - 1) : buffer[i] \in {NL, NUL}}
<1>5. ends \in SUBSET Nat /\ Size - 1 \in ends
  <2>1. TokenStart <= Size - 1
    BY <1>1, <1>4 DEF Index
  <2> QED
    BY <1>1, <1>4, <2>1
<1>6. TokenEnd = Min(ends)
  BY DEF TokenEnd
<1>7. TokenEnd \in ends /\ \A i \in ends : TokenEnd <= i
  BY <1>5, <1>6, MinNat
<1> QED
  BY <1>3, <1>4, <1>7

(***************************************************************************)
(* What is left is less than the buffer only when total_bytes has not      *)
(* wrapped.                                                                *)
(***************************************************************************)
LEMMA LeftFacts ==
    ASSUME TypeOK, pc # "dead", NEW next \in 0..Size
    PROVE  LET left == (total - next) % WordSize
           IN  /\ left \in 0..(WordSize - 1)
               /\ left < Size => left = total - next
               /\ next <= total => left = total - next
<1> DEFINE d == total - next
<1>1. d \in Int /\ -Size <= d /\ d < Size /\ Size \in Nat /\ WordSize \in Nat /\ 2 * Size < WordSize
  BY SizeAssumption DEF TypeOK
<1>2. CASE d >= 0
  <2>1. d % WordSize = d
    BY <1>1, <1>2
  <2> QED
    BY <1>1, <1>2, <2>1
<1>3. CASE d < 0
  <2>1. d % WordSize = WordSize + d
    BY <1>1, <1>3
  <2>2. WordSize + d \in 0..(WordSize - 1) /\ ~(WordSize + d < Size)
    BY <1>1, <1>3
  <2>3. ~(next <= total)
    BY <1>1, <1>3 DEF TypeOK
  <2> QED
    BY <2>1, <2>2, <2>3
<1> QED
  BY <1>1, <1>2, <1>3

(***************************************************************************)
(* One line is run: what is left is moved to the front, or total_bytes has *)
(* wrapped.                                                                *)
(***************************************************************************)
LEMMA RunLineType ==
    ASSUME IInv, RunLine, pc = "read", pipe = <<>>, UNCHANGED <<pipe, written, ragged>>
    PROVE  TypeOK' /\ Fits' /\ ran' \in Seq(Seq(Bytes))
<1> DEFINE end == TokenEnd
           next == NextLine(end)
           left == (total - next) % WordSize
<1>1. /\ TypeOK /\ buffer \in [Index -> Bytes] /\ buffer[Size - 1] = NUL /\ Size \in Nat \ {0}
      /\ total \in Nat /\ total < Size /\ NUL \in Bytes /\ Size < WordSize /\ WordSize \in Nat
  BY SizeAssumption DEF IInv, TypeOK, Bytes
<1>2. /\ TokenStart \in Index /\ end \in TokenStart..(Size - 1) /\ end \in Index
      /\ buffer[end] \in {NL, NUL}
  <2>1. TokenStart \in Index /\ end \in TokenStart..(Size - 1) /\ buffer[end] \in {NL, NUL}
    BY <1>1, TokenFacts
  <2> HIDE DEF end
  <2> QED
    BY <1>1, <2>1 DEF Index
<1>3. next \in 0..Size
  BY <1>1, <1>2 DEF NextLine, Index
<1>4. left \in 0..(WordSize - 1) /\ (left < Size => left = total - next)
  BY <1>1, <1>3, LeftFacts
<1>5. Part(buffer, TokenStart, end) \in Seq(Bytes)
  <2>1. TokenStart \in 0..Size /\ end \in TokenStart..Size
    BY <1>1, <1>2 DEF Index
  <2> QED
    BY <1>1, <2>1, PartFacts
<1>6. ran' \in Seq(Seq(Bytes))
  BY <1>5 DEF RunLine, IInv
<1>7. total' = left
  BY DEF RunLine
<1> HIDE DEF left
<1>8. CASE left < Size
  <2>1. PICK words \in 0..end : buffer' = Moved(Parsed(end, words), next, left)
    BY <1>8 DEF RunLine, left
  <2>2. pc' = "select"
    BY <1>8 DEF RunLine, left
  <2> DEFINE parsed == Parsed(end, words)
  <2>3. parsed \in [Index -> Bytes] /\ parsed[Size - 1] = NUL
    <3>1. parsed \in [Index -> Bytes]
      BY <1>1 DEF Parsed
    <3>2. Size - 1 \in Index
      BY <1>1 DEF Index
    <3> QED
      BY <1>1, <3>1, <3>2 DEF Parsed
  <2> HIDE DEF parsed
  <2>4. buffer' = [i \in Index |-> parsed[IF i < left THEN next + i ELSE i]]
    BY <2>1 DEF Moved, parsed
  <2>5. ASSUME NEW i \in Index PROVE (IF i < left THEN next + i ELSE i) \in Index
    <3>1. CASE i < left
      BY <1>1, <1>3, <1>4, <1>8, <3>1 DEF Index
    <3> QED
      BY <3>1
  <2>6. buffer' \in [Index -> Bytes]
    BY <2>3, <2>4, <2>5
  <2>7. buffer'[Size - 1] = NUL
    <3>1. Size - 1 \in Index /\ ~(Size - 1 < left)
      BY <1>1, <1>4, <1>8 DEF Index
    <3> QED
      BY <2>3, <2>4, <3>1
  <2>8. total' \in 0..(WordSize - 1) /\ total' < Size
    BY <1>4, <1>7, <1>8
  <2>9. pipe' = <<>> /\ pipe' \in Seq(Bytes) /\ Len(pipe') = 0
    OBVIOUS
  <2>10. TypeOK'
    BY <2>2, <2>6, <2>7, <2>8, <2>9 DEF TypeOK
  <2>11. Fits'
    BY <1>4, <2>8, <2>9 DEF Fits
  <2> QED
    BY <1>6, <2>10, <2>11
<1>9. CASE ~(left < Size)
  <2>1. pc' = "dead" /\ buffer' = buffer
    BY <1>9 DEF RunLine, left
  <2>2. TypeOK'
    BY <1>1, <1>4, <1>7, <2>1 DEF TypeOK
  <2>3. Fits'
    BY <2>1 DEF Fits
  <2> QED
    BY <1>6, <2>2, <2>3
<1> QED
  BY <1>8, <1>9

(***************************************************************************)
(* Among whole lines it is the first one that is run, and the others wait. *)
(***************************************************************************)
LEMMA RunLineInOrder ==
    ASSUME IInv, ~ragged, RunLine, pc = "read", pipe = <<>>, UNCHANGED <<pipe, written, ragged>>
    PROVE  InOrder' /\ Queue!Run
<1> DEFINE end == TokenEnd
           next == NextLine(end)
           left == (total - next) % WordSize
<1>1. /\ TypeOK /\ buffer \in [Index -> Bytes] /\ Size \in Nat \ {0} /\ InOrder
      /\ total \in Nat /\ total < Size /\ total > 0 /\ Waiting \in Seq(Bytes \ {NUL})
      /\ Whole(Waiting) /\ FlattenSeq(Lines(ran)) \o Waiting = written
  <2>1. InOrder /\ Len(pipe) = 0
    BY DEF IInv
  <2> QED
    BY <2>1, SizeAssumption DEF IInv, TypeOK, InOrder
<1>2. /\ Waiting = Part(buffer, 0, total) /\ Waiting \in Seq(Bytes) /\ Len(Waiting) = total
      /\ \A k \in 1..total : Waiting[k] = buffer[k - 1] /\ buffer[k - 1] # NUL
  <2> DEFINE old == Part(buffer, 0, total)
  <2>1. total \in 0..Size /\ buffer \in [Index -> Bytes]
    BY <1>1
  <2>2. old \in Seq(Bytes) /\ Len(old) = total /\ \A k \in 1..total : old[k] = buffer[k - 1]
    BY ZenonT(60), <2>1, PrefixFacts
  <2> HIDE DEF old
  <2>3. old \o <<>> = old
    BY <2>2, ConcatEmptySeq
  <2>4. Waiting = old
    BY <2>3 DEF Waiting, old
  <2>5. \A k \in 1..total : old[k] \in Bytes \ {NUL}
    BY <1>1, <2>1, <2>2, <2>4, ElementOfSeq
  <2> QED
    BY <2>1, <2>2, <2>4, <2>5 DEF old
<1>3. TokenStart = 0
  <2>1. 0 \in Index /\ Waiting[1] = buffer[0] /\ Waiting[1] # NL
    BY <1>1, <1>2 DEF Index, Whole
  <2>2. TokenStart \in Index /\ TokenStart <= 0
    BY <1>1, <2>1, TokenFacts
  <2> QED
    BY <2>2 DEF Index
<1>4. /\ end \in 0..(total - 1) /\ buffer[end] = NL
      /\ Waiting[end + 1] = NL
      /\ \A i \in 0..(end - 1) : buffer[i] # NL
  <2>1. total - 1 \in 0..(Size - 1) /\ buffer[total - 1] = NL
    BY <1>1, <1>2 DEF Whole
  <2>2. /\ end \in 0..(Size - 1) /\ buffer[end] \in {NL, NUL} /\ end <= total - 1
        /\ \A i \in 0..(Size - 1) : buffer[i] \in {NL, NUL} => end <= i
    BY <1>1, <1>3, <2>1, TokenFacts
  <2> HIDE DEF end
  <2>4. \A i \in 0..(end - 1) : buffer[i] # NL
    BY <1>1, <2>2
  <2>3. end + 1 \in 1..total /\ (end + 1) - 1 = end
    BY <1>1, <2>2
  <2> QED
    BY <1>1, <1>2, <2>2, <2>3, <2>4
<1>5. next = end + 1
  BY <1>4, ByteAssumption DEF NextLine
<1>6. left = total - next /\ left \in 0..(Size - 1) /\ left < total
  <2> HIDE DEF end
  <2>1. next \in 0..Size /\ next <= total
    BY <1>1, <1>4, <1>5
  <2>2. left = total - next
    BY <1>1, <2>1, LeftFacts
  <2> HIDE DEF left, next
  <2> QED
    BY <1>1, <1>4, <1>5, <2>2
<1> HIDE DEF left
<1>61. left < Size
  BY <1>1, <1>6
<1>7. PICK words \in 0..end : buffer' = Moved(Parsed(end, words), next, left)
  BY <1>61 DEF RunLine, left
<1>8. pc' = "select" /\ total' = left /\ ran' = Append(ran, Part(buffer, 0, end))
  BY <1>3, <1>61 DEF RunLine, left
<1> HIDE DEF end, left, next
<1>9. ASSUME NEW k \in 1..left
      PROVE  buffer'[k - 1] = Waiting[next + k]
  <2>1. k - 1 \in Index /\ k - 1 < left /\ next + (k - 1) \in Index
    BY <1>1, <1>4, <1>5, <1>6 DEF Index
  <2>2. buffer'[k - 1] = Parsed(end, words)[next + (k - 1)]
    BY <1>7, <2>1 DEF Moved
  <2>3. next + (k - 1) # end /\ ~(next + (k - 1) < words)
    BY <1>4, <1>5
  <2>4. buffer'[k - 1] = buffer[next + (k - 1)]
    BY <2>1, <2>2, <2>3 DEF Parsed
  <2>5. next + k \in 1..total /\ (next + k) - 1 = next + (k - 1)
    BY <1>1, <1>4, <1>5, <1>6
  <2> QED
    BY <1>2, <2>4, <2>5
<1>10. /\ Waiting' \in Seq(Bytes) /\ Len(Waiting') = left
       /\ \A k \in 1..left : Waiting'[k] = Waiting[next + k]
  <2> DEFINE new == Part(buffer', 0, left)
  <2>1. left \in 0..Size
    BY <1>1, <1>6
  <2>2. buffer' \in [Index -> Bytes]
    <3>1. TypeOK'
      BY RunLineType
    <3> QED
      BY <3>1 DEF TypeOK
  <2>3. /\ new \in Seq(Bytes) /\ Len(new) = left
        /\ \A k \in 1..left : new[k] = buffer'[k - 1]
    BY ZenonT(60), <2>1, <2>2, PrefixFacts
  <2> HIDE DEF new
  <2>4. new \o <<>> = new
    BY <2>3, ConcatEmptySeq
  <2>5. Waiting' = new
    BY <1>8, <2>4 DEF Waiting, new
  <2>6. ASSUME NEW k \in 1..left PROVE new[k] = Waiting[next + k]
    <3>1. new[k] = buffer'[k - 1]
      BY <2>1, <2>3
    <3> QED
      BY <1>9, <3>1
  <2> QED
    BY <2>1, <2>3, <2>5, <2>6
<1> DEFINE now == Waiting
           then == Waiting'
<1> HIDE DEF now, then
<1>11. /\ now \in Seq(Bytes) /\ Len(now) = total
       /\ then \in Seq(Bytes) /\ Len(then) = left
       /\ \A k \in 1..left : then[k] = now[next + k] /\ next + k \in 1..total
       /\ next \in Nat \ {0} /\ next + left = total
  <2>1. next \in Nat \ {0} /\ next + left = total
    BY <1>1, <1>4, <1>5, <1>6
  <2> QED
    BY <1>1, <1>2, <1>6, <1>10, <2>1 DEF now, then
<1>12. then \in Seq(Bytes \ {NUL})
  <2>1. \A k \in 1..total : now[k] \in Bytes \ {NUL}
    BY <1>1, <1>2, ElementOfSeq DEF now
  <2>2. \A k \in 1..left : then[k] \in Bytes \ {NUL}
    BY <1>11, <2>1
  <2> QED
    BY <1>6, <1>11, <2>2
<1>13. Whole(then)
  <2> SUFFICES ASSUME then # <<>>
               PROVE  /\ then[1] # NL /\ then[Len(then)] = NL
                      /\ \A i \in 1..(Len(then) - 1) : then[i] = NL => then[i + 1] # NL
    BY DEF Whole
  <2>1. now[1] # NL /\ now[total] = NL /\ now[next] = NL
    BY <1>1, <1>2, <1>4, <1>5 DEF now, Whole
  <2>2. \A i \in 1..(total - 1) : now[i] = NL => now[i + 1] # NL
    BY <1>1, <1>2 DEF now, Whole
  <2>3. left \in Nat \ {0}
    BY <1>6, <1>11
  <2>4. then[1] # NL
    <3>1. next \in 1..(total - 1)
      BY <1>11, <2>3
    <3> QED
      BY <1>11, <2>1, <2>2, <2>3, <3>1
  <2>5. then[left] = NL
    BY <1>11, <2>1, <2>3
  <2>6. ASSUME NEW i \in 1..(left - 1), then[i] = NL PROVE then[i + 1] # NL
    <3>1. next + i \in 1..(total - 1) /\ (next + i) + 1 = next + (i + 1)
      BY <1>11, <2>3
    <3>2. then[i] = now[next + i] /\ then[i + 1] = now[next + (i + 1)]
      BY <1>11, <2>3
    <3> QED
      BY <2>2, <2>6, <3>1, <3>2
  <2> QED
    BY <1>11, <2>4, <2>5, <2>6
<1>14. FlattenSeq(Lines(ran')) \o then = written
  <2> DEFINE l == Part(buffer, 0, end)
             flat == FlattenSeq(Lines(ran))
  <2>1. /\ l \in Seq(Bytes) /\ Len(l) = end
        /\ \A k \in 1..end : l[k] = buffer[k - 1]
    <3>1. end \in 0..Size
      BY <1>1, <1>4
    <3>2. buffer \in [Index -> Bytes]
      BY <1>1
    <3> QED
      BY ZenonT(60), <3>1, <3>2, PrefixFacts
  <2> HIDE DEF l
  <2>2. \A k \in 1..end : l[k] = now[k]
    <3>1. ASSUME NEW k \in 1..end PROVE k \in 1..total
      BY <1>1, <1>4
    <3> QED
      BY <1>2, <2>1, <3>1 DEF now
  <2>3. now[next] = NL
    BY <1>4, <1>5 DEF now
  <2> DEFINE a == Append(l, NL)
  <2>4. /\ a \in Seq(Bytes) /\ Len(a) = next
        /\ \A k \in 1..next : a[k] = now[k]
    <3>1. NL \in Bytes
      BY DEF Bytes
    <3>2. a \in Seq(Bytes) /\ Len(a) = end + 1 /\ a[end + 1] = NL /\ \A k \in 1..end : a[k] = l[k]
      BY <2>1, <3>1, AppendProperties
    <3> HIDE DEF a
    <3>3. ASSUME NEW k \in 1..next PROVE a[k] = now[k]
      <4>1. k \in 1..end \/ k = end + 1
        BY <1>4, <1>5
      <4> QED
        BY <1>5, <2>2, <2>3, <3>2, <4>1
    <3> QED
      BY <1>5, <3>2, <3>3
  <2> HIDE DEF a
  <2>5. a \o then = now
    <3>1. /\ a \o then \in Seq(Bytes) /\ Len(a \o then) = total
          /\ \A k \in 1..total : (a \o then)[k] = IF k <= next THEN a[k] ELSE then[k - next]
      BY <1>11, <2>4, ConcatProperties
    <3>2. ASSUME NEW k \in 1..total PROVE (a \o then)[k] = now[k]
      <4>1. CASE k <= next
        <5>1. k \in 1..next
          BY <1>11, <4>1
        <5> QED
          BY <2>4, <3>1, <4>1, <5>1
      <4>2. CASE ~(k <= next)
        <5>1. k - next \in 1..left /\ next + (k - next) = k
          BY <1>11, <4>2, <1>6
        <5> QED
          BY <1>11, <3>1, <4>2, <5>1
      <4> QED
        BY <4>1, <4>2
    <3> QED
      BY <1>11, <3>1, <3>2, SeqEqual
  <2>6. flat \in Seq(Bytes) /\ FlattenSeq(Lines(ran')) = flat \o a
    BY <1>8, <2>1, LinesAppend DEF IInv, a, l
  <2>7. flat \o now = written
    BY <1>1 DEF now
  <2> HIDE DEF flat
  <2>8. (flat \o a) \o then = flat \o (a \o then)
    <3>1. flat \in Seq(Bytes) /\ a \in Seq(Bytes) /\ then \in Seq(Bytes)
      BY <1>11, <2>4, <2>6
    <3> QED
      BY <3>1, ConcatAssociative
  <2> QED
    BY <2>5, <2>6, <2>7, <2>8
<1>15. SubSeq(now, 1, next - 1) = Part(buffer, 0, end)
  <2> DEFINE l == Part(buffer, 0, end)
             sub == SubSeq(now, 1, next - 1)
  <2>1. end \in 0..Size /\ buffer \in [Index -> Bytes] /\ next - 1 = end /\ end \in Nat
    BY <1>1, <1>4, <1>5
  <2>2. /\ l \in Seq(Bytes) /\ Len(l) = end
        /\ \A k \in 1..end : l[k] = buffer[k - 1]
    BY ZenonT(60), <2>1, PrefixFacts
  <2> HIDE DEF l
  <2>3. \A k \in 1..end : now[k] \in Bytes /\ l[k] = now[k]
    <3>1. ASSUME NEW k \in 1..end PROVE k \in 1..total
      BY <1>1, <1>4
    <3> QED
      BY <1>2, <1>11, <2>2, <3>1, ElementOfSeq DEF now
  <2>4. /\ sub \in Seq(Bytes) /\ Len(sub) = end
        /\ \A k \in 1..end : sub[k] = now[k]
    <3>1. \A k \in 1..end : now[1 + k - 1] = now[k]
      BY <2>1
    <3> QED
      BY <2>1, <2>3, <3>1, SubSeqProperties
  <2> HIDE DEF sub
  <2>5. sub = l
    BY <2>2, <2>3, <2>4, SeqEqual
  <2> QED
    BY <2>5 DEF sub, l
<1>16. SubSeq(now, next + 1, total) = then
  <2> DEFINE sub == SubSeq(now, next + 1, total)
  <2>1. \A k \in 1..total : now[k] \in Bytes
    BY <1>11, ElementOfSeq
  <2>2. ASSUME NEW k \in (next + 1)..total PROVE now[k] \in Bytes
    BY <1>11, <2>1
  <2>3. /\ sub \in Seq(Bytes) /\ Len(sub) = left
        /\ \A k \in 1..left : sub[k] = now[next + k]
    <3>1. /\ sub \in Seq(Bytes)
          /\ Len(sub) = IF next + 1 <= total THEN total - (next + 1) + 1 ELSE 0
          /\ \A k \in 1..(total - (next + 1) + 1) : sub[k] = now[next + 1 + k - 1]
      BY <1>1, <1>11, <2>2, SubSeqProperties
    <3> HIDE DEF sub
    <3>2. \A k \in 1..left : next + 1 + k - 1 = next + k
      BY <1>11
    <3> QED
      BY <1>6, <1>11, <3>1, <3>2
  <2> HIDE DEF sub
  <2>4. sub = then
    BY <1>11, <2>3, SeqEqual
  <2> QED
    BY <2>4 DEF sub
<1>17. /\ next \in 1..Len(now) /\ now[next] = NL
       /\ \A i \in 1..(next - 1) : now[i] # NL
  <2>1. next \in 1..total /\ next - 1 = end
    BY <1>1, <1>4, <1>5
  <2>2. ASSUME NEW i \in 1..end PROVE now[i] # NL
    <3>1. i \in 1..total /\ i - 1 \in 0..(end - 1)
      BY <1>1, <1>4
    <3> QED
      BY <1>2, <1>4, <3>1 DEF now
  <2> QED
    BY <1>4, <1>5, <1>11, <2>1, <2>2 DEF now
<1>18. Queue!Run
  <2>1. ran' = Append(ran, SubSeq(now, 1, next - 1)) /\ then = SubSeq(now, next + 1, Len(now))
    BY <1>8, <1>11, <1>15, <1>16
  <2> QED
    BY <1>17, <2>1 DEF Queue!Run, now, then
<1> QED
  BY <1>8, <1>12, <1>13, <1>14, <1>18 DEF InOrder, then

LEMMA RunInv ==
    ASSUME IInv, Run
    PROVE  IInv'
<1>1. pc = "read" /\ pipe = <<>> /\ UNCHANGED <<pipe, written, writes, ragged>>
  BY DEF Run
<1>2. CASE RunLine
  <2>1. TypeOK' /\ Fits' /\ ran' \in Seq(Seq(Bytes))
    BY <1>1, <1>2, RunLineType
  <2>2. ~ragged => InOrder'
    BY <1>1, <1>2, RunLineInOrder
  <2> QED
    BY <1>1, <2>1, <2>2 DEF IInv
<1>3. CASE NoToken /\ pc' = "select" /\ UNCHANGED <<buffer, total, ran>>
  <2>1. TypeOK' /\ Fits' /\ Waiting' = Waiting
    BY <1>1, <1>3 DEF IInv, TypeOK, Fits, Waiting
  <2> QED
    BY <1>1, <1>3, <2>1 DEF IInv, InOrder
<1> QED
  BY <1>2, <1>3 DEF Run

LEMMA InvNext ==
    ASSUME IInv, [Next]_vars
    PROVE  IInv'
<1>1. CASE UNCHANGED vars
  <2>1. TypeOK' /\ Fits' /\ Waiting' = Waiting
    BY <1>1 DEF vars, IInv, TypeOK, Fits, Waiting
  <2> QED
    BY <1>1, <2>1 DEF vars, IInv, InOrder
<1> QED
  BY <1>1, WriteInv, WakeInv, ReadInv, RunInv DEF Next, Daemon

-----------------------------------------------------------------------------
(***************************************************************************)
(* The buffer always has the NUL at its end on which strtok_r relies, and  *)
(* total_bytes is less than its size until it wraps.                       *)
(***************************************************************************)
THEOREM TypeCorrect == Spec => []TypeOK
<1>1. IInv => TypeOK
  BY DEF IInv
<1> QED
  BY <1>1, InvInit, InvNext, PTL DEF Spec

(***************************************************************************)
(* As long as whole lines are written, the lines that are run, the bytes   *)
(* that wait and those in the FIFO are what was written, in its order.     *)
(***************************************************************************)
THEOREM LinesStayInOrder == Spec => []LinesInOrder
<1>1. IInv => LinesInOrder
  BY DEF IInv, InOrder, LinesInOrder, Lines
<1> QED
  BY <1>1, InvInit, InvNext, PTL DEF Spec

(***************************************************************************)
(* FifoBuffer implements LineQueue: a write of whole lines sends them, the *)
(* end of the read loop runs the first line, and what moves bytes from the *)
(* FIFO to the buffer changes nothing.                                     *)
(***************************************************************************)
LEMMA QueueInit == Init => Queue!Init
<1> SUFFICES ASSUME Init PROVE Queue!Init
  OBVIOUS
<1>1. Part(buffer, 0, total) = <<>>
  BY DEF Init, Part
<1> QED
  BY <1>1 DEF Init, Queue!Init, Waiting

LEMMA QueueStep ==
    ASSUME IInv, [Next]_vars
    PROVE  [Queue!Next]_(Queue!vars)
<1> SUFFICES ASSUME ~ragged' PROVE Queue!Send \/ Queue!Run \/ UNCHANGED Queue!vars
  BY DEF Queue!Next
<1>1. ASSUME NEW w \in Writes, Write(w) PROVE Queue!Send
  <2>1. Waiting' = Waiting \o w
    BY <1>1, WriteWaiting
  <2>2. ~Ragged(w) /\ ragged' = ragged /\ ran' = ran
    BY <1>1 DEF Write, IInv
  <2> QED
    BY <2>1, <2>2 DEF Queue!Send
<1>2. CASE Wake
  BY <1>2 DEF Wake, Waiting, Queue!vars
<1>3. CASE Read
  <2>1. Waiting' = Waiting
    BY <1>3, ReadInv
  <2> QED
    BY <1>3, <2>1 DEF Read, Queue!vars
<1>4. CASE Run
  <2>1. pc = "read" /\ pipe = <<>> /\ UNCHANGED <<pipe, written, writes, ragged>>
    BY <1>4 DEF Run
  <2>2. CASE RunLine
    BY <2>1, <2>2, RunLineInOrder
  <2>3. CASE UNCHANGED <<buffer, total, ran>>
    BY <2>1, <2>3 DEF Waiting, Queue!vars
  <2> QED
    BY <1>4, <2>2, <2>3 DEF Run
<1>5. CASE UNCHANGED vars
  BY <1>5 DEF vars, Waiting, Queue!vars
<1> QED
  BY <1>1, <1>2, <1>3, <1>4, <1>5 DEF Next, Daemon

\* As long as whole lines are written, the daemon runs the first line of
\* those that wait, whole and once, and nothing else happens to them.
THEOREM ImplementsLineQueue == Spec => QueueSpec
<1>1. IInv /\ [Next]_vars => [Queue!Next]_(Queue!vars)
  BY QueueStep
<1> QED
  BY <1>1, QueueInit, InvInit, InvNext, PTL DEF Spec, QueueSpec, Queue!Spec

(***************************************************************************)
(* total_bytes wraps only after a blank line or a write without newline.   *)
(***************************************************************************)
THEOREM WrapsOnlyWhenRagged == Spec => []NoWrap
<1>1. IInv => NoWrap
  BY DEF IInv, InOrder, NoWrap
<1> QED
  BY <1>1, InvInit, InvNext, PTL DEF Spec
=============================================================================
