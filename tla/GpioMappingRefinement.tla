----------------------- MODULE GpioMappingRefinement -----------------------
(***************************************************************************)
(* The mapping loop implements MappingStore: apart from the activated      *)
(* flags, the list only changes by the lines that map, unmap and clear.    *)
(* And it implements Keymap: a search of the list is one step for a user.  *)
(* Both for every configuration, script and failure.                       *)
(***************************************************************************)
EXTENDS GpioMapping_proofs, GpioMappingKeymap

\* The list without the flags.
Inactive(mapping) == [mapping EXCEPT !.activated = FALSE]
Contents(l) == [i \in 1..Len(l) |-> Inactive(l[i])]

Store == INSTANCE MappingStore
    WITH list <- Contents(list), Entries <- {m \in Mappings : m.activated = FALSE}

-----------------------------------------------------------------------------
LEMMA ContentsFacts ==
    ASSUME NEW l \in Seq(Mappings)
    PROVE  /\ Contents(l) \in Seq(Mappings) /\ Len(Contents(l)) = Len(l)
           /\ \A i \in 1..Len(l) :
                 /\ Contents(l)[i] = Inactive(l[i])
                 /\ Contents(l)[i].mask = l[i].mask
                 /\ Contents(l)[i].bits = l[i].bits
<1>1. ASSUME NEW i \in 1..Len(l)
      PROVE  /\ Inactive(l[i]) \in Mappings
             /\ Inactive(l[i]).mask = l[i].mask /\ Inactive(l[i]).bits = l[i].bits
  <2>1. l[i] \in Mappings
    OBVIOUS
  <2> QED
    BY <2>1 DEF Inactive, Mappings, Mapping
<1>2. Len(l) \in Nat
  OBVIOUS
<1> HIDE DEF Inactive
<1> QED
  BY <1>1, <1>2 DEF Contents

\* Two lists with the same elements are the same list.
LEMMA SameContents ==
    ASSUME NEW l \in Seq(Mappings), NEW s \in Seq(Mappings), Len(s) = Len(l),
           \A i \in 1..Len(l) : s[i] = Inactive(l[i])
    PROVE  Contents(l) = s
<1>1. s = [i \in 1..Len(s) |-> s[i]]
  OBVIOUS
<1> QED
  BY <1>1 DEF Contents

LEMMA ContentsFind ==
    ASSUME NEW l \in Seq(Mappings), NEW mask
    PROVE  FindMapping(Contents(l), mask) = FindMapping(l, mask)
<1>1. {i \in 1..Len(Contents(l)) : Contents(l)[i].mask = mask} = {i \in 1..Len(l) : l[i].mask = mask}
  BY ContentsFacts
<1> QED
  BY <1>1 DEF FindMapping, SelectInSeq

LEMMA ContentsPosition ==
    ASSUME NEW l \in Seq(Mappings), NEW bits
    PROVE  InsertPosition(Contents(l), bits) = InsertPosition(l, bits)
<1> DEFINE I(s) == {i \in 1..Len(s) : s[i].bits <= bits}
           p(s) == IF I(s) # {} THEN Min(I(s)) ELSE 0
<1>1. I(Contents(l)) = I(l)
  BY ContentsFacts
<1>2. InsertPosition(l, bits) = IF p(l) = 0 THEN 1 ELSE p(l)
  BY DEF InsertPosition, SelectInSeq
<1>3. InsertPosition(Contents(l), bits) = IF p(Contents(l)) = 0 THEN 1 ELSE p(Contents(l))
  BY DEF InsertPosition, SelectInSeq
<1>4. p(Contents(l)) = p(l)
  BY <1>1
<1> HIDE DEF p
<1> QED
  BY <1>2, <1>3, <1>4

\* A list of mappings after an insertion, and its elements.
LEMMA InsertedMapping ==
    ASSUME NEW l \in Seq(Mappings), NEW m \in Mappings, NEW p \in 1..Len(l) + 1
    PROVE  InsertAt(l, p, m) \in Seq(Mappings) /\ Len(InsertAt(l, p, m)) = Len(l) + 1
BY SMTT(60), InsertAtFacts

LEMMA InsertedElement ==
    ASSUME NEW l \in Seq(Mappings), NEW m \in Mappings, NEW p \in 1..Len(l) + 1,
           NEW j \in 1..Len(l) + 1
    PROVE  /\ j < p => InsertAt(l, p, m)[j] = l[j]
           /\ j = p => InsertAt(l, p, m)[j] = m
           /\ j > p => InsertAt(l, p, m)[j] = l[j - 1]
BY SMTT(60), InsertAtCases

LEMMA ContentsInsertAt ==
    ASSUME NEW l \in Seq(Mappings), NEW m \in Mappings, Inactive(m) = m,
           NEW p \in 1..Len(l) + 1
    PROVE  Contents(InsertAt(l, p, m)) = InsertAt(Contents(l), p, m)
<1> DEFINE c == Contents(l)
           new == InsertAt(l, p, m)
           s == InsertAt(c, p, m)
<1>1. /\ c \in Seq(Mappings) /\ Len(c) = Len(l)
      /\ \A i \in 1..Len(l) : c[i] = Inactive(l[i])
  BY ContentsFacts
<1> HIDE DEF c
<1>2. /\ new \in Seq(Mappings) /\ Len(new) = Len(l) + 1
      /\ s \in Seq(Mappings) /\ Len(s) = Len(l) + 1
  BY <1>1, InsertedMapping
<1>3. ASSUME NEW j \in 1..Len(l) + 1
      PROVE  /\ j < p => new[j] = l[j] /\ s[j] = c[j]
             /\ j = p => new[j] = m /\ s[j] = m
             /\ j > p => new[j] = l[j - 1] /\ s[j] = c[j - 1]
  BY SMTT(60), <1>1, InsertedElement
<1> HIDE DEF new, s
<1>4. ASSUME NEW j \in 1..Len(new) PROVE s[j] = Inactive(new[j])
  <2>1. j \in 1..Len(l) + 1 /\ (j < p => j \in 1..Len(l)) /\ (j > p => j - 1 \in 1..Len(l))
    BY <1>2
  <2>2. CASE j < p
    BY <2>1, <2>2, <1>1, <1>2, <1>3
  <2>3. CASE j = p
    BY <2>1, <2>3, <1>2, <1>3
  <2>4. CASE j > p
    BY <2>1, <2>4, <1>1, <1>2, <1>3
  <2> QED
    BY <2>1, <2>2, <2>3, <2>4
<1> QED
  BY <1>2, <1>3, <1>4, SameContents DEF new, s, c

LEMMA ContentsInsert ==
    ASSUME NEW l \in Seq(Mappings), NEW m \in Mappings, Inactive(m) = m
    PROVE  Contents(InsertMapping(l, m)) = InsertMapping(Contents(l), m)
BY ContentsPosition, ContentsInsertAt, InsertPositionFacts DEF InsertMapping

LEMMA ContentsRemove ==
    ASSUME NEW l \in Seq(Mappings), NEW p \in 1..Len(l)
    PROVE  Contents(RemoveMapping(l, p)) = RemoveMapping(Contents(l), p)
<1> DEFINE new == RemoveAt(l, p)
           s == RemoveAt(Contents(l), p)
<1>1. Contents(l) \in Seq(Mappings) /\ Len(Contents(l)) = Len(l)
  BY ContentsFacts
<1>2. /\ new \in Seq(Mappings) /\ Len(new) = Len(l) - 1
      /\ \A j \in 1..Len(l) - 1 : new[j] = IF j < p THEN l[j] ELSE l[j + 1]
  BY RemoveAtFacts
<1>3. /\ s \in Seq(Mappings) /\ Len(s) = Len(l) - 1
      /\ \A j \in 1..Len(l) - 1 : s[j] = IF j < p THEN Contents(l)[j] ELSE Contents(l)[j + 1]
  <2>1. p \in 1..Len(Contents(l))
    BY <1>1
  <2> QED
    BY <1>1, <2>1, RemoveAtFacts
<1> HIDE DEF new, s
<1>4. ASSUME NEW j \in 1..Len(new) PROVE s[j] = Inactive(new[j])
  <2>1. j \in 1..Len(l) - 1 /\ j \in 1..Len(l) /\ j + 1 \in 1..Len(l)
    BY <1>2
  <2>2. CASE j < p
    BY <2>1, <2>2, <1>2, <1>3, ContentsFacts
  <2>3. CASE j >= p
    BY <2>1, <2>3, <1>2, <1>3, ContentsFacts
  <2> QED
    BY <2>1, <2>2, <2>3
<1> QED
  BY <1>2, <1>3, <1>4, SameContents DEF RemoveMapping, new, s

\* A MAP line does to the list what it does to its contents.
LEMMA ContentsMap ==
    ASSUME NEW l \in Seq(Mappings), NEW m \in Mappings, Inactive(m) = m
    PROVE  Contents(MapMapping(l, m)) = MapMapping(Contents(l), m)
<1> DEFINE old == FindMapping(l, m.mask)
<1>1. old \in 0..Len(l) /\ FindMapping(Contents(l), m.mask) = old
  BY FindMappingFacts, ContentsFind
<1> HIDE DEF old
<1>2. CASE old = 0
  BY <1>1, <1>2, ContentsInsert DEF MapMapping, old
<1>3. CASE old # 0
  <2>1. old \in 1..Len(l)
    BY <1>1, <1>3
  <2>2. RemoveMapping(l, old) \in Seq(Mappings)
    BY <2>1, RemoveMappingFacts
  <2>3. Contents(RemoveMapping(l, old)) = RemoveMapping(Contents(l), old)
    BY <2>1, ContentsRemove
  <2>4. Contents(InsertMapping(RemoveMapping(l, old), m)) = InsertMapping(RemoveMapping(Contents(l), old), m)
    BY <2>2, <2>3, ContentsInsert
  <2>5. MapMapping(l, m) = InsertMapping(RemoveMapping(l, old), m)
    BY <1>3 DEF MapMapping, old
  <2>6. MapMapping(Contents(l), m) = InsertMapping(RemoveMapping(Contents(l), old), m)
    BY <1>1, <1>3 DEF MapMapping
  <2> QED
    BY <2>4, <2>5, <2>6
<1> QED
  BY <1>2, <1>3

LEMMA InactiveForgets ==
    ASSUME NEW m \in Mappings, NEW b \in BOOLEAN
    PROVE  Inactive([m EXCEPT !.activated = b]) = Inactive(m)
<1>1. CASE m \in Mapping({"KEY"}, Keys)
  BY <1>1 DEF Inactive, Mapping
<1>2. CASE m \in Mapping({"COMMAND"}, Commands)
  BY <1>2 DEF Inactive, Mapping
<1> QED
  BY <1>1, <1>2 DEF Mappings

LEMMA ContentsActivated ==
    ASSUME NEW l \in Seq(Mappings), NEW c \in 1..Len(l), NEW b \in BOOLEAN
    PROVE  Contents([l EXCEPT ![c].activated = b]) = Contents(l)
<1> DEFINE new == [l EXCEPT ![c].activated = b]
<1>1. new \in Seq(Mappings) /\ Len(new) = Len(l)
  BY SetActivatedFacts
<1>2. ASSUME NEW i \in 1..Len(l) PROVE Inactive(new[i]) = Inactive(l[i])
  <2>1. l[i] \in Mappings
    OBVIOUS
  <2>2. new[i] = IF i = c THEN [l[i] EXCEPT !.activated = b] ELSE l[i]
    OBVIOUS
  <2> QED
    BY <2>1, <2>2, InactiveForgets
<1> HIDE DEF new
<1> QED
  BY <1>1, <1>2 DEF Contents, new

-----------------------------------------------------------------------------
\* The operators of the instance are those of the loop.
LEMMA SameOperators ==
    ASSUME NEW l, NEW m, NEW i
    PROVE  /\ Store!MapMapping(l, m) = MapMapping(l, m) /\ Store!RemoveMapping(l, i) = RemoveMapping(l, i)
           /\ Store!ToSet(l) = ToSet(l)
BY DEF Store!MapMapping, Store!FindMapping, Store!InsertMapping, Store!InsertPosition,
       Store!RemoveMapping, Store!SelectInSeq, Store!InsertAt, Store!RemoveAt, Store!Min, Store!ToSet,
       MapMapping, FindMapping, InsertMapping, InsertPosition, RemoveMapping,
       SelectInSeq, InsertAt, RemoveAt, Min, ToSet

LEMMA InactiveIsInactive ==
    ASSUME NEW m \in Mappings, m.activated = FALSE
    PROVE  Inactive(m) = m
<1>1. CASE m \in Mapping({"KEY"}, Keys)
  BY <1>1 DEF Inactive, Mapping
<1>2. CASE m \in Mapping({"COMMAND"}, Commands)
  BY <1>2 DEF Inactive, Mapping
<1> QED
  BY <1>1, <1>2 DEF Mappings

\* A line that is run maps, drops or clears, or leaves the contents alone.
LEMMA LineImplements ==
    ASSUME TypeOK, ConfigLine
    PROVE  Store!Next \/ Contents(list') = Contents(list)
<1>1. list \in Seq(Mappings)
  BY DEF TypeOK
<1>2. ASSUME NEW op, NEW type, MapLine(op, type),
             \/ op = "MAP KEY" /\ type = "KEY"
             \/ op = "MAP COMMAND" /\ type = "COMMAND"
      PROVE  Store!Next
  <2> DEFINE line == Head(script)
             m == NewMapping(line.mask, line.bits, type, line.value)
  <2>1. line \in Lines /\ line.op = op
    BY <1>2, HeadTailFacts DEF MapLine, RunLine, TypeOK
  <2>2. m \in Mappings
    BY <1>2, <2>1, NewMappingFacts
  <2>3. m.activated = FALSE
    BY DEF NewMapping
  <2>4. Inactive(m) = m
    BY <2>2, <2>3, InactiveIsInactive
  <2>5. list' = MapMapping(list, m)
    BY <1>2 DEF MapLine
  <2> HIDE DEF m
  <2>6. Contents(list)' = MapMapping(Contents(list), m)
    BY <1>1, <2>2, <2>4, <2>5, ContentsMap
  <2>7. Store!Map(m)
    BY <2>2, <2>3, <2>6, SameOperators DEF Store!Map
  <2>8. m \in ToSet(Contents(list)')
    BY <1>1, <2>2, <2>6, ContentsFacts, MapMappingAdds
  <2> QED
    BY <2>7, <2>8, SameOperators DEF Store!Next
<1>3. CASE UnmapLine
  <2> DEFINE old == FindMapping(list, Head(script).mask)
  <2>1. old # 0 /\ list' = RemoveMapping(list, old)
    BY <1>3 DEF UnmapLine
  <2>2. old \in 1..Len(list)
    BY <1>1, <2>1, FindMappingFacts
  <2> HIDE DEF old
  <2>3. Contents(list)' = RemoveMapping(Contents(list), old)
    BY <1>1, <2>1, <2>2, ContentsRemove
  <2>4. old \in DOMAIN Contents(list)
    BY <1>1, <2>2, ContentsFacts
  <2> QED
    BY <2>3, <2>4, SameOperators DEF Store!Drop, Store!Next
<1>4. CASE ClearLine
  <2>1. Contents(list)' = <<>>
    BY <1>4 DEF ClearLine, Contents
  <2> QED
    BY <2>1 DEF Store!Restart, Store!Next
<1>5. CASE KeyLine \/ NopLine \/ BadLine
  BY <1>5 DEF KeyLine, NopLine, BadLine
<1> QED
  BY <1>2, <1>3, <1>4, <1>5 DEF ConfigLine

LEMMA EntryImplements ==
    ASSUME TypeOK, ApplyEntry
    PROVE  Contents(list') = Contents(list)
<1>1. list \in Seq(Mappings) /\ cursor \in 1..Len(list)
  BY DEF TypeOK, ApplyEntry
<1>2. \/ list' = list
      \/ list' = [list EXCEPT ![cursor].activated = TRUE]
      \/ list' = [list EXCEPT ![cursor].activated = FALSE]
  BY DEF ApplyEntry, Match, Release, Skip
<1> QED
  BY <1>1, <1>2, ContentsActivated

\* The contents of the list only change by MAP, UNMAP and CLEAR lines, each of
\* which does what MappingStore says: no search, power key press, early return
\* or failure adds, drops or reorders a mapping, and none is left half done.
THEOREM LoopImplementsStore == Spec => Store!Spec
<1>1. Init => Store!Init
  BY DEF Init, Store!Init, Contents
<1>2. TypeOK /\ [Next]_vars => [Store!Next]_(Contents(list))
  BY ListSteps, LineImplements, EntryImplements
<1> QED
  BY <1>1, <1>2, TypeCorrect, PTL DEF Spec, Store!Spec

-----------------------------------------------------------------------------
(***************************************************************************)
(* Winners: there is one set of entries that a search activates, and the   *)
(* loop finds it entry by entry.                                           *)
(***************************************************************************)
TakenBy(l, w, i) == UNION {l[j].mask : j \in {k \in w : k < i}}
Wins(l, buttons, w, i) == i \in w <=> l[i].mask \subseteq buttons \ TakenBy(l, w, i)

\* w is right for the entries before the c-th one.
RightBelow(l, buttons, w, c) ==
    w \in SUBSET DOMAIN l /\ \A i \in DOMAIN l : i < c => Wins(l, buttons, w, i)

LEMMA WinnersExist ==
    ASSUME NEW S, NEW l \in Seq(S), NEW buttons
    PROVE  \E w \in SUBSET DOMAIN l : \A i \in DOMAIN l : Wins(l, buttons, w, i)
<1> DEFINE T == {n \in Nat : n <= Len(l) =>
                    \E w \in SUBSET (1..n) : \A i \in 1..n : Wins(l, buttons, w, i)}
<1>1. 0 \in T
  <2>1. {} \in SUBSET (1..0) /\ 1..0 = {}
    OBVIOUS
  <2> QED
    BY <2>1
<1>2. ASSUME NEW n \in Nat, n \in T PROVE n + 1 \in T
  <2> SUFFICES ASSUME n + 1 <= Len(l)
               PROVE  \E w \in SUBSET (1..n + 1) : \A i \in 1..n + 1 : Wins(l, buttons, w, i)
    OBVIOUS
  <2>1. PICK w \in SUBSET (1..n) : \A i \in 1..n : Wins(l, buttons, w, i)
    BY <1>2
  <2> DEFINE v == IF l[n + 1].mask \subseteq buttons \ TakenBy(l, w, n + 1) THEN w \cup {n + 1} ELSE w
  <2>2. v \in SUBSET (1..n + 1)
    OBVIOUS
  <2>3. ASSUME NEW i \in 1..n + 1 PROVE {k \in v : k < i} = {k \in w : k < i}
    OBVIOUS
  <2>4. ASSUME NEW i \in 1..n + 1 PROVE TakenBy(l, v, i) = TakenBy(l, w, i)
    BY <2>3 DEF TakenBy
  <2>5. ASSUME NEW i \in 1..n PROVE Wins(l, buttons, v, i)
    <3>1. i \in v <=> i \in w
      OBVIOUS
    <3>2. i \in 1..n + 1
      OBVIOUS
    <3>3. TakenBy(l, v, i) = TakenBy(l, w, i)
      BY <2>4, <3>2
    <3> QED
      BY <2>1, <3>1, <3>3 DEF Wins
  <2>6. Wins(l, buttons, v, n + 1)
    <3>1. n + 1 \notin w
      OBVIOUS
    <3>2. n + 1 \in 1..n + 1
      OBVIOUS
    <3>3. TakenBy(l, v, n + 1) = TakenBy(l, w, n + 1)
      BY <2>4, <3>2
    <3> QED
      BY <3>1, <3>3 DEF Wins
  <2> HIDE DEF v
  <2>7. ASSUME NEW i \in 1..n + 1 PROVE Wins(l, buttons, v, i)
    <3>1. i \in 1..n \/ i = n + 1
      OBVIOUS
    <3> QED
      BY <2>5, <2>6, <3>1
  <2> QED
    BY <2>2, <2>7
<1> HIDE DEF T
<1>3. \A n \in Nat : n \in T
  BY <1>1, <1>2, NatSetInduction
<1>4. Len(l) \in Nat /\ DOMAIN l = 1..Len(l)
  OBVIOUS
<1>5. Len(l) \in T
  BY <1>3, <1>4
<1>6. \E w \in SUBSET (1..Len(l)) : \A i \in 1..Len(l) : Wins(l, buttons, w, i)
  <2>1. Len(l) <= Len(l)
    BY <1>4
  <2> QED
    BY <1>5, <2>1 DEF T
<1> QED
  BY <1>4, <1>6

LEMMA WinnersWin ==
    ASSUME NEW S, NEW l \in Seq(S), NEW buttons
    PROVE  /\ Winners(l, buttons) \in SUBSET DOMAIN l
           /\ \A i \in DOMAIN l : Wins(l, buttons, Winners(l, buttons), i)
<1> DEFINE Is(w) == \A i \in DOMAIN l : Wins(l, buttons, w, i)
<1>1. \E w \in SUBSET DOMAIN l : Is(w)
  BY WinnersExist
<1>2. Winners(l, buttons) = CHOOSE w \in SUBSET DOMAIN l : Is(w)
  BY DEF Winners, Wins, TakenBy
<1> HIDE DEF Is
<1>3. Winners(l, buttons) \in SUBSET DOMAIN l /\ Is(Winners(l, buttons))
  BY <1>1, <1>2
<1> QED
  BY <1>3 DEF Is

\* Two sets that are right up to the c-th entry agree up to there.
LEMMA WinnersAgree ==
    ASSUME NEW S, NEW l \in Seq(S), NEW buttons, NEW c \in Nat,
           NEW w, NEW v, RightBelow(l, buttons, w, c), RightBelow(l, buttons, v, c)
    PROVE  \A i \in DOMAIN l : i < c => (i \in w <=> i \in v)
<1> USE DEF RightBelow
<1>1. DOMAIN l = 1..Len(l) /\ Len(l) \in Nat
  OBVIOUS
<1> DEFINE T == {n \in Nat : \A i \in DOMAIN l : i <= n /\ i < c => (i \in w <=> i \in v)}
<1>2. 0 \in T
  BY <1>1
<1>3. ASSUME NEW n \in Nat, n \in T PROVE n + 1 \in T
  <2> SUFFICES ASSUME n + 1 \in DOMAIN l, n + 1 < c PROVE n + 1 \in w <=> n + 1 \in v
    BY <1>1, <1>3
  <2>1. {k \in w : k < n + 1} = {k \in v : k < n + 1}
    <3>1. ASSUME NEW k \in DOMAIN l, k < n + 1 PROVE k \in w <=> k \in v
      <4>1. k <= n /\ k < c
        BY <1>1, <3>1
      <4> QED
        BY <1>3, <4>1
    <3> QED
      BY <3>1
  <2>2. TakenBy(l, w, n + 1) = TakenBy(l, v, n + 1)
    BY <2>1 DEF TakenBy
  <2> QED
    BY <2>2 DEF Wins
<1> HIDE DEF T
<1>4. \A n \in Nat : n \in T
  BY <1>2, <1>3, NatSetInduction
<1> QED
  BY <1>1, <1>4 DEF T

\* What a search that is under way has activated so far, and whether the entry
\* it looks at will be.
LEMMA WinnersSoFar ==
    ASSUME TypeOK, SearchInv, pc = "apply"
    PROVE  /\ \A i \in DOMAIN list :
                 i < cursor => (i \in Winners(list, current) <=> i \in Active(list))
           /\ cursor \in DOMAIN list =>
                 (cursor \in Winners(list, current) <=> list[cursor].mask \subseteq rest)
<1> DEFINE w == Winners(list, current)
           v == Active(list)
<1>1. /\ list \in Seq(Mappings) /\ DOMAIN list = 1..Len(list) /\ Len(list) \in Nat
      /\ cursor \in Nat
  BY DEF TypeOK
<1>2. w \in SUBSET DOMAIN list /\ \A i \in DOMAIN list : Wins(list, current, w, i)
  BY <1>1, WinnersWin
<1>3. v \in SUBSET DOMAIN list /\ \A i \in DOMAIN list : i \in v <=> list[i].activated
  BY DEF Active
<1>4. ASSUME NEW i PROVE TakenBy(list, v, i) = Used(list, i)
  <2>1. {k \in v : k < i} = {k \in DOMAIN list : k < i /\ list[k].activated}
    BY <1>3
  <2> QED
    BY <2>1 DEF TakenBy, Used
<1>5. \A i \in DOMAIN list : i < cursor => Wins(list, current, v, i)
  BY <1>3, <1>4 DEF SearchInv, Wins
<1> HIDE DEF w, v
<1>6. \A i \in DOMAIN list : i < cursor => (i \in w <=> i \in v)
  <2>1. RightBelow(list, current, w, cursor) /\ RightBelow(list, current, v, cursor)
    BY <1>2, <1>3, <1>5 DEF RightBelow
  <2> QED
    BY <1>1, <2>1, WinnersAgree
<1>7. ASSUME cursor \in DOMAIN list
      PROVE  cursor \in w <=> list[cursor].mask \subseteq rest
  <2>1. {k \in w : k < cursor} = {k \in v : k < cursor}
    BY <1>2, <1>3, <1>6
  <2>2. TakenBy(list, w, cursor) = Used(list, cursor)
    BY <1>4, <2>1 DEF TakenBy
  <2> QED
    BY <1>2, <1>7, <2>2 DEF SearchInv, Wins
<1> QED
  BY <1>6, <1>7 DEF w, v

\* Winners depend on the masks only.
LEMMA WinnersSame ==
    ASSUME NEW S, NEW l \in Seq(S), NEW m \in Seq(S), NEW buttons, DOMAIN m = DOMAIN l,
           \A i \in DOMAIN l : m[i].mask = l[i].mask
    PROVE  Winners(m, buttons) = Winners(l, buttons)
<1> DEFINE w == Winners(l, buttons)
           v == Winners(m, buttons)
<1>1. w \in SUBSET DOMAIN l /\ \A i \in DOMAIN l : Wins(l, buttons, w, i)
  BY WinnersWin
<1>2. v \in SUBSET DOMAIN l /\ \A i \in DOMAIN l : Wins(m, buttons, v, i)
  BY WinnersWin
<1> HIDE DEF w, v
<1>3. ASSUME NEW i \in DOMAIN l PROVE Wins(l, buttons, v, i)
  <2>1. TakenBy(m, v, i) = TakenBy(l, v, i)
    BY <1>2 DEF TakenBy
  <2> QED
    BY <1>2, <2>1 DEF Wins
<1>4. DOMAIN l = 1..Len(l) /\ Len(l) + 1 \in Nat
  OBVIOUS
<1>5. \A i \in DOMAIN l : i < Len(l) + 1 => (i \in w <=> i \in v)
  <2>1. RightBelow(l, buttons, w, Len(l) + 1) /\ RightBelow(l, buttons, v, Len(l) + 1)
    BY <1>1, <1>2, <1>3 DEF RightBelow
  <2> QED
    BY <1>4, <2>1, WinnersAgree
<1>6. \A i \in DOMAIN l : i \in w <=> i \in v
  BY <1>4, <1>5
<1> QED
  BY <1>1, <1>2, <1>6 DEF w, v

-----------------------------------------------------------------------------
(***************************************************************************)
(* What a search ends in does not change while it goes on.                 *)
(***************************************************************************)
LEMMA SearchedFacts ==
    ASSUME NEW l \in Seq(Mappings), NEW buttons
    PROVE  /\ Searched(l, buttons) \in Seq(Mappings)
           /\ DOMAIN Searched(l, buttons) = DOMAIN l
           /\ \A i \in DOMAIN l :
                 /\ Searched(l, buttons)[i] = [l[i] EXCEPT !.activated = i \in Winners(l, buttons)]
                 /\ Searched(l, buttons)[i].mask = l[i].mask
                 /\ Searched(l, buttons)[i].activated <=> i \in Winners(l, buttons)
<1> DEFINE w == Winners(l, buttons)
           e(i) == [l[i] EXCEPT !.activated = i \in w]
<1>1. DOMAIN l = 1..Len(l) /\ Len(l) \in Nat /\ \A i \in DOMAIN l : l[i] \in Mappings
  OBVIOUS
<1>2. ASSUME NEW i \in DOMAIN l
      PROVE  e(i) \in Mappings /\ e(i).mask = l[i].mask /\ (e(i).activated <=> i \in w)
  <2>1. l[i] \in Mappings
    BY <1>1
  <2>2. ASSUME NEW b \in BOOLEAN
        PROVE  LET new == [l[i] EXCEPT !.activated = b]
               IN  new \in Mappings /\ new.mask = l[i].mask /\ (new.activated = b)
    BY <2>1 DEF Mappings, Mapping
  <2>3. CASE i \in w
    <3>1. (i \in w) = TRUE
      BY <2>3
    <3>2. e(i) = [l[i] EXCEPT !.activated = TRUE]
      BY <3>1
    <3> QED
      BY <2>2, <2>3, <3>2
  <2>4. CASE i \notin w
    <3>1. (i \in w) = FALSE
      BY <2>4
    <3>2. e(i) = [l[i] EXCEPT !.activated = FALSE]
      BY <3>1
    <3> QED
      BY <2>2, <2>4, <3>2
  <2> QED
    BY <2>3, <2>4
<1>3. Searched(l, buttons) = [i \in DOMAIN l |-> e(i)]
  BY DEF Searched
<1> HIDE DEF e
<1>4. [i \in DOMAIN l |-> e(i)] \in Seq(Mappings)
  BY <1>1, <1>2
<1> QED
  BY <1>2, <1>3, <1>4 DEF e

LEMMA SearchedSame ==
    ASSUME TypeOK, ApplyEntry
    PROVE  /\ Winners(list', current') = Winners(list, current)
           /\ Searched(list', current') = Searched(list, current)
<1>1. list \in Seq(Mappings) /\ cursor \in 1..Len(list)
  BY DEF TypeOK, ApplyEntry
<1>2. /\ list' \in Seq(Mappings) /\ DOMAIN list' = DOMAIN list /\ current' = current
      /\ \A i \in DOMAIN list : list'[i].mask = list[i].mask
  <2>1. list' \in Seq(Mappings)
    <3>1. CASE Match
      BY <1>1, <3>1, SetActivatedFacts DEF Match
    <3>2. CASE Release
      BY <1>1, <3>2, SetActivatedFacts DEF Release
    <3>3. CASE Skip
      BY <1>1, <3>3 DEF Skip
    <3> QED
      BY <3>1, <3>2, <3>3 DEF ApplyEntry
  <2> QED
    BY <2>1, ApplyEntryFacts
<1>3. Winners(list', current') = Winners(list, current)
  BY <1>1, <1>2, WinnersSame
<1>4. \A i \in DOMAIN list :
         list'[i] = list[i] \/ \E b \in BOOLEAN : list'[i] = [list[i] EXCEPT !.activated = b]
  BY <1>1 DEF ApplyEntry, Match, Release, Skip
<1>5. ASSUME NEW i \in DOMAIN list, NEW c \in BOOLEAN
      PROVE  [list'[i] EXCEPT !.activated = c] = [list[i] EXCEPT !.activated = c]
  <2>1. list[i] \in Mappings
    BY <1>1
  <2>2. ASSUME NEW b \in BOOLEAN, NEW T, NEW U, list[i] \in Mapping(T, U)
        PROVE  [[list[i] EXCEPT !.activated = b] EXCEPT !.activated = c]
                   = [list[i] EXCEPT !.activated = c]
    BY <2>2 DEF Mapping
  <2> QED
    BY <1>4, <2>1, <2>2 DEF Mappings
<1> QED
  BY <1>2, <1>3, <1>5 DEF Searched

LEMMA KeysOfSame ==
    ASSUME TypeOK, ApplyEntry, NEW those \in SUBSET DOMAIN list
    PROVE  KeysOf(list', those) = KeysOf(list, those)
<1>1. \A i \in those : list'[i].type = list[i].type /\ list'[i].value = list[i].value
  BY ApplyEntryFacts
<1> QED
  BY <1>1 DEF KeysOf

\* Two mappings of one key are the same mapping.
LEMMA OneMappingPerKey ==
    ASSUME KeysMappedOnce, UniqueMasks, OriginInv,
           NEW i \in DOMAIN list, NEW k \in DOMAIN list,
           list[i].type = "KEY", list[k].type = "KEY", list[i].value = list[k].value
    PROVE  i = k
<1>1. PICK l \in AllLines : l.op = "MAP KEY" /\ l.mask = list[i].mask /\ l.value = list[i].value
  BY DEF OriginInv
<1>2. PICK m \in AllLines : m.op = "MAP KEY" /\ m.mask = list[k].mask /\ m.value = list[k].value
  BY DEF OriginInv
<1> QED
  BY <1>1, <1>2 DEF KeysMappedOnce, UniqueMasks, Unique

LEMMA KeysSearchedSame ==
    ASSUME KeysMappedOnce, TypeOK, UniqueMasks, OriginInv, SearchInv, ApplyEntry
    PROVE  KeysSearched(list', current', down') = KeysSearched(list, current, down)
<1> DEFINE on == Winners(list, current)
           was == Active(list)
           next == Active(list')
           Keys_(those) == KeysOf(list, those)
<1>1. /\ list \in Seq(Mappings) /\ cursor \in DOMAIN list /\ pc = "apply"
      /\ on \in SUBSET DOMAIN list /\ was \in SUBSET DOMAIN list
  <2>1. list \in Seq(Mappings)
    BY DEF TypeOK
  <2> QED
    BY <2>1, WinnersWin, ApplyEntryFacts DEF Active
<1>2. next \in SUBSET DOMAIN list
  BY ApplyEntryFacts DEF Active
<1>3. KeysSearched(list', current', down') = (down' \ Keys_(next \ on)) \cup Keys_(on \ next)
  BY <1>1, <1>2, SearchedSame, KeysOfSame DEF KeysSearched
<1>4. KeysSearched(list, current, down) = (down \ Keys_(was \ on)) \cup Keys_(on \ was)
  BY DEF KeysSearched
<1>5. cursor \in on <=> Matches
  BY <1>1, WinnersSoFar DEF Matches, Entry
<1>6. next = IF Matches THEN was \cup {cursor} ELSE was \ {cursor}
  BY <1>1, ApplyEntryFacts DEF Active, Matches, Entry
<1>7. cursor \in was <=> Entry.activated
  BY <1>1 DEF Active, Entry
<1>8. \A key : key \in Keys_({cursor}) <=> Entry.type = "KEY" /\ key = Entry.value
  BY DEF KeysOf, Entry
<1>9. \A T, U : Keys_(T \cup U) = Keys_(T) \cup Keys_(U)
  BY DEF KeysOf
<1>10. ASSUME NEW T \in SUBSET DOMAIN list, cursor \notin T
       PROVE  Keys_(T) \cap Keys_({cursor}) = {}
  BY <1>1, <1>10, OneMappingPerKey DEF KeysOf
<1> HIDE DEF on, was, next, Keys_
<1>11. CASE Match /\ ~Entry.activated
  <2>1. next \ on = was \ on /\ on \ was = (on \ next) \cup {cursor} /\ cursor \notin was
    BY <1>5, <1>6, <1>7, <1>11 DEF Match
  <2>2. down' = down \cup Keys_({cursor})
    BY <1>8, <1>11 DEF Match, KeyDown
  <2>3. Keys_(on \ was) = Keys_(on \ next) \cup Keys_({cursor})
    BY <1>9, <2>1
  <2>4. Keys_(was \ on) \cap Keys_({cursor}) = {}
    BY <1>1, <1>10, <2>1
  <2> QED
    BY <1>3, <1>4, <2>1, <2>2, <2>3, <2>4
<1>12. CASE Release
  <2>1. was \ on = (next \ on) \cup {cursor} /\ on \ next = on \ was
    BY <1>5, <1>6, <1>7, <1>12 DEF Release
  <2>2. down' = down \ Keys_({cursor})
    BY <1>8, <1>12 DEF Release, KeyUp
  <2>3. Keys_(was \ on) = Keys_(next \ on) \cup Keys_({cursor})
    BY <1>9, <2>1
  <2> QED
    BY <1>3, <1>4, <2>1, <2>2, <2>3
<1>13. CASE Skip \/ (Match /\ Entry.activated)
  <2>1. next = was /\ down' = down
    BY <1>6, <1>7, <1>13 DEF Skip, Match
  <2> QED
    BY <1>3, <1>4, <2>1
<1> QED
  BY <1>11, <1>12, <1>13 DEF ApplyEntry

\* When the search is over there is nothing left to do.
LEMMA SearchOver ==
    ASSUME TypeOK, SearchInv, pc = "apply", cursor = Len(list) + 1
    PROVE  Searched(list, current) = list /\ KeysSearched(list, current, down) = down
<1>1. list \in Seq(Mappings) /\ DOMAIN list = 1..Len(list) /\ Len(list) \in Nat
  BY DEF TypeOK
<1>2. Winners(list, current) = Active(list)
  <2>1. Winners(list, current) \in SUBSET DOMAIN list /\ Active(list) \in SUBSET DOMAIN list
    BY <1>1, WinnersWin DEF Active
  <2>2. \A i \in DOMAIN list : i < cursor
    BY <1>1
  <2> QED
    BY <2>1, <2>2, WinnersSoFar
<1>3. ASSUME NEW i \in DOMAIN list
      PROVE  [list[i] EXCEPT !.activated = i \in Active(list)] = list[i]
  <2>1. list[i] \in Mappings /\ list[i].activated \in BOOLEAN
    BY <1>1 DEF Mappings, Mapping
  <2>2. (i \in Active(list)) = list[i].activated
    BY <2>1 DEF Active
  <2>3. [list[i] EXCEPT !.activated = list[i].activated] = list[i]
    BY <2>1 DEF Mappings, Mapping
  <2> QED
    BY <2>2, <2>3
<1>4. Searched(list, current) = list
  <2>1. list = [i \in DOMAIN list |-> list[i]]
    BY <1>1
  <2> QED
    BY <1>2, <1>3, <2>1 DEF Searched
<1>5. KeysSearched(list, current, down) = down
  BY <1>2 DEF KeysSearched, KeysOf
<1> QED
  BY <1>4, <1>5

-----------------------------------------------------------------------------
(***************************************************************************)
(* The steps of the loop are steps of Keymap.                              *)
(***************************************************************************)
\* The operators of the instance are those of the loop.
LEMMA SameKeymapOperators ==
    ASSUME NEW l, NEW m, NEW i, NEW those
    PROVE  /\ AsKeymap!InsertMapping(l, m) = InsertMapping(l, m)
           /\ AsKeymap!RemoveAt(l, i) = RemoveAt(l, i)
           /\ AsKeymap!Active(l) = Active(l)
           /\ AsKeymap!KeysOf(l, those) = KeysOf(l, those)
BY DEF AsKeymap!InsertMapping, AsKeymap!InsertPosition, AsKeymap!SelectInSeq, AsKeymap!InsertAt,
       AsKeymap!RemoveAt, AsKeymap!Min, AsKeymap!Active, AsKeymap!KeysOf,
       InsertMapping, InsertPosition, SelectInSeq, InsertAt, RemoveAt, Min, Active, KeysOf

\* The keys that go up with some of the mappings.
LEMMA KeysUpAre ==
    ASSUME NEW those \in SUBSET DOMAIN list
    PROVE  KeysUp(list, those) = KeysOf(list, those \cap Active(list))
<1>1. {j \in those : list[j].type = "KEY" /\ list[j].activated}
          = {j \in those \cap Active(list) : list[j].type = "KEY"}
  BY DEF Active
<1> QED
  BY <1>1 DEF KeysUp, KeysOf

LEMMA LineIsKeymap ==
    ASSUME TypeOK, UniqueMasks, OriginInv, ConfigLine
    PROVE  AsKeymap!Next \/ UNCHANGED <<ListDone, DownDone>>
<1>1. ListDone = list /\ DownDone = down /\ ListDone' = list' /\ DownDone' = down'
  BY ConfigLineFacts DEF ListDone, DownDone, Searching
<1> SUFFICES ASSUME <<list, down>>' # <<list, down>> PROVE AsKeymap!Next
  BY <1>1
<1>2. <<ListDone, DownDone>>' # <<ListDone, DownDone>>
  BY <1>1
<1>3. list \in Seq(Mappings) /\ DOMAIN list = 1..Len(list)
  BY DEF TypeOK
<1>4. ASSUME NEW op, NEW type, MapLine(op, type),
             \/ op = "MAP KEY" /\ type = "KEY"
             \/ op = "MAP COMMAND" /\ type = "COMMAND"
      PROVE  AsKeymap!Next
  <2> DEFINE line == Head(script)
             old == FindMapping(list, line.mask)
             m == NewMapping(line.mask, line.bits, type, line.value)
             same == {i \in DOMAIN list : list[i].mask = m.mask}
  <2>1. m \in LineMappings
    <3>1. script \in Seq(Lines) /\ script # <<>> /\ line.op = op
      BY <1>4 DEF TypeOK, MapLine, RunLine
    <3>2. line = script[1] /\ 1 \in DOMAIN script
      BY <3>1
    <3>3. line \in AllLines
      BY <3>2 DEF OriginInv
    <3> QED
      BY <1>4, <3>1, <3>3 DEF LineMappings
  <2>2. m.mask = line.mask
    BY DEF NewMapping
  <2>3. /\ list' = MapMapping(list, m)
        /\ down' = down \ (IF old = 0 THEN {} ELSE KeysUp(list, {old}))
    BY <1>4 DEF MapLine, KeyUp
  <2>4. /\ old \in 0..Len(list)
        /\ old = 0 => \A i \in 1..Len(list) : list[i].mask # m.mask
        /\ old # 0 => list[old].mask = m.mask
    BY <1>3, <2>2, FindMappingFacts
  <2>5. old = FindMapping(list, m.mask)
    BY <2>2
  <2> HIDE DEF line, old, m
  <2>6. CASE old = 0
    <3>1. same = {} /\ list' = InsertMapping(list, m) /\ down' = down
      BY <1>3, <2>3, <2>4, <2>5, <2>6 DEF MapMapping
    <3>2. KeysOf(list, same \cap Active(list)) = {}
      BY <3>1 DEF KeysOf
    <3>3. AsKeymap!Map(m)
      BY <1>1, <3>1, <3>2, SameKeymapOperators DEF AsKeymap!Map
    <3> QED
      BY <1>2, <2>1, <3>3 DEF AsKeymap!Next
  <2>7. CASE old # 0
    <3>1. old \in 1..Len(list) /\ old \in same
      BY <1>3, <2>4, <2>7
    <3>2. same = {old}
      BY <1>3, <2>4, <3>1 DEF UniqueMasks, Unique
    <3>3. list' = InsertMapping(RemoveAt(list, old), m)
      BY <2>3, <2>5, <2>7 DEF MapMapping, RemoveMapping
    <3>4. down' = down \ KeysOf(list, same \cap Active(list))
      BY <2>3, <2>7, <3>1, <3>2, <1>3, KeysUpAre
    <3> HIDE DEF same
    <3>5. /\ ListDone' = AsKeymap!InsertMapping(AsKeymap!RemoveAt(ListDone, old), m)
          /\ DownDone' = DownDone \ AsKeymap!KeysOf(ListDone, same \cap AsKeymap!Active(ListDone))
      BY <1>1, <3>3, <3>4, SameKeymapOperators
    <3>6. AsKeymap!Map(m)
      BY <1>1, <3>1, <3>5 DEF AsKeymap!Map, same
    <3> QED
      BY <1>2, <2>1, <3>6 DEF AsKeymap!Next
  <2> QED
    BY <2>6, <2>7
<1>5. ASSUME UnmapLine PROVE AsKeymap!Next
  <2> DEFINE old == FindMapping(list, Head(script).mask)
  <2>1. old # 0 /\ list' = RemoveAt(list, old) /\ down' = down \ KeysUp(list, {old})
    BY <1>5 DEF UnmapLine, RemoveMapping, KeyUp
  <2>2. old \in 0..Len(list)
    BY <1>3, FindMappingFacts
  <2> HIDE DEF old
  <2>3. old \in DOMAIN list
    BY <1>3, <2>1, <2>2
  <2>4. down' = down \ KeysOf(list, {old} \cap Active(list))
    BY <2>1, <2>3, KeysUpAre
  <2>5. AsKeymap!Drop(old)
    BY <1>1, <2>1, <2>4, SameKeymapOperators DEF AsKeymap!Drop
  <2> QED
    BY <1>1, <1>2, <2>3, <2>5 DEF AsKeymap!Next
<1>6. ASSUME ClearLine PROVE AsKeymap!Next
  <2>1. list' = <<>> /\ down' = down \ KeysUp(list, DOMAIN list)
    BY <1>6 DEF ClearLine, KeyUp
  <2>2. KeysUp(list, DOMAIN list) = KeysOf(list, Active(list))
    <3>1. DOMAIN list \cap Active(list) = Active(list)
      BY DEF Active
    <3> QED
      BY <3>1, KeysUpAre
  <2>3. AsKeymap!Clear
    BY <1>1, <2>1, <2>2, SameKeymapOperators DEF AsKeymap!Clear
  <2> QED
    BY <1>2, <2>3 DEF AsKeymap!Next
<1>7. ASSUME KeyLine PROVE AsKeymap!Next
  <2>1. Head(script).value \in Keys
    <3>1. /\ Head(script) \in Lines
          /\ Head(script).op \in {"KEYDOWN", "KEYUP", "KEYPRESS"}
      BY <1>7, HeadTailFacts DEF TypeOK, KeyLine, RunLine
    <3> QED
      BY <3>1 DEF Lines, Line
  <2>2. AsKeymap!Event(Head(script).value)
    BY <1>1, <1>7 DEF KeyLine, KeyDown, KeyUp, AsKeymap!Event
  <2> QED
    BY <1>2, <2>1, <2>2 DEF AsKeymap!Next
<1>8. ~(NopLine \/ BadLine)
  BY DEF NopLine, BadLine
<1> QED
  BY <1>4, <1>5, <1>6, <1>7, <1>8 DEF ConfigLine

\* The first step of a search is the whole search, the others are none.
LEMMA EntryIsKeymap ==
    ASSUME KeysMappedOnce, TypeOK, UniqueMasks, OriginInv, SearchInv, ApplyEntry
    PROVE  AsKeymap!Next \/ UNCHANGED <<ListDone, DownDone>>
<1> DEFINE new == Searched(list, current)
           on == Winners(list, current)
           was == Active(list)
<1>1. /\ list \in Seq(Mappings) /\ current \in SUBSET Gpio
      /\ cursor \in Nat \ {0} /\ pc = "apply"
  <2>1. cursor \in DOMAIN list /\ DOMAIN list = 1..Len(list)
    BY ApplyEntryFacts
  <2> QED
    BY <2>1, ApplyEntryFacts DEF TypeOK
<1>2. pc' = "apply" /\ cursor' = cursor + 1
  BY ApplyEntryFacts
<1>3. Searching'
  BY <1>1, <1>2 DEF Searching
<1>4. ListDone' = new /\ DownDone' = KeysSearched(list, current, down)
  BY <1>3, SearchedSame, KeysSearchedSame DEF ListDone, DownDone
<1>5. CASE Searching
  BY <1>4, <1>5 DEF ListDone, DownDone
<1>6. CASE ~Searching
  <2>1. ListDone = list /\ DownDone = down
    BY <1>6 DEF ListDone, DownDone
  <2>2. /\ DOMAIN new = DOMAIN list
        /\ \A i \in DOMAIN list :
              /\ new[i] = [list[i] EXCEPT !.activated = i \in on]
              /\ new[i].mask = list[i].mask
              /\ new[i].activated <=> i \in on
    BY <1>1, SearchedFacts
  <2>3. on \in SUBSET DOMAIN list /\ \A i \in DOMAIN list : Wins(list, current, on, i)
    BY <1>1, WinnersWin
  <2> HIDE DEF new, on
  <2>4. AsKeymap!Active(new) = on
    BY <2>2, <2>3 DEF AsKeymap!Active
  <2>5. ASSUME NEW i \in DOMAIN list
        PROVE  (i \in on) = (list[i].mask \subseteq current \ AsKeymap!Taken(new, i))
    <3>1. AsKeymap!Taken(new, i) = TakenBy(list, on, i)
      <4>1. AsKeymap!Taken(new, i) = UNION {new[j].mask : j \in {k \in on : k < i}}
        BY <2>4 DEF AsKeymap!Taken
      <4>2. \A j \in on : new[j].mask = list[j].mask
        BY <2>2, <2>3
      <4> QED
        BY <4>1, <4>2 DEF TakenBy
    <3> QED
      BY <2>3, <3>1 DEF Wins
  <2>6. \A i \in DOMAIN list :
           new[i] = [list[i] EXCEPT !.activated =
                         list[i].mask \subseteq current \ AsKeymap!Taken(new, i)]
    BY <2>2, <2>5
  <2>7. DownDone' = (down \ AsKeymap!KeysOf(list, was \ on)) \cup AsKeymap!KeysOf(list, on \ was)
    BY <1>4, SameKeymapOperators DEF KeysSearched, on
  <2>8. AsKeymap!Active(list) = was
    BY SameKeymapOperators
  <2> HIDE DEF was
  <2>9. AsKeymap!Search
    BY <1>1, <1>4, <2>1, <2>2, <2>4, <2>6, <2>7, <2>8 DEF AsKeymap!Search
  <2> QED
    BY <2>9 DEF AsKeymap!Next
<1> QED
  BY <1>5, <1>6

\* All other steps: a power key press may tap a key, nothing else changes.
LEMMA OtherIsKeymap ==
    ASSUME TypeOK, SearchInv, [Next]_vars, ~ConfigLine, ~ApplyEntry
    PROVE  AsKeymap!Next \/ UNCHANGED <<ListDone, DownDone>>
<1>1. list' = list
  BY ListSteps
<1>2. CASE ApplyDone
  <2>1. pc = "apply" /\ cursor = Len(list) + 1 /\ pc' = "select" /\ down' = down
    BY <1>2 DEF ApplyDone, Return, GoTo, TypeOK, outputVars
  <2>2. ListDone = list /\ DownDone = down
    BY <2>1, SearchOver DEF ListDone, DownDone
  <2>3. ListDone' = list /\ DownDone' = down
    BY <1>1, <2>1 DEF ListDone, DownDone, Searching
  <2> QED
    BY <2>2, <2>3
<1>3. CASE UNCHANGED <<list, down, pc, cursor, current>>
  BY <1>3 DEF ListDone, DownDone, Searching
<1>4. CASE Pek
  <2>1. pc = "pek" /\ (pc' # "apply" \/ cursor' = 1)
    BY <1>4 DEF Pek, GoTo
  <2>2. ListDone = list /\ DownDone = down /\ ListDone' = list /\ DownDone' = down'
    BY <1>1, <2>1 DEF ListDone, DownDone, Searching
  <2>3. down' = down \/ \E key \in Keys : down' = down \ {key}
    <3> DEFINE menu == FindMapping(list, {MENU})
    <3>1. menu \in 0..Len(list)
      BY FindMappingFacts DEF TypeOK
    <3> SUFFICES ASSUME menu # 0, list[menu].type = "KEY", down' = down \ {list[menu].value}
                 PROVE  \E key \in Keys : down' = down \ {key}
      BY <1>4 DEF Pek, KeyUp
    <3> HIDE DEF menu
    <3>2. list[menu] \in Mappings
      BY <3>1 DEF TypeOK
    <3>3. list[menu].value \in Keys
      BY <3>2 DEF Mappings, Mapping
    <3> QED
      BY <3>3
  <2>4. ASSUME NEW key \in Keys, down' = down \ {key}, DownDone' # DownDone
        PROVE  AsKeymap!Next
    <3>1. AsKeymap!Event(key)
      BY <2>2, <2>4 DEF AsKeymap!Event
    <3> QED
      BY <2>4, <3>1 DEF AsKeymap!Next
  <2> QED
    BY <2>2, <2>3, <2>4
<1>5. CASE BootDone \/ Wait \/ AxpRead \/ AxpClear \/ Expander
  <2>1. pc # "apply" /\ down' = down /\ (pc' # "apply" \/ cursor' = 1)
    BY <1>5 DEF BootDone, Boundary, Wait, SelectTimeout, SelectReady, SelectError, EnterHandle,
                ReadFds, ReadFdsError, AxpRead, AxpClear, Expander, Status, Input, Sample,
                GoTo, Return, outputVars
  <2> QED
    BY <1>1, <2>1 DEF ListDone, DownDone, Searching
<1>6. Environment \/ UNCHANGED vars => UNCHANGED <<list, down, pc, cursor, current>>
  BY DEF Environment, MovePin, PressPek, vars, daemonVars, outputVars
<1> QED
  BY <1>2, <1>3, <1>4, <1>5, <1>6 DEF Next, Daemon, Config, PowerChip, Apply

\* The loop implements Keymap: to a user the active mappings and their keys
\* change all at once, to those of a set of pressed buttons; a mapping that a
\* line drops lets go of its key; and no other step, failed or not, changes
\* what is active.  It holds for every list, as long as no key is mapped to two
\* combinations: with two, the order of the entries decides which event of the
\* key comes last.
THEOREM LoopImplementsKeymap ==
    ASSUME KeysMappedOnce
    PROVE  Spec => KeymapSpec
<1>1. Init => AsKeymap!Init
  BY DEF Init, AsKeymap!Init, ListDone, DownDone, Searching
<1>2. TypeOK /\ UniqueMasks /\ OriginInv /\ SearchInv /\ [Next]_vars
         => [AsKeymap!Next]_<<ListDone, DownDone>>
  BY LineIsKeymap, EntryIsKeymap, OtherIsKeymap
<1>3. Init => OriginInv
  BY OriginInit
<1>4. TypeOK /\ OriginInv /\ [Next]_vars => OriginInv'
  BY OriginStep
<1>5. Init => SearchInv
  BY DEF Init, SearchInv
<1>6. TypeOK /\ SearchInv /\ [Next]_vars => SearchInv'
  BY SearchStep
<1> QED
  BY <1>1, <1>2, <1>3, <1>4, <1>5, <1>6, TypeCorrect, MasksUnique, PTL
     DEF Spec, KeymapSpec, AsKeymap!Spec
=============================================================================
