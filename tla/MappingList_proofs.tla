------------------------- MODULE MappingList_proofs -------------------------
(***************************************************************************)
(* Facts about the operators of MappingList, for every list.               *)
(***************************************************************************)
EXTENDS MappingList, SequenceFacts

(***************************************************************************)
(* find_mapping returns an entry with the mask, and NULL (0) only if there *)
(* is none.                                                                *)
(***************************************************************************)
LEMMA FindMappingFacts ==
    ASSUME NEW S, NEW list \in Seq(S), NEW mask
    PROVE  /\ FindMapping(list, mask) \in 0..Len(list)
           /\ FindMapping(list, mask) = 0 => \A i \in 1..Len(list) : list[i].mask # mask
           /\ FindMapping(list, mask) # 0 => list[FindMapping(list, mask)].mask = mask
<1> DEFINE I == {i \in 1..Len(list) : list[i].mask = mask}
<1>1. FindMapping(list, mask) = IF I # {} THEN Min(I) ELSE 0
  BY DEF FindMapping, SelectInSeq
<1>2. I # {} => Min(I) \in I
  BY MinNat
<1> QED
  BY <1>1, <1>2

(***************************************************************************)
(* insert_mapping always finds a place, at one of the ends or between.     *)
(***************************************************************************)
LEMMA InsertPositionFacts ==
    ASSUME NEW S, NEW list \in Seq(S), NEW bits
    PROVE  InsertPosition(list, bits) \in 1..Len(list) + 1
<1> DEFINE I == {i \in 1..Len(list) : list[i].bits <= bits}
           p == IF I # {} THEN Min(I) ELSE 0
<1>1. InsertPosition(list, bits) = IF p = 0 THEN 1 ELSE p
  BY DEF InsertPosition, SelectInSeq
<1>2. p \in 0..Len(list)
  <2>1. I # {} => Min(I) \in I
    BY MinNat
  <2> QED
    BY <2>1, LenProperties
<1> HIDE DEF p
<1> QED
  BY <1>1, <1>2, LenProperties

(***************************************************************************)
(* insert_mapping keeps every entry and adds the new one; if no entry has  *)
(* its mask, masks stay unique.                                            *)
(***************************************************************************)
LEMMA InsertMappingFacts ==
    ASSUME NEW S, NEW list \in Seq(S), NEW m \in S
    PROVE  LET new == InsertMapping(list, m)
           IN  /\ new \in Seq(S)
               /\ \A j \in 1..Len(new) :
                     new[j] = m \/ \E i \in 1..Len(list) : new[j] = list[i]
               /\ \A i \in 1..Len(list) : \E j \in 1..Len(new) : new[j] = list[i]
               /\ Unique(list) /\ (\A i \in 1..Len(list) : list[i].mask # m.mask)
                     => Unique(new)
<1> DEFINE p == InsertPosition(list, m.bits)
           new == InsertAt(list, p, m)
<1>1. p \in 1..Len(list) + 1
  BY InsertPositionFacts
<1>2. /\ new \in Seq(S) /\ Len(new) = Len(list) + 1
      /\ \A j \in 1..Len(list) + 1 :
            new[j] = IF j < p THEN list[j] ELSE IF j = p THEN m ELSE list[j - 1]
  <2> HIDE DEF p
  <2> QED
    BY <1>1, InsertAtFacts
<1>3. InsertMapping(list, m) = new
  BY DEF InsertMapping
<1> HIDE DEF p, new
<1>4. Len(list) \in Nat
  BY LenProperties
<1>5. ASSUME NEW j \in 1..Len(new)
      PROVE  new[j] = m \/ \E i \in 1..Len(list) : new[j] = list[i]
  <2>1. CASE j < p
    BY <2>1, <1>1, <1>2, <1>4
  <2>2. CASE j = p
    BY <2>2, <1>1, <1>2, <1>4
  <2>3. CASE j > p
    <3>1. new[j] = list[j - 1] /\ j - 1 \in 1..Len(list)
      BY <2>3, <1>1, <1>2, <1>4
    <3> QED
      BY <3>1
  <2> QED
    BY <2>1, <2>2, <2>3, <1>1
<1>6. ASSUME NEW i \in 1..Len(list)
      PROVE  \E j \in 1..Len(new) : new[j] = list[i]
  <2>1. CASE i < p
    BY <2>1, <1>1, <1>2, <1>4
  <2>2. CASE i >= p
    <3>1. i + 1 \in 1..Len(new) /\ new[i + 1] = list[i]
      BY <2>2, <1>1, <1>2, <1>4
    <3> QED
      BY <3>1
  <2> QED
    BY <2>1, <2>2, <1>1
<1>7. ASSUME Unique(list), \A i \in 1..Len(list) : list[i].mask # m.mask
      PROVE  Unique(new)
  <2> SUFFICES ASSUME NEW j \in 1..Len(new), NEW k \in 1..Len(new),
                      new[j].mask = new[k].mask, j < k
               PROVE  FALSE
    BY <1>2, <1>4 DEF Unique
  <2>1. CASE j = p \/ k = p
    BY <2>1, <1>1, <1>2, <1>4, <1>7
  <2>2. CASE j # p /\ k # p
    <3> DEFINE old(x) == IF x < p THEN x ELSE x - 1
    <3>1. \A x \in {j, k} : old(x) \in 1..Len(list) /\ new[x] = list[old(x)]
      BY <2>2, <1>1, <1>2, <1>4
    <3>2. old(j) # old(k)
      BY <2>2, <1>1, <1>2, <1>4
    <3> HIDE DEF old
    <3> QED
      BY <3>1, <3>2, <1>7 DEF Unique
  <2> QED
    BY <2>1, <2>2
<1> QED
  BY <1>2, <1>3, <1>5, <1>6, <1>7

(***************************************************************************)
(* remove_mapping keeps every other entry and adds none.                   *)
(***************************************************************************)
LEMMA RemoveMappingFacts ==
    ASSUME NEW S, NEW list \in Seq(S), NEW p \in 1..Len(list)
    PROVE  LET new == RemoveMapping(list, p)
           IN  /\ new \in Seq(S)
               /\ \A j \in 1..Len(new) : \E i \in 1..Len(list) : i # p /\ new[j] = list[i]
               /\ \A i \in 1..Len(list) : i # p => \E j \in 1..Len(new) : new[j] = list[i]
               /\ Unique(list) =>
                     Unique(new) /\ \A j \in 1..Len(new) : new[j].mask # list[p].mask
<1> DEFINE new == RemoveMapping(list, p)
           old(x) == IF x < p THEN x ELSE x + 1
<1>1. /\ new \in Seq(S) /\ Len(new) = Len(list) - 1
      /\ \A j \in 1..Len(list) - 1 : new[j] = IF j < p THEN list[j] ELSE list[j + 1]
  BY RemoveAtFacts DEF RemoveMapping
<1> HIDE DEF new
<1>2. Len(list) \in Nat
  BY LenProperties
<1>3. \A j \in 1..Len(new) :
         old(j) \in 1..Len(list) /\ old(j) # p /\ new[j] = list[old(j)]
  BY <1>1, <1>2
<1>4. \A j, k \in 1..Len(new) : j # k => old(j) # old(k)
  BY <1>1, <1>2
<1>5. ASSUME NEW i \in 1..Len(list), i # p
      PROVE  \E j \in 1..Len(new) : new[j] = list[i]
  <2>1. CASE i < p
    BY <2>1, <1>1, <1>2
  <2>2. CASE i > p
    <3>1. i - 1 \in 1..Len(new) /\ new[i - 1] = list[i]
      BY <2>2, <1>1, <1>2
    <3> QED
      BY <3>1
  <2> QED
    BY <2>1, <2>2, <1>5
<1> HIDE DEF old
<1>6. ASSUME Unique(list)
      PROVE  Unique(new) /\ \A j \in 1..Len(new) : new[j].mask # list[p].mask
  <2>1. DOMAIN new = 1..Len(new) /\ DOMAIN list = 1..Len(list)
    BY <1>1
  <2> QED
    BY <2>1, <1>3, <1>4, <1>6 DEF Unique
<1> QED
  BY <1>1, <1>3, <1>5, <1>6 DEF new

(***************************************************************************)
(* The second of these facts, for one entry.                               *)
(***************************************************************************)
LEMMA RemoveMappingKeeps ==
    ASSUME NEW S, NEW list \in Seq(S), NEW p \in 1..Len(list),
           NEW i \in 1..Len(list), i # p
    PROVE  \E j \in 1..Len(RemoveMapping(list, p)) : RemoveMapping(list, p)[j] = list[i]
BY RemoveMappingFacts

(***************************************************************************)
(* A MAP line keeps every entry but the one with its mask and adds the new *)
(* one, and masks stay unique.                                             *)
(***************************************************************************)
LEMMA MapMappingFacts ==
    ASSUME NEW S, NEW list \in Seq(S), NEW m \in S
    PROVE  LET new == MapMapping(list, m)
               old == FindMapping(list, m.mask)
           IN  /\ new \in Seq(S)
               /\ \A j \in 1..Len(new) :
                     new[j] = m \/ \E i \in 1..Len(list) : i # old /\ new[j] = list[i]
               /\ \A i \in 1..Len(list) :
                     i # old => \E j \in 1..Len(new) : new[j] = list[i]
               /\ Unique(list) => Unique(new)
<1> DEFINE old == FindMapping(list, m.mask)
           kept == IF old = 0 THEN list ELSE RemoveMapping(list, old)
           new == InsertMapping(kept, m)
<1>1. /\ old \in 0..Len(list)
      /\ old = 0 => \A i \in 1..Len(list) : list[i].mask # m.mask
      /\ old # 0 => list[old].mask = m.mask
  BY FindMappingFacts
<1>2. MapMapping(list, m) = new
  BY DEF MapMapping
<1> HIDE DEF old
<1>3. /\ kept \in Seq(S)
      /\ \A j \in 1..Len(kept) : \E i \in 1..Len(list) : i # old /\ kept[j] = list[i]
      /\ \A i \in 1..Len(list) : i # old => \E j \in 1..Len(kept) : kept[j] = list[i]
      /\ Unique(list) => Unique(kept) /\ \A j \in 1..Len(kept) : kept[j].mask # m.mask
  <2>1. CASE old = 0
    BY <2>1, <1>1
  <2>2. CASE old # 0
    <3>1. PICK p \in 1..Len(list) : p = old /\ list[p].mask = m.mask
      BY <2>2, <1>1
    <3>2. /\ RemoveMapping(list, p) \in Seq(S)
          /\ \A j \in 1..Len(RemoveMapping(list, p)) :
                \E i \in 1..Len(list) : i # p /\ RemoveMapping(list, p)[j] = list[i]
      BY RemoveMappingFacts
    <3>3. \A i \in 1..Len(list) :
             i # p => \E j \in 1..Len(RemoveMapping(list, p)) :
                         RemoveMapping(list, p)[j] = list[i]
      BY RemoveMappingFacts
    <3>4. Unique(list) =>
             /\ Unique(RemoveMapping(list, p))
             /\ \A j \in 1..Len(RemoveMapping(list, p)) :
                   RemoveMapping(list, p)[j].mask # list[p].mask
      BY RemoveMappingFacts
    <3>5. kept = RemoveMapping(list, p)
      BY <2>2, <3>1 DEF kept
    <3> QED
      BY <3>1, <3>2, <3>3, <3>4, <3>5
  <2> QED
    BY <2>1, <2>2
<1> HIDE DEF kept
<1>4. /\ new \in Seq(S)
      /\ \A j \in 1..Len(new) : new[j] = m \/ \E i \in 1..Len(kept) : new[j] = kept[i]
      /\ \A i \in 1..Len(kept) : \E j \in 1..Len(new) : new[j] = kept[i]
      /\ Unique(kept) /\ (\A i \in 1..Len(kept) : kept[i].mask # m.mask) => Unique(new)
  BY <1>3, InsertMappingFacts
<1> HIDE DEF new
<1>5. \A j \in 1..Len(new) :
         new[j] = m \/ \E i \in 1..Len(list) : i # old /\ new[j] = list[i]
  BY <1>3, <1>4
<1>6. \A i \in 1..Len(list) : i # old => \E j \in 1..Len(new) : new[j] = list[i]
  BY <1>3, <1>4
<1> QED
  BY <1>2, <1>3, <1>4, <1>5, <1>6 DEF old

\* The mapping of a MAP line is in the list after it.
LEMMA MapMappingAdds ==
    ASSUME NEW S, NEW list \in Seq(S), NEW m \in S
    PROVE  m \in ToSet(MapMapping(list, m))
<1> DEFINE old == FindMapping(list, m.mask)
           kept == IF old = 0 THEN list ELSE RemoveMapping(list, old)
           p == InsertPosition(kept, m.bits)
           new == InsertAt(kept, p, m)
<1>1. kept \in Seq(S)
  <2>1. old \in 0..Len(list)
    BY FindMappingFacts
  <2> HIDE DEF old
  <2>2. CASE old # 0
    <3>1. RemoveMapping(list, old) \in Seq(S)
      BY <2>1, <2>2, RemoveMappingFacts
    <3> QED
      BY <2>2, <3>1
  <2> QED
    BY <2>2
<1> HIDE DEF kept
<1>2. p \in 1..Len(kept) + 1
  BY <1>1, InsertPositionFacts
<1> HIDE DEF p
<1>3. new[p] = m
  BY <1>1, <1>2, InsertAtElement
<1>4. p \in DOMAIN new
  BY <1>1, <1>2, InsertAtFacts
<1>5. MapMapping(list, m) = new
  BY DEF MapMapping, InsertMapping, kept, p
<1> HIDE DEF new
<1> QED
  BY <1>3, <1>4, <1>5 DEF ToSet

(***************************************************************************)
(* The second of these facts, for one entry.                               *)
(***************************************************************************)
LEMMA MapMappingKeeps ==
    ASSUME NEW S, NEW list \in Seq(S), NEW m \in S,
           NEW i \in 1..Len(list), i # FindMapping(list, m.mask)
    PROVE  \E j \in 1..Len(MapMapping(list, m)) : MapMapping(list, m)[j] = list[i]
BY MapMappingFacts

(***************************************************************************)
(* A search that meets its first match at k, or none before the end.       *)
(***************************************************************************)
LEMMA FindMappingIs ==
    ASSUME NEW S, NEW list \in Seq(S), NEW mask, NEW k \in 1..Len(list) + 1,
           \A i \in 1..k - 1 : list[i].mask # mask,
           k <= Len(list) => list[k].mask = mask
    PROVE  FindMapping(list, mask) = IF k <= Len(list) THEN k ELSE 0
<1> DEFINE I == {i \in 1..Len(list) : list[i].mask = mask}
<1>1. FindMapping(list, mask) = IF I # {} THEN Min(I) ELSE 0
  BY DEF FindMapping, SelectInSeq
<1>2. CASE k <= Len(list)
  <2>1. k \in I /\ I \in SUBSET Nat /\ \A i \in I : k <= i
    BY <1>2
  <2> HIDE DEF I
  <2>2. Min(I) = k
    BY <2>1, MinIs
  <2> QED
    BY <1>1, <1>2, <2>1, <2>2
<1>3. CASE ~(k <= Len(list))
  <2>1. I = {}
    BY <1>3
  <2> QED
    BY <1>1, <1>3, <2>1
<1> QED
  BY <1>2, <1>3

LEMMA InsertPositionIs ==
    ASSUME NEW S, NEW list \in Seq(S), NEW bits \in Nat, NEW k \in 1..Len(list) + 1,
           \A i \in 1..Len(list) : list[i].bits \in Nat,
           \A i \in 1..k - 1 : list[i].bits > bits,
           k <= Len(list) => list[k].bits <= bits
    PROVE  InsertPosition(list, bits) = IF k <= Len(list) THEN k ELSE 1
<1> DEFINE I == {i \in 1..Len(list) : list[i].bits <= bits}
           p == IF I # {} THEN Min(I) ELSE 0
<1>1. InsertPosition(list, bits) = IF p = 0 THEN 1 ELSE p
  BY DEF InsertPosition, SelectInSeq
<1>2. CASE k <= Len(list)
  <2>1. k \in I /\ I \in SUBSET Nat /\ \A i \in I : k <= i
    BY <1>2
  <2> HIDE DEF I
  <2>2. Min(I) = k
    BY <2>1, MinIs
  <2> QED
    BY <1>1, <1>2, <2>1, <2>2
<1>3. CASE ~(k <= Len(list))
  <2>1. I = {}
    BY <1>3
  <2> QED
    BY <1>1, <1>3, <2>1
<1> QED
  BY <1>2, <1>3

(***************************************************************************)
(* The place of a new entry: behind the entries that have more buttons, or *)
(* at the head when all have.                                              *)
(***************************************************************************)
LEMMA InsertPositionCases ==
    ASSUME NEW S, NEW list \in Seq(S), NEW bits
    PROVE  LET p == InsertPosition(list, bits)
           IN  \/ /\ p \in 1..Len(list) /\ list[p].bits <= bits
                  /\ \A i \in 1..(p - 1) : ~(list[i].bits <= bits)
               \/ /\ p = 1
                  /\ \A i \in 1..Len(list) : ~(list[i].bits <= bits)
<1> DEFINE I == {i \in 1..Len(list) : list[i].bits <= bits}
           p == IF I # {} THEN Min(I) ELSE 0
<1>1. InsertPosition(list, bits) = IF p = 0 THEN 1 ELSE p
  BY DEF InsertPosition, SelectInSeq
<1>2. CASE I # {}
  <2>1. Min(I) \in I /\ \A i \in I : Min(I) <= i
    <3>1. I \in SUBSET Nat
      OBVIOUS
    <3> HIDE DEF I
    <3> QED
      BY <1>2, <3>1, MinNat
  <2>2. PICK k \in 1..Len(list) : k = Min(I) /\ list[k].bits <= bits
    BY <2>1
  <2>3. \A i \in 1..(k - 1) : ~(list[i].bits <= bits)
    <3>1. ASSUME NEW i \in 1..(k - 1), list[i].bits <= bits PROVE FALSE
      <4>1. i \in I
        BY <2>2, <3>1, LenProperties
      <4>2. k <= i
        BY <2>1, <2>2, <4>1
      <4> QED
        BY <2>2, <4>2
    <3> QED
      BY <3>1
  <2>4. InsertPosition(list, bits) = k
    BY <1>1, <1>2, <2>2
  <2> QED
    BY <2>2, <2>3, <2>4
<1>3. CASE I = {}
  BY <1>1, <1>3
<1> QED
  BY <1>2, <1>3

(***************************************************************************)
(* insert_mapping in a sorted list: the new one is sorted, or its head is  *)
(* the new entry, with fewer buttons than every other.                     *)
(***************************************************************************)
LEMMA InsertMappingSorts ==
    ASSUME NEW S, NEW list \in Seq(S), NEW m \in S,
           \A e \in S : e.bits \in Nat, Sorted(list)
    PROVE  LET new == InsertMapping(list, m)
           IN  \/ Sorted(new)
               \/ /\ new[1] = m
                  /\ \A i \in 2..Len(new) : new[i] \in ToSet(list) /\ m.bits < new[i].bits
<1> DEFINE p == InsertPosition(list, m.bits)
           new == InsertAt(list, p, m)
<1>1. p \in 1..Len(list) + 1 /\ Len(list) \in Nat
  BY InsertPositionFacts, LenProperties
<1>2. \/ /\ p \in 1..Len(list) /\ list[p].bits <= m.bits
         /\ \A i \in 1..(p - 1) : ~(list[i].bits <= m.bits)
      \/ /\ p = 1
         /\ \A i \in 1..Len(list) : ~(list[i].bits <= m.bits)
  BY InsertPositionCases
<1>3. InsertMapping(list, m) = new
  BY DEF InsertMapping
<1> HIDE DEF p
<1>4. /\ new \in Seq(S) /\ Len(new) = Len(list) + 1
      /\ \A j \in 1..Len(list) + 1 :
            new[j] = IF j < p THEN list[j] ELSE IF j = p THEN m ELSE list[j - 1]
  <2>1. p \in 1..Len(list) + 1
    BY <1>1
  <2>2. /\ InsertAt(list, p, m) \in Seq(S)
        /\ Len(InsertAt(list, p, m)) = Len(list) + 1
        /\ \A j \in 1..Len(list) + 1 :
              InsertAt(list, p, m)[j] =
                  IF j < p THEN list[j] ELSE IF j = p THEN m ELSE list[j - 1]
    BY ONLY <2>1, list \in Seq(S), m \in S, InsertAtFacts
  <2> QED
    BY ONLY <2>2 DEF new
<1> HIDE DEF new
<1>5. /\ m.bits \in Nat
      /\ \A i \in 1..Len(list) : list[i].bits \in Nat
      /\ \A i, j \in 1..Len(list) : i < j => list[i].bits >= list[j].bits
  <2>1. \A i \in 1..Len(list) : list[i] \in S
    BY ElementOfSeq
  <2> QED
    BY <2>1 DEF Sorted
<1>6. CASE /\ p \in 1..Len(list) /\ list[p].bits <= m.bits
           /\ \A i \in 1..(p - 1) : ~(list[i].bits <= m.bits)
  <2> SUFFICES ASSUME NEW i \in 1..Len(new), NEW j \in 1..Len(new), i < j
               PROVE  new[i].bits >= new[j].bits
    BY <1>3, <1>4 DEF Sorted
  <2>1. \A k \in p..Len(list) : list[k].bits <= m.bits
    BY <1>1, <1>5, <1>6
  <2>2. \A k \in 1..(p - 1) : list[k].bits > m.bits
    BY <1>1, <1>5, <1>6
  <2>3. CASE j < p
    <3>1. new[i] = list[i] /\ new[j] = list[j] /\ i \in 1..Len(list) /\ j \in 1..Len(list)
      BY <1>1, <1>4, <2>3
    <3> QED
      BY <1>5, <3>1
  <2>4. CASE j = p
    <3>1. new[i] = list[i] /\ new[j] = m /\ i \in 1..(p - 1) /\ i \in 1..Len(list)
      BY <1>1, <1>4, <2>4
    <3> QED
      BY <1>5, <2>2, <3>1
  <2>5. CASE j > p
    <3>1. new[j] = list[j - 1] /\ j - 1 \in p..Len(list) /\ j - 1 \in 1..Len(list)
      BY <1>1, <1>4, <2>5
    <3>2. CASE i < p
      <4>1. new[i] = list[i] /\ i \in 1..(p - 1) /\ i \in 1..Len(list)
        BY <1>1, <1>4, <3>2
      <4> QED
        BY <1>5, <2>1, <2>2, <3>1, <4>1
    <3>3. CASE i = p
      <4>1. new[i] = m
        BY <1>1, <1>4, <3>3
      <4> QED
        BY <1>5, <2>1, <3>1, <4>1
    <3>4. CASE i > p
      <4>1. new[i] = list[i - 1] /\ i - 1 \in 1..Len(list) /\ i - 1 < j - 1
        BY <1>1, <1>4, <3>4
      <4> QED
        BY <1>5, <3>1, <4>1
    <3> QED
      BY <1>1, <3>2, <3>3, <3>4
  <2> QED
    BY <1>1, <2>3, <2>4, <2>5
<1>7. CASE /\ p = 1
           /\ \A i \in 1..Len(list) : ~(list[i].bits <= m.bits)
  <2>1. new[1] = m
    BY <1>1, <1>4, <1>7
  <2>2. ASSUME NEW i \in 2..Len(new)
        PROVE  new[i] \in ToSet(list) /\ m.bits < new[i].bits
    <3>1. new[i] = list[i - 1] /\ i - 1 \in 1..Len(list)
      BY <1>1, <1>4, <1>7
    <3>2. new[i] \in ToSet(list)
      BY <3>1 DEF ToSet
    <3> QED
      BY <1>5, <1>7, <3>1, <3>2
  <2> QED
    BY <1>3, <2>1, <2>2
<1> QED
  BY <1>2, <1>6, <1>7

\* remove_mapping keeps a sorted list sorted.
LEMMA RemoveMappingSorts ==
    ASSUME NEW S, NEW list \in Seq(S), NEW p \in 1..Len(list), Sorted(list)
    PROVE  Sorted(RemoveMapping(list, p))
<1> DEFINE new == RemoveMapping(list, p)
           old(x) == IF x < p THEN x ELSE x + 1
<1>1. /\ new \in Seq(S) /\ Len(new) = Len(list) - 1
      /\ \A j \in 1..Len(list) - 1 : new[j] = IF j < p THEN list[j] ELSE list[j + 1]
  BY RemoveAtFacts DEF RemoveMapping
<1> HIDE DEF new
<1>2. Len(list) \in Nat
  BY LenProperties
<1>3. \A j \in 1..Len(new) : old(j) \in 1..Len(list) /\ new[j] = list[old(j)]
  BY <1>1, <1>2
<1>4. \A j, k \in 1..Len(new) : j < k => old(j) < old(k)
  BY <1>1, <1>2
<1> HIDE DEF old
<1>5. DOMAIN new = 1..Len(new) /\ DOMAIN list = 1..Len(list)
  BY <1>1
<1> QED
  BY <1>3, <1>4, <1>5 DEF Sorted, new

(***************************************************************************)
(* A MAP line keeps a sorted list sorted, or puts its mapping at the head, *)
(* before entries of the list that all have more buttons.                  *)
(***************************************************************************)
LEMMA MapMappingSorts ==
    ASSUME NEW S, NEW list \in Seq(S), NEW m \in S,
           \A e \in S : e.bits \in Nat, Sorted(list)
    PROVE  LET new == MapMapping(list, m)
           IN  \/ Sorted(new)
               \/ /\ new[1] = m
                  /\ \A i \in 2..Len(new) : new[i] \in ToSet(list) /\ m.bits < new[i].bits
<1> DEFINE old == FindMapping(list, m.mask)
           kept == IF old = 0 THEN list ELSE RemoveMapping(list, old)
<1>1. old \in 0..Len(list)
  BY FindMappingFacts
<1>2. MapMapping(list, m) = InsertMapping(kept, m)
  BY DEF MapMapping
<1> HIDE DEF old
<1>3. kept \in Seq(S) /\ Sorted(kept) /\ ToSet(kept) \subseteq ToSet(list)
  <2>1. CASE old = 0
    BY <2>1
  <2>2. CASE old # 0
    <3>1. PICK p \in 1..Len(list) : p = old
      BY <1>1, <2>2
    <3> DEFINE rem == RemoveMapping(list, p)
    <3>2. /\ rem \in Seq(S)
          /\ \A j \in 1..Len(rem) : \E i \in 1..Len(list) : rem[j] = list[i]
      BY RemoveMappingFacts
    <3>3. Sorted(rem)
      BY RemoveMappingSorts
    <3>4. kept = rem
      BY <2>2, <3>1
    <3> HIDE DEF rem
    <3>5. ToSet(rem) \subseteq ToSet(list)
      BY <3>2 DEF ToSet
    <3> QED
      BY <3>2, <3>3, <3>4, <3>5
  <2> QED
    BY <2>1, <2>2
<1> HIDE DEF kept
<1> DEFINE new == InsertMapping(kept, m)
<1>4. \/ Sorted(new)
      \/ /\ new[1] = m
         /\ \A i \in 2..Len(new) : new[i] \in ToSet(kept) /\ m.bits < new[i].bits
  BY <1>3, InsertMappingSorts
<1> QED
  BY <1>2, <1>3, <1>4
=============================================================================
