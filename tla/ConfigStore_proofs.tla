-------------------------- MODULE ConfigStore_proofs --------------------------
(***************************************************************************)
(* Theorems of ConfigStore for every heap, every set of files and lines,   *)
(* and any number of crashes.                                              *)
(*                                                                         *)
(* The list is one ring of the head and exactly the allocated mappings,    *)
(* and no loop over it stands on a freed mapping (IInv); so it can be read *)
(* as a sequence, and each loop is at a known place of it (StoreInv); so   *)
(* what a line will have made of the list is known while it runs           *)
(* (LineInv), and with it what a saved file makes (FileInv, LoadInv).      *)
(***************************************************************************)
EXTENDS ConfigStore, LinkedList_proofs, MappingList_proofs

\* NoDangling is kept because the pointers lead from listed places to listed
\* places, and this because the list is one ring.
IInv == IsRing(links, used) /\ NoDangling

LEMMA InvInit == Init => IInv
<1> SUFFICES ASSUME Init PROVE IInv
  OBVIOUS
<1>1. used = {}
  BY DEF Init, used
<1> QED
  BY <1>1, RingInit DEF Init, IInv, NoDangling

(***************************************************************************)
(* Where a line starts, the loop is at the first place of the list.        *)
(***************************************************************************)
LEMMA RunTextInv ==
    ASSUME IInv, NEW text, RunText(text), UNCHANGED heap
    PROVE  IInv'
<1>1. used' = used /\ links' = links
  BY DEF heap, used
<1>2. links.next[head] \in used \cup {head}
  BY RingSteps DEF IInv
<1>3. cur' = links.next[head] /\ nxt' = links.next[links.next[head]]
  BY DEF RunText
<1> QED
  BY <1>1, <1>2, <1>3 DEF IInv, NoDangling

(***************************************************************************)
(* Where a line ends, no loop is left.                                     *)
(***************************************************************************)
LEMMA EndInv ==
    ASSUME IsRing(links, used)', pc' \notin {"find", "insert", "clear", "save"}
    PROVE  IInv'
BY DEF IInv, NoDangling

LEMMA DoneOrFailed ==
    ASSUME Done \/ Failed
    PROVE  pc' \notin {"find", "insert", "clear", "save"}
BY DEF Done, Failed

(***************************************************************************)
(* The mapping that a loop is at can be freed, and the place of the new    *)
(* mapping is next to it.                                                  *)
(***************************************************************************)
LEMMA RemoveInv ==
    ASSUME IInv, RemoveFound
    PROVE  IInv'
<1>1. cur \in used /\ IsRing(links, used)
  BY DEF IInv, NoDangling, RemoveFound, matched
<1>2. links' = ListDelete(links, cur) /\ used' = used \ {cur} /\ cur' = links'.next[head]
  BY DEF RemoveFound, used
<1>3. IsRing(links', used')
  BY <1>1, <1>2, RingDelete
<1>4. cur' \in used' \cup {head}
  BY <1>2, <1>3, RingSteps
<1>5. pc' # "clear"
  BY DEF RemoveFound, Done
<1> QED
  BY <1>3, <1>4, <1>5 DEF IInv, NoDangling

LEMMA InsertInv ==
    ASSUME IInv, NEW new \in Nodes, Insert(new)
    PROVE  IInv'
<1>1. IsRing(links, used) /\ cur \in used \cup {head} /\ new \in Nodes \ used
  BY DEF IInv, NoDangling, Insert
<1>2. used' = used \cup {new}
  BY DEF Insert, used
<1>3. CASE cur = head
  <2>1. links' = ListAddBetween(links, new, head, links.next[head])
    BY <1>3 DEF Insert, ListAdd
  <2> QED
    BY <1>1, <1>2, <2>1, RingAdd, EndInv, DoneOrFailed DEF Insert
<1>4. CASE cur # head
  <2>1. links' = ListAddBetween(links, new, links.prev[cur], cur)
    BY <1>4 DEF Insert
  <2>2. links.prev[cur] \in used \cup {head} /\ links.next[links.prev[cur]] = cur
    BY <1>1, RingSteps
  <2> QED
    BY <1>1, <1>2, <2>1, <2>2, RingAdd, EndInv, DoneOrFailed DEF Insert
<1> QED
  BY <1>3, <1>4

LEMMA ClearInv ==
    ASSUME IInv, ClearNext
    PROVE  IInv'
<1>1. IsRing(links, used) /\ cur \in used /\ nxt = links.next[cur]
  BY DEF IInv, NoDangling, ClearNext
<1>2. /\ links' = ListDelete(links, cur) /\ used' = used \ {cur}
      /\ cur' = nxt /\ nxt' = links'.next[nxt]
  BY DEF ClearNext, used
<1>3. IsRing(links', used')
  BY <1>1, <1>2, RingDelete
<1>4. nxt \in used' \cup {head}
  <2>1. cur # head
    BY DEF ClearNext
  <2>2. nxt \in used \cup {head} /\ nxt # cur
    BY <1>1, <2>1, RingSteps
  <2> QED
    BY <1>2, <2>2
<1> QED
  BY <1>2, <1>3, <1>4 DEF IInv, NoDangling

(***************************************************************************)
(* A loop that goes on, or back, stays in the list.                        *)
(***************************************************************************)
LEMMA WalkInv ==
    ASSUME IInv, UNCHANGED heap, pc' = pc, pc \in {"find", "insert", "save"},
           cur' = links.next[cur] \/ cur' = links.prev[cur]
    PROVE  IInv'
<1>1. used' = used /\ links' = links
  BY DEF heap, used
<1>2. cur \in used \cup {head} /\ IsRing(links, used)
  BY DEF IInv, NoDangling
<1>3. cur' \in used \cup {head}
  BY <1>2, RingSteps
<1> QED
  BY <1>1, <1>2, <1>3 DEF IInv, NoDangling

LEMMA InvNext ==
    ASSUME IInv, [Next]_vars
    PROVE  IInv'
<1> USE DEF used
<1>1. CASE UNCHANGED heap /\ pc' \notin {"find", "insert", "clear", "save"}
  BY <1>1, EndInv DEF IInv, heap
<1>2. ASSUME NEW text \in FifoLines, FifoLine(text) PROVE IInv'
  BY <1>2, RunTextInv DEF FifoLine
<1>3. CASE Crash
  <2>1. links' = InitList /\ used' = {} /\ pc' = "read"
    BY <1>3 DEF Crash
  <2> QED
    BY <2>1, RingInit, EndInv
<1>4. CASE Read
  <2>1. CASE FgetsLine
    <3>1. UNCHANGED heap
      BY <2>1 DEF FgetsLine
    <3>2. CASE RunText(Head(Head(stack).rest))
      BY <3>1, <3>2, RunTextInv
    <3>3. CASE UNCHANGED pc
      BY <1>1, <2>1, <3>1, <3>3 DEF FgetsLine
    <3> QED
      BY <2>1, <3>2, <3>3 DEF FgetsLine
  <2>2. CASE FgetsEnd
    <3>1. UNCHANGED heap
      BY <2>2 DEF FgetsEnd
    <3>2. CASE RunText(line)
      BY <3>1, <3>2, RunTextInv
    <3>3. CASE UNCHANGED pc
      BY <1>1, <2>2, <3>1, <3>3 DEF FgetsEnd
    <3> QED
      BY <2>2, <3>2, <3>3 DEF FgetsEnd
  <2>3. CASE FileEnd
    BY <1>1, <2>3 DEF FileEnd
  <2> QED
    BY <1>4, <2>1, <2>2, <2>3 DEF Read
<1>5. CASE Load \/ SendKey \/ Accept \/ Reject
  <2>1. UNCHANGED heap
    BY <1>5 DEF Load, SendKey, Accept, Reject
  <2>2. pc' = "read" \/ Done \/ Failed
    BY <1>5 DEF Load, SendKey, Accept, Reject
  <2> QED
    BY <1>1, <2>1, <2>2, DoneOrFailed
<1>6. CASE Find
  <2>1. CASE FindNext
    BY <2>1, WalkInv DEF FindNext
  <2>2. CASE FindNothing
    <3>1. UNCHANGED heap /\ cur' = links.next[head]
      BY <2>2 DEF FindNothing
    <3>2. CASE Failed
      BY <1>1, <3>1, <3>2, DoneOrFailed
    <3>3. CASE pc' = "insert"
      <4>1. links.next[head] \in used \cup {head}
        BY RingSteps DEF IInv
      <4> QED
        BY <3>1, <3>3, <4>1 DEF IInv, NoDangling, heap
    <3> QED
      BY <2>2, <3>2, <3>3 DEF FindNothing
  <2> QED
    BY <1>6, <2>1, <2>2, RemoveInv DEF Find
<1>7. CASE Place
  <2>1. CASE InsertFails
    BY <1>1, <2>1, DoneOrFailed DEF InsertFails
  <2>2. CASE InsertNext
    BY <2>2, WalkInv DEF InsertNext
  <2> QED
    BY <1>7, <2>1, <2>2, InsertInv DEF Place
<1>8. CASE Clear
  <2>1. CASE ClearEnd
    BY <1>1, <2>1, DoneOrFailed DEF ClearEnd
  <2> QED
    BY <1>8, <2>1, ClearInv DEF Clear
<1>9. CASE Save
  <2>1. CASE SaveStart
    <3>1. UNCHANGED heap
      BY <2>1 DEF SaveStart
    <3>2. CASE Failed
      BY <1>1, <3>1, <3>2, DoneOrFailed
    <3>3. CASE cur' = links.prev[head] /\ pc' = "save"
      <4>1. links.prev[head] \in used \cup {head}
        BY RingSteps DEF IInv
      <4> QED
        BY <3>1, <3>3, <4>1 DEF IInv, NoDangling, heap
    <3> QED
      BY <2>1, <3>2, <3>3 DEF SaveStart
  <2>2. CASE SaveNext
    BY <2>2, WalkInv DEF SaveNext
  <2>3. CASE SaveEnd
    <3>1. UNCHANGED heap /\ (Done \/ Failed)
      BY <2>3 DEF SaveEnd
    <3> QED
      BY <1>1, <3>1, DoneOrFailed
  <2> QED
    BY <1>9, <2>1, <2>2, <2>3 DEF Save
<1>10. CASE UNCHANGED vars
  BY <1>10 DEF vars, IInv, NoDangling
<1> QED
  BY <1>2, <1>3, <1>4, <1>5, <1>6, <1>7, <1>8, <1>9, <1>10 DEF Next, Step

(***************************************************************************)
(* The list is one ring of the head and the allocated mappings, whatever   *)
(* lines are run, wherever memory runs out and the process dies.           *)
(***************************************************************************)
THEOREM RingHolds == Spec => [](IsRing(links, used))
<1>1. IInv => IsRing(links, used)
  BY DEF IInv
<1> QED
  BY <1>1, InvInit, InvNext, PTL DEF Spec

(***************************************************************************)
(* Each pointer of the list leads to a listed place, and back.             *)
(***************************************************************************)
THEOREM LinkedHolds == Spec => []Linked(links, used)
<1>1. IInv => Linked(links, used)
  <2> SUFFICES ASSUME IInv PROVE Linked(links, used)
    OBVIOUS
  <2>1. IsRing(links, used)
    BY DEF IInv
  <2> QED
    BY <2>1, RingSteps DEF Linked
<1> QED
  BY <1>1, InvInit, InvNext, PTL DEF Spec

(***************************************************************************)
(* No loop stands on a freed mapping.                                      *)
(***************************************************************************)
THEOREM NoDanglingHolds == Spec => []NoDangling
<1>1. IInv => NoDangling
  BY DEF IInv
<1> QED
  BY <1>1, InvInit, InvNext, PTL DEF Spec

(***************************************************************************)
(* Every loop macro visits the allocated mappings, each of them once, and  *)
(* ends; backward in the reverse order.                                    *)
(***************************************************************************)
THEOREM WellLinkedHolds == Spec => []WellLinked
<1>1. IInv => WellLinked
  <2> SUFFICES ASSUME IInv PROVE WellLinked
    OBVIOUS
  <2>1. IsRing(links, used)
    BY DEF IInv
  <2>2. links \in Links /\ used \in SUBSET Nodes
    BY <2>1 DEF IsRing
  <2>3. PICK s \in Seq(Nodes) : Ring(links, used, s)
    BY <2>1 DEF IsRing
  <2>4. ForEach(links) = s /\ ForEachPrev(links) = Reverse(s) /\ ForEachMapping(links) = s
    BY <2>2, <2>3, RingLoops
  <2>5. ToSet(s) = used /\ Len(s) = Cardinality(used)
    BY <2>2, <2>3, RingLength
  <2>6. Linked(links, used)
    BY <2>1, RingSteps DEF Linked
  <2> QED
    BY <2>4, <2>5, <2>6 DEF WellLinked
<1> QED
  BY <1>1, InvInit, InvNext, PTL DEF Spec

-----------------------------------------------------------------------------
(* Types.                                                                  *)

Frames == [rest : Seq(Texts), ended : BOOLEAN, eof : BOOLEAN]

\* The list and the loops over it, the files, those that are being read, the
\* lines, and what kind of line each loop works for.
ListTypes ==
    /\ links \in Links /\ cur \in Places /\ nxt \in Places
    /\ used \subseteq Nodes /\ \A n \in used : entry[n] \in Mappings
FileTypes ==
    /\ DOMAIN files \subseteq FileNames /\ Boot \in DOMAIN files
    /\ \A f \in DOMAIN files : files[f] \in Files
ReadTypes ==
    /\ stack \in Seq(Frames) /\ Len(stack) <= MaxOpen
    /\ pc = "read" => stack # <<>>
    /\ pc = "idle" => stack = <<>>
LineTypes == line \in Texts /\ todo \in Texts /\ again \in BOOLEAN /\ out \in Seq(Texts)
PcTypes ==
    /\ pc \in {"idle", "read", "line", "find", "insert", "clear", "save"}
    /\ pc = "line" => ~Maps(todo) /\ todo.op \notin {"UNMAP", "CLEAR"}
    /\ pc = "find" => Maps(todo) \/ todo.op = "UNMAP"
    /\ pc = "insert" => Maps(todo)
    /\ pc = "clear" => todo.op = "CLEAR"
    /\ pc = "save" => todo.op = "SAVE" /\ todo.file # NoFile /\ todo.file \in DOMAIN files

TypeInv == ListTypes /\ FileTypes /\ ReadTypes /\ LineTypes /\ PcTypes

LEMMA KeycodeNameType ==
    ASSUME NEW code
    PROVE  KeycodeName(code) \in KeyNames \cup {NoKey}
<1> DEFINE having == {name \in KeyNames : CodeOf(name) = code}
<1>1. having \in SUBSET Nat
  BY DEF KeyNames
<1>2. KeycodeName(code) = IF having = {} THEN NoKey ELSE Min(having)
  BY DEF KeycodeName, Min
<1>3. having # {} => Min(having) \in having
  BY <1>1, MinNat
<1> QED
  BY <1>2, <1>3

(***************************************************************************)
(* Lines, what is left of them in the buffer, the mappings they make and   *)
(* the lines that these are saved as.                                      *)
(***************************************************************************)
LEMMA TextTypes ==
    /\ \A op \in Ops \ {"MAP KEY", "MAP COMMAND"} : Text(op) \in Texts
    /\ \A text \in Texts : Cut(text) \in Texts
    /\ \A text \in Texts : Maps(text) => EntryOf(text) \in Mappings
    /\ \A mapping \in Mappings : SavedText(mapping) \in Texts
<1>1. ASSUME NEW op \in Ops \ {"MAP KEY", "MAP COMMAND"} PROVE Text(op) \in Texts
  <2>1. {} \in Masks /\ 0 \in Nat /\ NoKey \in Values /\ NoFile \in FileNames \cup {NoFile}
    BY DEF Masks, Values
  <2> QED
    BY <2>1 DEF Text, Texts
<1>2. ASSUME NEW text \in Texts PROVE Cut(text) \in Texts
  <2>1. text.op \in Ops
    BY DEF Texts
  <2> QED
    BY <1>1, <2>1 DEF Cut, Ops
<1>3. ASSUME NEW text \in Texts, Maps(text) PROVE EntryOf(text) \in Mappings
  <2>1. text.mask \in Masks \ {{}} /\ text.bits \in Nat
    BY <1>3 DEF Texts, Maps
  <2>2. CASE text.op = "MAP KEY"
    <3>1. LookupKey(text.value) \in KeyNames /\ KeyNames \subseteq Values
      BY <1>3, <2>2 DEF Maps, LookupKey, Values
    <3> QED
      BY <2>1, <2>2, <3>1 DEF EntryOf, NewMapping, Mappings
  <2>3. CASE text.op = "MAP COMMAND"
    <3>1. text.value \in Commands /\ Commands \subseteq Values
      BY <2>3 DEF Texts, Values
    <3> QED
      BY <2>1, <2>3, <3>1 DEF EntryOf, NewMapping, Mappings
  <2> QED
    BY <1>3, <2>2, <2>3 DEF Maps
<1>4. ASSUME NEW mapping \in Mappings PROVE SavedText(mapping) \in Texts
  <2>1. /\ mapping.mask \in Masks /\ mapping.mask # {} /\ mapping.type \in {"KEY", "COMMAND"}
        /\ mapping.value \in IF mapping.type = "KEY" THEN KeyNames ELSE Commands
    BY DEF Mappings
  <2>2. Cardinality(mapping.mask) \in Nat
    BY <2>1, ButtonAssumption, FS_Subset, FS_CardinalityType DEF Masks
  <2>3. KeycodeName(mapping.value) \in Values /\ Commands \subseteq Values
    BY KeycodeNameType DEF Values
  <2> QED
    BY <2>1, <2>2, <2>3 DEF SavedText, Texts, Ops
<1> QED
  BY <1>1, <1>2, <1>3, <1>4

(***************************************************************************)
(* The stack of files, with another file at its top, without and with one  *)
(* more.                                                                   *)
(***************************************************************************)
LEMMA StackTypes ==
    ASSUME stack \in Seq(Frames), stack # <<>>, NEW file \in Frames
    PROVE  /\ Head(stack) \in Frames
           /\ Tail(stack) \in Seq(Frames) /\ Len(Tail(stack)) = Len(stack) - 1
           /\ <<file>> \o Tail(stack) \in Seq(Frames)
           /\ Len(<<file>> \o Tail(stack)) = Len(stack)
           /\ <<file>> \o Tail(stack) # <<>>
<1>1. Tail(stack) \in Seq(Frames) /\ Len(Tail(stack)) = Len(stack) - 1 /\ Len(stack) \in Nat \ {0}
  OBVIOUS
<1>2. <<file>> \in Seq(Frames) /\ Len(<<file>>) = 1
  OBVIOUS
<1>3. <<file>> \o Tail(stack) \in Seq(Frames) /\ Len(<<file>> \o Tail(stack)) = Len(stack)
  BY <1>1, <1>2, ConcatProperties
<1> QED
  BY <1>1, <1>3

LEMMA OpenTypes ==
    ASSUME stack \in Seq(Frames), NEW file \in Files
    PROVE  /\ Opened(file) \in Frames
           /\ <<Opened(file)>> \o stack \in Seq(Frames)
           /\ Len(<<Opened(file)>> \o stack) = Len(stack) + 1
<1>1. Opened(file) \in Frames
  BY DEF Opened, Files, Frames
<1>2. <<Opened(file)>> \in Seq(Frames) /\ Len(<<Opened(file)>>) = 1
  BY <1>1
<1> QED
  BY <1>1, <1>2, ConcatProperties

(***************************************************************************)
(* The pointers and the two places of a loop, when the list is as it was.  *)
(***************************************************************************)
LEMMA WalkTypes ==
    ASSUME ListTypes, UNCHANGED heap,
           cur' \in {cur, nxt, links.next[cur], links.prev[cur], links.next[head], links.prev[head]},
           nxt' \in {nxt, links.next[links.next[head]]}
    PROVE  ListTypes'
<1>1. head \in Places /\ \A n \in Places : links.next[n] \in Places /\ links.prev[n] \in Places
  BY DEF ListTypes, Links, Places
<1> QED
  BY <1>1 DEF ListTypes, heap, used

(***************************************************************************)
(* Where a line starts and where it ends.                                  *)
(***************************************************************************)
LEMMA RunTextTypes ==
    ASSUME NEW text \in Texts, RunText(text)
    PROVE  PcTypes' /\ todo' \in Texts /\ pc' \notin {"read", "idle"}
BY DEF RunText, PcTypes, Maps, Texts, Ops

LEMMA EndTypes ==
    ASSUME ReadTypes, Done \/ Failed
    PROVE  ReadTypes' /\ PcTypes'
<1>1. Len(stack) \in Nat /\ (Len(stack) = 0 <=> stack = <<>>) /\ MaxOpen \in Nat
  BY BoundAssumption DEF ReadTypes
<1>2. CASE Done
  BY <1>1, <1>2 DEF Done, ReadTypes, PcTypes
<1>3. CASE Failed
  <2>1. CASE stack = <<>>
    <3>1. stack' = <<>> /\ pc' = "idle"
      BY <1>1, <1>3, <2>1 DEF Failed
    <3>2. <<>> \in Seq(Frames) /\ Len(<<>>) = 0
      OBVIOUS
    <3> QED
      BY <1>1, <3>1, <3>2 DEF ReadTypes, PcTypes
  <2>2. CASE stack # <<>>
    <3>1. Tail(stack) \in Seq(Frames) /\ Len(Tail(stack)) = Len(stack) - 1
      BY <2>2 DEF ReadTypes
    <3> DEFINE t == Tail(stack)
    <3>2. t = <<>> <=> Len(t) = 0
      <4>1. t \in Seq(Frames)
        BY <3>1
      <4> HIDE DEF t
      <4> QED
        BY <4>1, EmptySeq
    <3>3. stack' = Tail(stack) /\ pc' = IF Len(stack) <= 1 THEN "idle" ELSE "read"
      BY <1>3, <2>2 DEF Failed
    <3> QED
      BY <1>1, <3>1, <3>2, <3>3 DEF ReadTypes, PcTypes
  <2> QED
    BY <2>1, <2>2
<1> QED
  BY <1>2, <1>3

LEMMA TypeInit == Init => TypeInv
<1> SUFFICES ASSUME Init PROVE TypeInv
  OBVIOUS
<1>1. ListTypes
  BY DEF Init, InitList, Links, Places, ListTypes, used
<1>2. FileTypes
  BY DiskAssumption DEF Init, FileTypes
<1>3. ReadTypes
  <2>1. <<>> \in Seq(Frames) /\ Len(<<>>) = 0 /\ files[Boot] \in Files /\ MaxOpen >= 1
    BY <1>2, BoundAssumption DEF FileTypes
  <2>2. Opened(files[Boot]) \in Frames
    BY <2>1 DEF Opened, Files, Frames
  <2> QED
    BY <2>1, <2>2, BoundAssumption DEF Init, ReadTypes
<1>4. LineTypes
  <2>1. Text("NOP") \in Texts
    BY TextTypes DEF Ops
  <2>2. <<>> \in Seq(Texts)
    OBVIOUS
  <2> QED
    BY <2>1, <2>2 DEF Init, LineTypes
<1>5. PcTypes
  BY DEF Init, PcTypes
<1> QED
  BY <1>1, <1>2, <1>3, <1>4, <1>5 DEF TypeInv


(***************************************************************************)
(* Every step keeps the types.                                             *)
(***************************************************************************)
LEMMA TypeNext ==
    ASSUME IInv, TypeInv, [Next]_vars
    PROVE  TypeInv'
<1> USE DEF TypeInv
<1>1. ASSUME NEW text \in FifoLines, FifoLine(text) PROVE TypeInv'
  <2>1. text \in Texts
    BY DiskAssumption
  <2>2. RunText(text) /\ UNCHANGED heap /\ again' = FALSE /\ UNCHANGED <<files, stack, line, out>>
    BY <1>1 DEF FifoLine, reader
  <2>3. ListTypes'
    BY <2>2, WalkTypes DEF RunText
  <2>4. PcTypes' /\ LineTypes' /\ ReadTypes'
    BY <2>1, <2>2, RunTextTypes DEF LineTypes, ReadTypes
  <2> QED
    BY <2>2, <2>3, <2>4 DEF FileTypes
<1>2. CASE Crash
  <2>1. ListTypes'
    BY <1>2 DEF Crash, InitList, Links, Places, ListTypes, used
  <2>2. ReadTypes'
    <3>1. files[Boot] \in Files /\ <<>> \in Seq(Frames) /\ Len(<<>>) = 0 /\ MaxOpen >= 1
      BY BoundAssumption DEF FileTypes
    <3>2. Opened(files[Boot]) \in Frames
      BY <3>1 DEF Opened, Files, Frames
    <3> QED
      BY <1>2, <3>1, <3>2, BoundAssumption DEF Crash, ReadTypes
  <2>3. LineTypes'
    <3>1. Text("NOP") \in Texts
      BY TextTypes DEF Ops
    <3>2. <<>> \in Seq(Texts)
      OBVIOUS
    <3> QED
      BY <1>2, <3>1, <3>2 DEF Crash, LineTypes
  <2> QED
    BY <1>2, <2>1, <2>2, <2>3 DEF Crash, FileTypes, PcTypes
<1>3. CASE FgetsLine
  <2> DEFINE file == Head(stack)
             text == Head(file.rest)
             read == [file EXCEPT !.rest = Tail(@), !.eof = Len(file.rest) = 1 /\ ~file.ended]
  <2>1. file \in Frames /\ file.rest \in Seq(Texts) /\ file.rest # <<>> /\ stack # <<>>
    <3>1. stack \in Seq(Frames) /\ stack # <<>> /\ file.rest # <<>>
      BY <1>3 DEF FgetsLine, ReadTypes
    <3>2. file \in Frames
      BY <3>1
    <3> QED
      BY <3>1, <3>2 DEF Frames
  <2>2. text \in Texts /\ Tail(file.rest) \in Seq(Texts)
    BY <2>1
  <2>3. read \in Frames
    BY <2>1, <2>2 DEF Frames
  <2>4. /\ stack' = <<read>> \o Tail(stack) /\ line' = Cut(text) /\ again' = FALSE
        /\ UNCHANGED heap /\ UNCHANGED <<files, out>> /\ pc = "read"
        /\ RunText(text) \/ UNCHANGED <<todo, cur, nxt, pc>>
    BY <1>3 DEF FgetsLine
  <2>5. ListTypes'
    BY <2>4, WalkTypes DEF RunText
  <2>6. LineTypes' /\ PcTypes'
    <3>1. Cut(text) \in Texts
      BY <2>2, TextTypes
    <3>2. CASE RunText(text)
      BY <2>2, <2>4, <3>1, <3>2, RunTextTypes DEF LineTypes
    <3>3. CASE UNCHANGED <<todo, cur, nxt, pc>>
      BY <2>4, <3>1, <3>3 DEF LineTypes, PcTypes
    <3> QED
      BY <2>4, <3>2, <3>3
  <2>7. ReadTypes'
    <3>1. stack' \in Seq(Frames) /\ Len(stack') = Len(stack) /\ stack' # <<>>
      BY <2>1, <2>3, <2>4, StackTypes DEF ReadTypes
    <3>2. pc' # "idle"
      BY <2>2, <2>4, RunTextTypes
    <3> QED
      BY <3>1, <3>2 DEF ReadTypes
  <2> QED
    BY <2>4, <2>5, <2>6, <2>7 DEF FileTypes
<1>4. CASE FgetsEnd
  <2> DEFINE file == Head(stack)
             read == [file EXCEPT !.eof = TRUE]
  <2>1. file \in Frames /\ stack # <<>>
    BY <1>4, StackTypes DEF FgetsEnd, ReadTypes
  <2>2. read \in Frames
    BY <2>1 DEF Frames
  <2>3. /\ stack' = <<read>> \o Tail(stack) /\ again' = TRUE
        /\ UNCHANGED heap /\ UNCHANGED <<files, line, out>> /\ pc = "read"
        /\ RunText(line) \/ UNCHANGED <<todo, cur, nxt, pc>>
    BY <1>4 DEF FgetsEnd
  <2>4. ListTypes'
    BY <2>3, WalkTypes DEF RunText
  <2>5. LineTypes' /\ PcTypes'
    <3>1. CASE RunText(line)
      BY <2>3, <3>1, RunTextTypes DEF LineTypes
    <3>2. CASE UNCHANGED <<todo, cur, nxt, pc>>
      BY <2>3, <3>2 DEF LineTypes, PcTypes
    <3> QED
      BY <2>3, <3>1, <3>2
  <2>6. ReadTypes'
    <3>1. stack' \in Seq(Frames) /\ Len(stack') = Len(stack) /\ stack' # <<>>
      BY <2>1, <2>2, <2>3, StackTypes DEF ReadTypes
    <3>2. pc' # "idle"
      BY <2>3, RunTextTypes DEF LineTypes
    <3> QED
      BY <3>1, <3>2 DEF ReadTypes
  <2> QED
    BY <2>3, <2>4, <2>5, <2>6 DEF FileTypes
<1>5. CASE FileEnd
  <2>1. stack # <<>> /\ UNCHANGED <<links, entry, cur, nxt, files, line, todo, again, out>>
    BY <1>5 DEF FileEnd, ReadTypes, heap
  <2>2. Tail(stack) \in Seq(Frames) /\ Len(Tail(stack)) = Len(stack) - 1 /\ Len(stack) \in Nat
    BY <2>1 DEF ReadTypes
  <2> DEFINE t == Tail(stack)
  <2>3. t = <<>> <=> Len(t) = 0
    <3>1. t \in Seq(Frames)
      BY <2>2
    <3> HIDE DEF t
    <3> QED
      BY <3>1, EmptySeq
  <2>4. ReadTypes' /\ PcTypes'
    BY <1>5, <2>2, <2>3, BoundAssumption DEF FileEnd, ReadTypes, PcTypes
  <2> QED
    BY <2>1, <2>4 DEF ListTypes, FileTypes, LineTypes, used
<1>6. ASSUME Done \/ Failed, ListTypes', FileTypes', LineTypes' PROVE TypeInv'
  BY <1>6, EndTypes
<1>7. CASE Load
  <2>1. UNCHANGED <<links, entry, cur, nxt, files, line, todo, again, out>>
    BY <1>7 DEF Load, heap
  <2>2. ListTypes' /\ FileTypes' /\ LineTypes'
    BY <2>1 DEF ListTypes, FileTypes, LineTypes, used
  <2>3. CASE Failed
    BY <1>6, <2>2, <2>3
  <2>4. CASE ~Failed
    <3>1. /\ todo.file \in DOMAIN files /\ Len(stack) < MaxOpen
          /\ stack' = <<Opened(files[todo.file])>> \o stack /\ pc' = "read"
      BY <1>7, <2>4 DEF Load
    <3>2. stack' \in Seq(Frames) /\ Len(stack') = Len(stack) + 1 /\ Len(stack) \in Nat
      BY <3>1, OpenTypes DEF FileTypes, ReadTypes
    <3>3. ReadTypes'
      BY <3>1, <3>2, BoundAssumption DEF ReadTypes
    <3> QED
      BY <2>2, <3>1, <3>3 DEF PcTypes
  <2> QED
    BY <2>3, <2>4
<1>8. CASE SendKey \/ Accept \/ Reject
  <2>1. UNCHANGED <<links, entry, cur, nxt, files, line, todo, again, out>> /\ (Done \/ Failed)
    BY <1>8 DEF SendKey, Accept, Reject, heap
  <2> QED
    BY <1>6, <2>1 DEF ListTypes, FileTypes, LineTypes, used
<1>9. CASE FindNext \/ InsertNext
  <2>1. ListTypes'
    BY <1>9, WalkTypes DEF FindNext, InsertNext
  <2> QED
    BY <1>9, <2>1 DEF FindNext, InsertNext, reader, FileTypes, ReadTypes, LineTypes, PcTypes
<1>10. CASE FindNothing
  <2>1. ListTypes' /\ UNCHANGED <<files, line, todo, again, out>>
    BY <1>10, WalkTypes DEF FindNothing
  <2>2. FileTypes' /\ LineTypes'
    BY <2>1 DEF FileTypes, LineTypes
  <2>3. CASE Failed
    BY <1>6, <2>1, <2>2, <2>3
  <2>4. CASE Maps(todo) /\ pc' = "insert" /\ UNCHANGED stack
    BY <2>1, <2>2, <2>4 DEF ReadTypes, PcTypes
  <2> QED
    BY <1>10, <2>3, <2>4 DEF FindNothing
<1>11. CASE RemoveFound
  <2>1. UNCHANGED <<nxt, files, line, todo, again, out>>
    BY <1>11 DEF RemoveFound
  <2>2. ListTypes'
    <3>1. IsRing(links', used')
      BY <1>11, RemoveInv DEF IInv
    <3>2. links' \in Links
      BY <3>1 DEF IsRing, Ring
    <3>3. cur' \in Places
      BY <1>11, <3>2 DEF RemoveFound, Links, Places
    <3>4. used' = used \ {cur} /\ \A n \in used' : entry'[n] = entry[n]
      BY <1>11 DEF RemoveFound, used
    <3> QED
      BY <2>1, <3>2, <3>3, <3>4 DEF ListTypes
  <2>3. FileTypes' /\ LineTypes'
    BY <2>1 DEF FileTypes, LineTypes
  <2>4. CASE Done
    BY <1>6, <2>2, <2>3, <2>4
  <2>5. CASE Maps(todo) /\ pc' = "insert" /\ UNCHANGED stack
    BY <2>1, <2>2, <2>3, <2>5 DEF ReadTypes, PcTypes
  <2> QED
    BY <1>11, <2>4, <2>5 DEF RemoveFound
<1>12. CASE InsertFails \/ ClearEnd
  <2>1. UNCHANGED <<links, entry, cur, nxt, files, line, todo, again, out>> /\ (Done \/ Failed)
    BY <1>12 DEF InsertFails, ClearEnd, heap
  <2> QED
    BY <1>6, <2>1 DEF ListTypes, FileTypes, LineTypes, used
<1>13. ASSUME NEW new \in Nodes, Insert(new) PROVE TypeInv'
  <2>1. UNCHANGED <<cur, nxt, files, line, todo, again, out>> /\ Done /\ pc = "insert"
    BY <1>13 DEF Insert
  <2>2. links' \in Links
    BY <1>13, InsertInv DEF IInv, IsRing, Ring
  <2>3. EntryOf(todo) \in Mappings
    BY <2>1, TextTypes DEF PcTypes, LineTypes
  <2>4. /\ used' = used \cup {new}
        /\ \A n \in used' : entry'[n] = IF n = new THEN EntryOf(todo) ELSE entry[n]
    BY <1>13 DEF Insert, used
  <2>5. ListTypes'
    BY <2>1, <2>2, <2>3, <2>4 DEF ListTypes
  <2> QED
    BY <1>6, <2>1, <2>5 DEF FileTypes, LineTypes
<1>14. CASE ClearNext
  <2>1. /\ UNCHANGED <<files, stack, line, todo, again, out, pc>> /\ pc = "clear" /\ cur' = nxt
        /\ nxt' = links'.next[nxt]
    BY <1>14 DEF ClearNext, reader
  <2>2. ListTypes'
    <3>1. links' \in Links
      BY <1>14, ClearInv DEF IInv, IsRing, Ring
    <3>2. used' = used \ {cur} /\ \A n \in used' : entry'[n] = entry[n]
      BY <1>14 DEF ClearNext, used
    <3>3. nxt' \in Places
      BY <2>1, <3>1 DEF ListTypes, Links
    <3> QED
      BY <2>1, <3>1, <3>2, <3>3 DEF ListTypes
  <2> QED
    BY <2>1, <2>2 DEF FileTypes, ReadTypes, LineTypes, PcTypes
<1>15. CASE SaveStart
  <2>1. UNCHANGED heap /\ UNCHANGED <<nxt, line, todo, again>> /\ cur' \in {cur, links.prev[head]}
    BY <1>15 DEF SaveStart
  <2>2. ListTypes'
    BY <2>1, WalkTypes
  <2>3. CASE Failed /\ UNCHANGED <<files, out>>
    BY <1>6, <2>1, <2>2, <2>3 DEF FileTypes, LineTypes
  <2>4. CASE ~(Failed /\ UNCHANGED <<files, out>>)
    <3>1. /\ pc = "line" /\ todo.op = "SAVE" /\ todo.file # NoFile
          /\ files' = [f \in DOMAIN files \cup {todo.file} |->
                         IF f = todo.file THEN [texts |-> <<>>, ended |-> TRUE] ELSE files[f]]
          /\ out' = <<Text("CLEAR")>> /\ pc' = "save" /\ UNCHANGED stack
      BY <1>15, <2>4 DEF SaveStart
    <3>2. todo.file \in FileNames
      BY <3>1 DEF LineTypes, Texts
    <3>3. [texts |-> <<>>, ended |-> TRUE] \in Files
      <4>1. <<>> \in Seq(Texts)
        OBVIOUS
      <4> QED
        BY <4>1 DEF Files
    <3>4. FileTypes' /\ todo.file \in DOMAIN files'
      BY <3>1, <3>2, <3>3 DEF FileTypes
    <3>5. Text("CLEAR") \in Texts
      BY TextTypes DEF Ops
    <3>6. LineTypes'
      BY <2>1, <3>1, <3>5 DEF LineTypes
    <3> QED
      BY <2>1, <2>2, <3>1, <3>4, <3>6 DEF ReadTypes, PcTypes
  <2> QED
    BY <2>3, <2>4
<1>16. CASE SaveNext
  <2>1. ListTypes'
    BY <1>16, WalkTypes DEF SaveNext
  <2>2. SavedText(entry[cur]) \in Texts
    <3>1. cur \in used
      BY <1>16 DEF SaveNext, IInv, NoDangling
    <3> QED
      BY <3>1, TextTypes DEF ListTypes
  <2>3. LineTypes'
    BY <1>16, <2>2 DEF SaveNext, LineTypes, reader
  <2> QED
    BY <1>16, <2>1, <2>3 DEF SaveNext, reader, FileTypes, ReadTypes, PcTypes
<1>17. CASE SaveEnd
  <2>1. UNCHANGED heap /\ UNCHANGED <<cur, nxt, line, todo, again>> /\ out' = <<>> /\ (Done \/ Failed)
    BY <1>17 DEF SaveEnd
  <2>2. ListTypes' /\ LineTypes'
    BY <2>1, WalkTypes DEF LineTypes
  <2>3. FileTypes'
    <3>1. [texts |-> out, ended |-> TRUE] \in Files
      BY DEF LineTypes, Files
    <3> QED
      BY <1>17, <3>1 DEF SaveEnd, FileTypes
  <2> QED
    BY <1>6, <2>1, <2>2, <2>3
<1>18. CASE UNCHANGED vars
  BY <1>18 DEF vars, ListTypes, FileTypes, ReadTypes, LineTypes, PcTypes, used
<1> QED
  BY <1>1, <1>2, <1>3, <1>4, <1>5, <1>7, <1>8, <1>9, <1>10, <1>11, <1>12, <1>13, <1>14, <1>15,
     <1>16, <1>17, <1>18
  DEF Next, Step, Read, Find, Place, Clear, Save

(***************************************************************************)
(* Every step finds pointers, mappings, files and a line of the form that  *)
(* it works on, and no more open files than there can be.                  *)
(***************************************************************************)
THEOREM TypeCorrect == Spec => []TypeOK
<1>1. TypeInv => TypeOK
  BY DEF TypeInv, TypeOK, ListTypes, FileTypes, ReadTypes, LineTypes, PcTypes, Frames
<1> QED
  BY <1>1, InvInit, TypeInit, InvNext, TypeNext, PTL DEF Spec

-----------------------------------------------------------------------------
(* The list as a sequence.                                                 *)

order == ForEach(links)

LEMMA OrderIs ==
    ASSUME IInv
    PROVE  /\ order \in Seq(Nodes) /\ Ring(links, used, order)
           /\ links \in Links /\ used \in SUBSET Nodes
           /\ Len(order) \in Nat
           /\ \A i \in 1..Len(order) : order[i] \in used /\ order[i] # head
           /\ Len(order) = Cardinality(used) /\ Len(order) <= Cardinality(Nodes)
<1>1. IsRing(links, used)
  BY DEF IInv
<1>2. links \in Links /\ used \in SUBSET Nodes
  BY <1>1 DEF IsRing
<1>3. PICK s \in Seq(Nodes) : Ring(links, used, s)
  BY <1>1 DEF IsRing
<1>4. order = s
  BY <1>2, <1>3, RingLoops DEF order
<1>5. \A i \in 1..Len(s) : s[i] \in used /\ s[i] # head
  BY <1>2, <1>3, HeadAssumption DEF Ring
<1>6. Len(s) = Cardinality(used) /\ Len(s) <= Cardinality(Nodes)
  BY <1>2, <1>3, RingLength
<1> QED
  BY <1>2, <1>3, <1>4, <1>5, <1>6

LEMMA ListedIs ==
    ASSUME IInv, ListTypes
    PROVE  /\ Listed \in Seq(Mappings) /\ Len(Listed) = Len(order)
           /\ \A i \in 1..Len(order) : Listed[i] = entry[order[i]]
<1>1. order \in Seq(Nodes) /\ \A i \in 1..Len(order) : order[i] \in used
  BY OrderIs
<1>2. Listed = [i \in 1..Len(order) |-> entry[order[i]]]
  BY <1>1 DEF Listed, ListOf, order
<1>3. \A i \in 1..Len(order) : entry[order[i]] \in Mappings
  BY <1>1 DEF ListTypes
<1> QED
  BY <1>1, <1>2, <1>3

\* The list after a step, from its ring.
LEMMA ListedAfter ==
    ASSUME NEW s \in Seq(Nodes), links' \in Links, used' \in SUBSET Nodes, Ring(links', used', s)
    PROVE  /\ order' = s
           /\ Listed' = [i \in 1..Len(s) |-> entry'[s[i]]]
<1>1. ForEach(links') = s
  BY RingLoops
<1> QED
  BY <1>1 DEF order, Listed, ListOf

\* Where the list is as it was.
LEMMA ListedSame ==
    ASSUME UNCHANGED heap
    PROVE  order' = order /\ Listed' = Listed /\ used' = used
BY DEF heap, order, Listed, ListOf, used

(***************************************************************************)
(* Freeing the k-th node removes the k-th mapping, and a node that is linked *)
(* behind the k-th place inserts one there.                                *)
(***************************************************************************)
LEMMA ListedRemove ==
    ASSUME IInv, ListTypes, NEW k \in 1..Len(order), cur = order[k],
           links' = ListDelete(links, cur), entry' = [n \in used \ {cur} |-> entry[n]]
    PROVE  /\ order' = RemoveAt(order, k)
           /\ Listed' = RemoveMapping(Listed, k)
           /\ used' = used \ {cur} /\ cur \in used
           /\ Len(order') = Len(order) - 1
<1>1. /\ order \in Seq(Nodes) /\ Ring(links, used, order)
      /\ links \in Links /\ used \in SUBSET Nodes /\ Len(order) \in Nat
      /\ \A i \in 1..Len(order) : order[i] \in used /\ order[i] # head
  BY OrderIs
<1>2. used' = used \ {cur} /\ cur \in used
  BY <1>1 DEF used
<1> DEFINE s == RemoveAt(order, k)
<1>3. links' \in Links /\ s \in Seq(Nodes) /\ Ring(links', used', s)
  BY <1>1, <1>2, RingDeleteAt
<1>4. /\ Len(s) = Len(order) - 1
      /\ \A j \in 1..Len(order) - 1 : s[j] = IF j < k THEN order[j] ELSE order[j + 1]
  BY <1>1, RemoveAtFacts
<1>5. Listed \in Seq(Mappings) /\ Len(Listed) = Len(order) /\ \A i \in 1..Len(order) : Listed[i] = entry[order[i]]
  BY ListedIs
<1> DEFINE t == RemoveMapping(Listed, k)
<1>6. /\ t \in Seq(Mappings) /\ Len(t) = Len(order) - 1
      /\ \A j \in 1..Len(order) - 1 : t[j] = IF j < k THEN Listed[j] ELSE Listed[j + 1]
  <2>1. Listed \in Seq(Mappings) /\ k \in 1..Len(Listed) /\ Len(Listed) = Len(order)
    BY <1>5
  <2>2. t = RemoveAt(Listed, k)
    BY DEF RemoveMapping
  <2> HIDE DEF t
  <2>3. t \in Seq(Mappings) /\ Len(t) = Len(Listed) - 1
    BY <2>1, <2>2, RemoveAtFacts
  <2>4. \A j \in 1..Len(Listed) - 1 : t[j] = IF j < k THEN Listed[j] ELSE Listed[j + 1]
    BY <2>1, <2>2, RemoveAtFacts
  <2> QED
    BY <2>1, <2>3, <2>4
<1> HIDE DEF s, t
<1>7. order' = s /\ Listed' = [i \in 1..Len(s) |-> entry'[s[i]]]
  BY <1>2, <1>1, <1>3, ListedAfter
<1>8. \A j \in 1..Len(order) - 1 : entry'[s[j]] = t[j]
  <2> SUFFICES ASSUME NEW j \in 1..Len(order) - 1 PROVE entry'[s[j]] = t[j]
    OBVIOUS
  <2>1. s[j] \in used'
    BY <1>3, <1>4 DEF Ring
  <2>2. entry'[s[j]] = entry[s[j]]
    BY <1>2, <2>1
  <2>3. j \in 1..Len(order) /\ j + 1 \in 1..Len(order)
    BY <1>1
  <2> QED
    BY <1>4, <1>5, <1>6, <2>2, <2>3
<1>9. Listed' = t
  <2> DEFINE n == Len(order) - 1
             f == [i \in 1..n |-> entry'[s[i]]]
  <2>1. n \in Nat /\ Listed' = f
    BY <1>1, <1>4, <1>7
  <2>2. f = [i \in 1..n |-> f[i]] /\ \A i \in 1..n : f[i] = t[i]
    BY <1>8
  <2> HIDE DEF f, n
  <2>3. t \in Seq(Mappings) /\ Len(t) = n
    BY <1>6 DEF n
  <2>4. f = t
    BY <2>1, <2>2, <2>3, SeqEqual
  <2> QED
    BY <2>1, <2>4
<1> QED
  BY <1>2, <1>4, <1>7, <1>9 DEF s, t

LEMMA ListedInsert ==
    ASSUME IInv, ListTypes, NEW k \in 0..Len(order), NEW new \in Nodes \ used, NEW e \in Mappings,
           links' = ListAddBetween(links, new, At(order, k), At(order, k + 1)),
           entry' = [n \in used \cup {new} |-> IF n = new THEN e ELSE entry[n]]
    PROVE  Listed' = InsertAt(Listed, k + 1, e)
<1>1. /\ order \in Seq(Nodes) /\ Ring(links, used, order)
      /\ links \in Links /\ used \in SUBSET Nodes /\ Len(order) \in Nat
      /\ \A i \in 1..Len(order) : order[i] \in used /\ order[i] # head
  BY OrderIs
<1>2. used' = used \cup {new} /\ used' \in SUBSET Nodes
  BY <1>1 DEF used
<1> DEFINE s == InsertAt(order, k + 1, new)
<1>3. links' \in Links /\ s \in Seq(Nodes) /\ Ring(links', used', s)
  BY <1>1, <1>2, RingAddAt
<1>4. PICK p \in 1..Len(order) + 1 : p = k + 1
  BY <1>1
<1>5. Len(InsertAt(order, p, new)) = Len(order) + 1
  BY <1>1, InsertAtFacts
<1>6. \A j \in 1..Len(order) + 1 :
        InsertAt(order, p, new)[j] =
            IF j < p THEN order[j] ELSE IF j = p THEN new ELSE order[j - 1]
  BY <1>1, InsertAtElement
<1>7. /\ Listed \in Seq(Mappings) /\ Len(Listed) = Len(order)
      /\ \A i \in 1..Len(order) : Listed[i] = entry[order[i]]
  BY ListedIs
<1> DEFINE t == InsertAt(Listed, p, e)
<1>8. p \in 1..Len(Listed) + 1
  BY <1>7
<1>9. t \in Seq(Mappings) /\ Len(t) = Len(Listed) + 1
  <2>1. PICK l \in Seq(Mappings) : l = Listed
    BY <1>7
  <2>2. p \in 1..Len(l) + 1
    BY <1>8, <2>1
  <2>3. InsertAt(l, p, e) \in Seq(Mappings)
    BY <2>2, InsertAtFacts
  <2>4. Len(InsertAt(l, p, e)) = Len(l) + 1
    BY <2>2, InsertAtFacts
  <2> QED
    BY <2>1, <2>3, <2>4
<1>10. \A j \in 1..Len(Listed) + 1 :
         t[j] = IF j < p THEN Listed[j] ELSE IF j = p THEN e ELSE Listed[j - 1]
  <2>1. PICK l \in Seq(Mappings) : l = Listed
    BY <1>7
  <2>2. p \in 1..Len(l) + 1
    BY <1>8, <2>1
  <2>3. \A j \in 1..Len(l) + 1 :
          InsertAt(l, p, e)[j] =
              IF j < p THEN l[j] ELSE IF j = p THEN e ELSE l[j - 1]
    BY <2>2, InsertAtElement
  <2> QED
    BY <2>1, <2>3
<1>11. s = InsertAt(order, p, new) /\ InsertAt(Listed, k + 1, e) = t
  BY <1>4
<1> HIDE DEF s, t
<1>12. Listed' = [i \in 1..Len(s) |-> entry'[s[i]]]
  BY <1>2, <1>3, ListedAfter
<1>13. ASSUME NEW j \in 1..Len(order) + 1 PROVE entry'[s[j]] = t[j]
  <2>1. CASE j < p
    <3>1. j \in 1..Len(order) /\ s[j] = order[j] /\ t[j] = Listed[j]
      BY <1>1, <1>6, <1>7, <1>10, <1>11, <2>1
    <3>2. order[j] \in used /\ Listed[j] = entry[order[j]]
      BY <1>1, <1>7, <3>1
    <3> QED
      BY <3>1, <3>2
  <2>2. CASE j = p
    <3>1. s[j] = new /\ t[j] = e
      BY <1>6, <1>7, <1>10, <1>11, <2>2
    <3> QED
      BY <3>1
  <2>3. CASE j > p
    <3>1. PICK i \in 1..Len(order) : i = j - 1
      BY <1>1, <2>3
    <3>2. s[j] = order[i] /\ t[j] = Listed[i]
      BY <1>6, <1>7, <1>10, <1>11, <2>3, <3>1
    <3>3. order[i] \in used /\ Listed[i] = entry[order[i]]
      BY <1>1, <1>7, <3>1
    <3> QED
      BY <3>2, <3>3
  <2> QED
    BY <2>1, <2>2, <2>3
<1>14. Listed' = t
  <2> DEFINE n == Len(order) + 1
             f == [i \in 1..n |-> entry'[s[i]]]
  <2>1. n \in Nat /\ Listed' = f
    BY <1>1, <1>5, <1>11, <1>12
  <2>2. f = [i \in 1..n |-> f[i]] /\ \A i \in 1..n : f[i] = t[i]
    BY <1>13
  <2> HIDE DEF f, n
  <2>3. Len(t) = n
    BY <1>7, <1>9 DEF n
  <2>4. f = t
    BY <1>9, <2>1, <2>2, <2>3, SeqEqual
  <2> QED
    BY <2>1, <2>4
<1> QED
  BY <1>11, <1>14

\* Where the loops are: find_mapping has passed only mappings with other
\* buttons, insert_mapping, which begins when there is none with the same
\* buttons, only mappings with more of them, and clear_mapping_list is at the
\* first one.
FindPlace ==
    \E k \in 1..Len(order) + 1 :
        cur = At(order, k) /\ \A i \in 1..k - 1 : Listed[i].mask # todo.mask
InsertPlace ==
    /\ \A i \in 1..Len(Listed) : Listed[i].mask # todo.mask
    /\ \E k \in 1..Len(order) + 1 :
          cur = At(order, k) /\ \A i \in 1..k - 1 : Listed[i].bits > todo.bits
LoopInv ==
    /\ pc = "find" => FindPlace
    /\ pc = "insert" => InsertPlace
    /\ pc = "clear" => cur = links.next[head]
    /\ Unique(Listed)

StoreInv == IInv /\ TypeInv /\ LoopInv

\* The places of the list, and the pointers between them.
LEMMA AtHead ==
    ASSUME IInv, NEW k \in 1..Len(order) + 1
    PROVE  /\ k <= Len(order) => At(order, k) = order[k] /\ At(order, k) # head
           /\ k > Len(order) => At(order, k) = head
           /\ k <= Len(order) => links.next[At(order, k)] = At(order, k + 1)
           /\ links.prev[At(order, k)] = At(order, k - 1)
           /\ links.next[head] = At(order, 1)
           /\ k <= Len(order) => k + 1 \in 1..Len(order) + 1
<1>1. /\ order \in Seq(Nodes) /\ Ring(links, used, order) /\ Len(order) \in Nat
      /\ \A i \in 1..Len(order) : order[i] # head
  BY OrderIs
<1>2. \A i \in 0..Len(order) : /\ links.next[At(order, i)] = At(order, i + 1)
                               /\ links.prev[At(order, i + 1)] = At(order, i)
  BY <1>1 DEF Ring
<1>3. (k <= Len(order) => k \in 0..Len(order)) /\ 0 \in 0..Len(order) /\ At(order, 0) = head
  BY <1>1 DEF At
<1>4. PICK j \in 0..Len(order) : k = j + 1 /\ j = k - 1
  BY <1>1
<1>5. links.prev[At(order, k)] = At(order, k - 1)
  BY <1>2, <1>4
<1>6. links.next[head] = At(order, 1)
  BY <1>2, <1>3
<1>7. k <= Len(order) => links.next[At(order, k)] = At(order, k + 1)
  BY <1>2, <1>3
<1>8. k <= Len(order) => At(order, k) = order[k] /\ order[k] # head
  BY <1>1 DEF At
<1>9. k > Len(order) => At(order, k) = head
  BY <1>1 DEF At
<1> QED
  BY <1>1, <1>5, <1>6, <1>7, <1>8, <1>9

(***************************************************************************)
(* What each step of the loops makes of the sequence.                      *)
(***************************************************************************)
LEMMA FindNothingList ==
    ASSUME StoreInv, FindNothing
    PROVE  /\ FindMapping(Listed, todo.mask) = 0
           /\ \A i \in 1..Len(Listed) : Listed[i].mask # todo.mask
<1>1. PICK k \in 1..Len(order) + 1 :
        cur = At(order, k) /\ \A i \in 1..k - 1 : Listed[i].mask # todo.mask
  BY DEF StoreInv, LoopInv, FindPlace, FindNothing
<1>2. Listed \in Seq(Mappings) /\ Len(Listed) = Len(order) /\ Len(order) \in Nat
  BY ListedIs, OrderIs DEF StoreInv, TypeInv
<1>3. k = Len(order) + 1
  BY <1>1, <1>2, AtHead DEF StoreInv, FindNothing
<1>4. k \in 1..Len(Listed) + 1 /\ ~(k <= Len(Listed))
  BY <1>2, <1>3
<1>5. \A i \in 1..Len(Listed) : Listed[i].mask # todo.mask
  BY <1>1, <1>2, <1>3
<1>6. FindMapping(Listed, todo.mask) = 0
  BY <1>1, <1>2, <1>4, FindMappingIs
<1> QED
  BY <1>5, <1>6

LEMMA RemoveFoundList ==
    ASSUME StoreInv, RemoveFound
    PROVE  \E k \in 1..Len(order) :
              /\ cur = order[k] /\ FindMapping(Listed, todo.mask) = k
              /\ Listed[k].mask = todo.mask
              /\ Listed' = RemoveMapping(Listed, k)
              /\ Len(order') = Len(order) - 1
<1>1. PICK k \in 1..Len(order) + 1 :
        cur = At(order, k) /\ \A i \in 1..k - 1 : Listed[i].mask # todo.mask
  BY DEF StoreInv, LoopInv, FindPlace, RemoveFound, matched
<1>2. /\ Listed \in Seq(Mappings) /\ Len(Listed) = Len(order) /\ Len(order) \in Nat
      /\ \A i \in 1..Len(order) : Listed[i] = entry[order[i]]
  BY ListedIs, OrderIs DEF StoreInv, TypeInv
<1>3. cur # head /\ entry[cur].mask = todo.mask
  BY DEF RemoveFound, matched
<1>4. k \in 1..Len(order) /\ cur = order[k]
  BY <1>1, <1>2, <1>3, AtHead DEF StoreInv
<1>5. Listed[k].mask = todo.mask
  BY <1>2, <1>3, <1>4
<1>6. k \in 1..Len(Listed) + 1 /\ k <= Len(Listed)
  BY <1>2, <1>4
<1>7. FindMapping(Listed, todo.mask) = k
  BY <1>1, <1>2, <1>5, <1>6, FindMappingIs
<1>8. Listed' = RemoveMapping(Listed, k) /\ Len(order') = Len(order) - 1
  BY <1>4, ListedRemove DEF StoreInv, TypeInv, RemoveFound
<1> QED
  BY <1>4, <1>5, <1>7, <1>8

LEMMA InsertList ==
    ASSUME StoreInv, NEW new \in Nodes, Insert(new)
    PROVE  /\ Listed' = InsertMapping(Listed, EntryOf(todo))
           /\ EntryOf(todo) \in Mappings /\ EntryOf(todo).mask = todo.mask
           /\ \A i \in 1..Len(Listed) : Listed[i].mask # todo.mask
           /\ used # Nodes
<1>1. PICK k \in 1..Len(order) + 1 :
        cur = At(order, k) /\ \A i \in 1..k - 1 : Listed[i].bits > todo.bits
  BY DEF StoreInv, LoopInv, InsertPlace, Insert
<1>2. \A i \in 1..Len(Listed) : Listed[i].mask # todo.mask
  BY DEF StoreInv, LoopInv, InsertPlace, Insert
<1>3. /\ Listed \in Seq(Mappings) /\ Len(Listed) = Len(order) /\ Len(order) \in Nat
      /\ \A i \in 1..Len(order) : Listed[i] = entry[order[i]]
  BY ListedIs, OrderIs DEF StoreInv, TypeInv
<1> DEFINE e == EntryOf(todo)
<1>4. Maps(todo) /\ todo \in Texts
  BY DEF StoreInv, TypeInv, PcTypes, LineTypes, Insert
<1>5. e \in Mappings
  BY <1>4, TextTypes
<1>6. e.mask = todo.mask /\ e.bits = todo.bits /\ todo.bits \in Nat
  BY <1>4 DEF EntryOf, NewMapping, Texts
<1> HIDE DEF e
<1>7. new \in Nodes \ used
  BY DEF Insert
<1>8. \A i \in 1..Len(Listed) : Listed[i].bits \in Nat
  <2> SUFFICES ASSUME NEW i \in 1..Len(Listed) PROVE Listed[i].bits \in Nat
    OBVIOUS
  <2>1. Listed[i] \in Mappings
    BY <1>3
  <2> QED
    BY <2>1 DEF Mappings
<1>9. k \in 1..Len(Listed) + 1
  BY <1>3
<1>10. entry' = [n \in used \cup {new} |-> IF n = new THEN e ELSE entry[n]]
  BY DEF Insert, e
<1>11. CASE k <= Len(order)
  <2>1. cur # head /\ cur = order[k]
    BY <1>1, <1>11, AtHead DEF StoreInv
  <2>2. Listed[k].bits <= todo.bits
    BY <1>3, <1>11, <2>1 DEF Insert
  <2>3. InsertPosition(Listed, todo.bits) = k
    BY <1>1, <1>3, <1>6, <1>8, <1>9, <1>11, <2>2, InsertPositionIs
  <2>4. PICK j \in 0..Len(order) : j = k - 1 /\ k = j + 1
    BY <1>3
  <2>5. links' = ListAddBetween(links, new, At(order, j), At(order, j + 1))
    BY <1>1, <2>1, <2>4, AtHead DEF StoreInv, Insert
  <2>6. Listed' = InsertAt(Listed, j + 1, e)
    BY <1>5, <1>7, <1>10, <2>5, ListedInsert DEF StoreInv, TypeInv
  <2>7. Listed' = InsertMapping(Listed, e)
    BY <1>6, <2>3, <2>4, <2>6 DEF InsertMapping
  <2> QED
    BY <1>2, <1>5, <1>6, <1>7, <2>7 DEF e
<1>12. CASE ~(k <= Len(order))
  <2>1. cur = head
    BY <1>1, <1>3, <1>12, AtHead DEF StoreInv
  <2>2. InsertPosition(Listed, todo.bits) = 1
    BY <1>1, <1>3, <1>6, <1>8, <1>9, <1>12, InsertPositionIs
  <2>3. PICK j \in 0..Len(order) : j = 0
    BY <1>3
  <2>4. links.next[head] = At(order, 1) /\ At(order, 0) = head
    BY AtHead DEF StoreInv, At
  <2>5. links' = ListAddBetween(links, new, At(order, j), At(order, j + 1))
    BY <2>1, <2>3, <2>4 DEF Insert, ListAdd
  <2>6. Listed' = InsertAt(Listed, j + 1, e)
    BY <1>5, <1>7, <1>10, <2>5, ListedInsert DEF StoreInv, TypeInv
  <2>7. Listed' = InsertMapping(Listed, e)
    BY <1>6, <2>2, <2>3, <2>6 DEF InsertMapping
  <2> QED
    BY <1>2, <1>5, <1>6, <1>7, <2>7 DEF e
<1> QED
  BY <1>11, <1>12

LEMMA ClearNextList ==
    ASSUME StoreInv, ClearNext
    PROVE  /\ 1 \in DOMAIN Listed /\ Listed' = RemoveMapping(Listed, 1)
           /\ cur' = links'.next[head]
<1>1. cur = links.next[head] /\ cur # head /\ nxt = links.next[cur]
  BY DEF StoreInv, LoopInv, IInv, NoDangling, ClearNext
<1>2. /\ Listed \in Seq(Mappings) /\ Len(Listed) = Len(order) /\ Len(order) \in Nat
  BY ListedIs, OrderIs DEF StoreInv, TypeInv
<1>3. cur = At(order, 1)
  <2>1. 1 \in 1..Len(order) + 1 /\ IInv
    BY <1>2 DEF StoreInv
  <2> QED
    BY <1>1, <2>1, AtHead
<1>4. 1 \in 1..Len(order) /\ cur = order[1]
  BY <1>1, <1>2, <1>3 DEF At
<1>5. Listed' = RemoveMapping(Listed, 1)
  BY <1>4, ListedRemove DEF StoreInv, TypeInv, ClearNext
<1>6. cur' = links'.next[head]
  <2>1. links.prev[cur] = head
    BY <1>1, RingSteps DEF StoreInv, IInv
  <2>2. links'.next = [links.next EXCEPT ![head] = nxt]
    BY <1>1, <2>1 DEF ClearNext, ListDelete
  <2>3. links'.next[head] = nxt
    BY <2>2 DEF StoreInv, TypeInv, ListTypes, Links, Places
  <2> QED
    BY <2>3 DEF ClearNext
<1> QED
  BY <1>2, <1>4, <1>5, <1>6

LEMMA ClearEndList ==
    ASSUME StoreInv, ClearEnd
    PROVE  Listed = <<>>
<1>1. cur = links.next[head] /\ cur = head
  BY DEF StoreInv, LoopInv, ClearEnd
<1>2. Listed \in Seq(Mappings) /\ Len(Listed) = Len(order) /\ Len(order) \in Nat
  BY ListedIs, OrderIs DEF StoreInv, TypeInv
<1>3. PICK k \in 1..Len(order) + 1 : k = 1
  BY <1>2
<1>4. Len(order) = 0
  <2>1. links.next[head] = At(order, 1) /\ (k <= Len(order) => At(order, k) # head)
    BY AtHead DEF StoreInv
  <2>2. At(order, k) = head
    BY <1>1, <1>3, <2>1
  <2>3. ~(k <= Len(order))
    BY <2>1, <2>2
  <2> QED
    BY <1>2, <1>3, <2>3
<1> QED
  BY <1>2, <1>4

LEMMA FirstList ==
    ASSUME links' = InitList, entry' = <<>>
    PROVE  Listed' = <<>> /\ used' = {} /\ order' = <<>>
<1>1. IsRing(links', used') /\ used' = {}
  BY RingInit DEF used
<1>2. Ring(links', used', <<>>) /\ links' \in Links
  <2>1. PICK s \in Seq(Nodes) : Ring(links', used', s)
    BY <1>1 DEF IsRing
  <2>2. s = <<>>
    BY <1>1, <2>1 DEF Ring
  <2> QED
    BY <1>1, <2>1, <2>2 DEF IsRing
<1>3. <<>> \in Seq(Nodes) /\ used' \in SUBSET Nodes
  BY <1>1
<1>4. order' = <<>> /\ Listed' = [i \in 1..Len(<<>>) |-> entry'[<<>>[i]]]
  BY <1>2, <1>3, ListedAfter
<1> QED
  BY <1>1, <1>4

LEMMA ListedInit == Init => Listed = <<>>
<1> SUFFICES ASSUME Init PROVE Listed = <<>>
  OBVIOUS
<1>1. used = {} /\ IInv /\ ListTypes
  BY InvInit, TypeInit DEF Init, used, TypeInv
<1>2. Listed \in Seq(Mappings) /\ Len(Listed) = Len(order)
  BY <1>1, ListedIs
<1>3. Len(order) \in Nat /\ \A i \in 1..Len(order) : order[i] \in used
  BY <1>1, OrderIs
<1> QED
  BY <1>1, <1>2, <1>3

LEMMA LoopInit == Init => LoopInv
<1> SUFFICES ASSUME Init PROVE LoopInv
  OBVIOUS
<1>1. Unique(Listed)
  BY ListedInit DEF Unique
<1> QED
  BY <1>1 DEF Init, LoopInv

\* A loop begins at the first place.
LEMMA FirstPlace ==
    ASSUME StoreInv, UNCHANGED heap, cur' = links.next[head]
    PROVE  /\ FindPlace'
           /\ (\A i \in 1..Len(Listed) : Listed[i].mask # todo'.mask) => InsertPlace'
<1>1. order' = order /\ Listed' = Listed
  BY ListedSame
<1>2. Len(order) \in Nat
  BY OrderIs DEF StoreInv
<1>3. PICK k \in 1..Len(order) + 1 : k = 1
  BY <1>2
<1>4. cur' = At(order', k)
  BY <1>1, <1>3, AtHead DEF StoreInv
<1>5. \A i \in 1..k - 1 : FALSE
  BY <1>3
<1>6. k \in 1..Len(order') + 1
  BY <1>1
<1> QED
  BY <1>1, <1>4, <1>5, <1>6 DEF FindPlace, InsertPlace

LEMMA RunTextLoop ==
    ASSUME StoreInv, NEW text, RunText(text), UNCHANGED heap
    PROVE  LoopInv'
<1>1. cur' = links.next[head] /\ pc' # "insert" /\ links' = links /\ Listed' = Listed
  BY ListedSame DEF RunText, heap
<1>2. FindPlace'
  BY <1>1, FirstPlace
<1> QED
  BY <1>1, <1>2 DEF LoopInv, StoreInv

\* A loop that has passed one more mapping.
LEMMA NextPlace ==
    ASSUME StoreInv, UNCHANGED heap, todo' = todo, cur # head, cur' = links.next[cur]
    PROVE  /\ FindPlace /\ entry[cur].mask # todo.mask => FindPlace'
           /\ InsertPlace /\ entry[cur].bits > todo.bits => InsertPlace'
<1>1. order' = order /\ Listed' = Listed
  BY ListedSame
<1>2. /\ Listed \in Seq(Mappings) /\ Len(Listed) = Len(order) /\ Len(order) \in Nat
      /\ \A i \in 1..Len(order) : Listed[i] = entry[order[i]]
  BY ListedIs, OrderIs DEF StoreInv, TypeInv
<1>3. ASSUME NEW k \in 1..Len(order) + 1, cur = At(order, k)
      PROVE  /\ k \in 1..Len(order) /\ Listed[k] = entry[cur]
             /\ k + 1 \in 1..Len(order) + 1 /\ cur' = At(order, k + 1)
  <2>1. k \in 1..Len(order) /\ cur = order[k]
    BY <1>2, <1>3, AtHead DEF StoreInv
  <2>2. cur' = At(order, k + 1) /\ k + 1 \in 1..Len(order) + 1
    BY <1>2, <1>3, <2>1, AtHead DEF StoreInv
  <2> QED
    BY <1>2, <2>1, <2>2
<1>4. ASSUME FindPlace, entry[cur].mask # todo.mask PROVE FindPlace'
  <2>1. PICK k \in 1..Len(order) + 1 :
          cur = At(order, k) /\ \A i \in 1..k - 1 : Listed[i].mask # todo.mask
    BY <1>4 DEF FindPlace
  <2>2. PICK j \in 1..Len(order) + 1 : j = k + 1
    BY <1>3, <2>1
  <2>3. cur' = At(order', j)
    BY <1>1, <1>3, <2>1, <2>2
  <2>4. \A i \in 1..j - 1 : Listed'[i].mask # todo'.mask
    <3>1. Listed[k].mask # todo.mask
      BY <1>3, <1>4, <2>1
    <3> QED
      BY <1>1, <2>1, <2>2, <3>1
  <2>5. j \in 1..Len(order') + 1
    BY <1>1
  <2> QED
    BY <2>3, <2>4, <2>5 DEF FindPlace
<1>5. ASSUME InsertPlace, entry[cur].bits > todo.bits PROVE InsertPlace'
  <2>1. PICK k \in 1..Len(order) + 1 :
          cur = At(order, k) /\ \A i \in 1..k - 1 : Listed[i].bits > todo.bits
    BY <1>5 DEF InsertPlace
  <2>2. PICK j \in 1..Len(order) + 1 : j = k + 1
    BY <1>3, <2>1
  <2>3. cur' = At(order', j)
    BY <1>1, <1>3, <2>1, <2>2
  <2>4. \A i \in 1..j - 1 : Listed'[i].bits > todo'.bits
    <3>1. Listed[k].bits > todo.bits
      BY <1>3, <1>5, <2>1
    <3> QED
      BY <1>1, <2>1, <2>2, <3>1
  <2>5. j \in 1..Len(order') + 1
    BY <1>1
  <2>6. \A i \in 1..Len(Listed') : Listed'[i].mask # todo'.mask
    BY <1>1, <1>5 DEF InsertPlace
  <2> QED
    BY <2>3, <2>4, <2>5, <2>6 DEF InsertPlace
<1> QED
  BY <1>4, <1>5

\* The first place of a ring.
LEMMA RingFirst ==
    ASSUME NEW pointers, NEW nodes, IsRing(pointers, nodes)
    PROVE  /\ Len(ForEach(pointers)) \in Nat
           /\ pointers.next[head] = At(ForEach(pointers), 1)
<1>1. pointers \in Links /\ nodes \in SUBSET Nodes
  BY DEF IsRing
<1>2. PICK s \in Seq(Nodes) : Ring(pointers, nodes, s)
  BY DEF IsRing
<1>3. ForEach(pointers) = s
  BY <1>1, <1>2, RingLoops
<1>4. 0 \in 0..Len(s) /\ At(s, 0) = head /\ Len(s) \in Nat
  BY DEF At
<1> QED
  BY <1>2, <1>3, <1>4 DEF Ring

LEMMA RemoveLoop ==
    ASSUME StoreInv, RemoveFound, IInv', TypeInv'
    PROVE  LoopInv'
<1>1. PICK k \in 1..Len(order) :
        /\ cur = order[k] /\ Listed[k].mask = todo.mask
        /\ Listed' = RemoveMapping(Listed, k)
  BY RemoveFoundList
<1>2. Listed \in Seq(Mappings) /\ k \in 1..Len(Listed) /\ Unique(Listed)
  BY ListedIs DEF StoreInv, TypeInv, LoopInv
<1>3. Unique(Listed') /\ \A i \in 1..Len(Listed') : Listed'[i].mask # todo.mask
  <2> DEFINE new == RemoveMapping(Listed, k)
  <2>1. Unique(new) /\ \A j \in 1..Len(new) : new[j].mask # Listed[k].mask
    BY <1>2, RemoveMappingFacts
  <2> HIDE DEF new
  <2>2. Listed' = new
    BY <1>1 DEF new
  <2> QED
    BY <1>1, <2>1, <2>2
<1>4. todo' = todo /\ cur' = links'.next[head] /\ pc' \notin {"find", "clear"}
  BY DEF RemoveFound, Done, matched
<1>5. InsertPlace'
  <2>1. Len(order') \in Nat /\ links'.next[head] = At(order', 1)
    BY RingFirst DEF IInv, order
  <2>2. PICK j \in 1..Len(order') + 1 : j = 1
    BY <2>1
  <2>3. cur' = At(order', j) /\ \A i \in 1..j - 1 : FALSE
    BY <1>4, <2>1, <2>2
  <2> QED
    BY <1>3, <1>4, <2>3 DEF InsertPlace
<1> QED
  BY <1>3, <1>4, <1>5 DEF LoopInv

LEMMA InsertLoop ==
    ASSUME StoreInv, NEW new \in Nodes, Insert(new)
    PROVE  LoopInv'
<1>1. /\ Listed' = InsertMapping(Listed, EntryOf(todo))
      /\ EntryOf(todo) \in Mappings /\ EntryOf(todo).mask = todo.mask
      /\ \A i \in 1..Len(Listed) : Listed[i].mask # todo.mask
  BY InsertList
<1>2. Listed \in Seq(Mappings) /\ Unique(Listed)
  BY ListedIs DEF StoreInv, TypeInv, LoopInv
<1>3. Unique(Listed')
  BY <1>1, <1>2, InsertMappingFacts
<1>4. pc' \notin {"find", "insert", "clear"}
  BY DEF Insert, Done
<1> QED
  BY <1>3, <1>4 DEF LoopInv

LEMMA ClearLoop ==
    ASSUME StoreInv, ClearNext
    PROVE  LoopInv'
<1>1. 1 \in DOMAIN Listed /\ Listed' = RemoveMapping(Listed, 1) /\ cur' = links'.next[head]
  BY ClearNextList
<1>2. Listed \in Seq(Mappings) /\ Unique(Listed)
  BY ListedIs DEF StoreInv, TypeInv, LoopInv
<1>3. PICK k \in 1..Len(Listed) : k = 1
  BY <1>1, <1>2
<1>4. Unique(Listed')
  BY <1>1, <1>2, <1>3, RemoveMappingFacts
<1> QED
  BY <1>1, <1>4 DEF LoopInv, ClearNext

(***************************************************************************)
(* Every step keeps the places of the loops, and masks unique.             *)
(***************************************************************************)
LEMMA StoreNext ==
    ASSUME StoreInv, [Next]_vars
    PROVE  StoreInv'
<1>1. IInv' /\ TypeInv'
  BY InvNext, TypeNext DEF StoreInv
<1>2. CASE UNCHANGED heap /\ pc' \notin {"find", "insert", "clear"}
  <2>1. Listed' = Listed
    BY <1>2, ListedSame
  <2> QED
    BY <1>1, <1>2, <2>1 DEF StoreInv, LoopInv
<1>3. CASE UNCHANGED heap /\ \E text : RunText(text)
  BY <1>1, <1>3, RunTextLoop DEF StoreInv
<1>4. CASE UNCHANGED heap /\ UNCHANGED <<cur, todo, pc>>
  <2>1. order' = order /\ Listed' = Listed /\ links' = links
    BY <1>4, ListedSame DEF heap
  <2>2. LoopInv'
    BY <1>4, <2>1 DEF StoreInv, LoopInv, FindPlace, InsertPlace
  <2> QED
    BY <1>1, <2>2 DEF StoreInv
<1>5. CASE Crash
  <2>1. Listed' = <<>> /\ pc' = "read"
    BY <1>5, FirstList DEF Crash
  <2> QED
    BY <1>1, <2>1 DEF StoreInv, LoopInv, Unique
<1>6. CASE FindNext
  <2>1. FindPlace' /\ Listed' = Listed /\ pc' = "find"
    BY <1>6, NextPlace, ListedSame DEF FindNext, matched, StoreInv, LoopInv
  <2> QED
    BY <1>1, <2>1 DEF StoreInv, LoopInv
<1>7. CASE FindNothing
  <2>1. InsertPlace' /\ Listed' = Listed
    BY <1>7, FirstPlace, FindNothingList, ListedSame DEF FindNothing
  <2>2. pc' \notin {"find", "clear"}
    BY <1>7 DEF FindNothing, Failed
  <2> QED
    BY <1>1, <2>1, <2>2 DEF StoreInv, LoopInv
<1>8. CASE InsertNext
  <2>1. InsertPlace' /\ Listed' = Listed /\ pc' = "insert"
    BY <1>8, NextPlace, ListedSame DEF InsertNext, StoreInv, LoopInv
  <2> QED
    BY <1>1, <2>1 DEF StoreInv, LoopInv
<1>9. CASE RemoveFound
  BY <1>1, <1>9, RemoveLoop DEF StoreInv
<1>10. ASSUME NEW new \in Nodes, Insert(new) PROVE StoreInv'
  BY <1>1, <1>10, InsertLoop DEF StoreInv
<1>11. CASE ClearNext
  BY <1>1, <1>11, ClearLoop DEF StoreInv
<1>12. ASSUME NEW text \in FifoLines, FifoLine(text) PROVE StoreInv'
  BY <1>3, <1>12 DEF FifoLine
<1>13. CASE FgetsLine \/ FgetsEnd
  <2>1. UNCHANGED heap /\ (UNCHANGED <<cur, todo, pc>> \/ \E text : RunText(text))
    BY <1>13 DEF FgetsLine, FgetsEnd
  <2> QED
    BY <1>3, <1>4, <2>1
<1>14. CASE FileEnd \/ Load \/ SendKey \/ Accept \/ Reject \/ InsertFails \/ ClearEnd \/ SaveStart
            \/ SaveNext \/ SaveEnd
  <2>1. UNCHANGED heap
    BY <1>14 DEF FileEnd, Load, SendKey, Accept, Reject, InsertFails, ClearEnd, SaveStart, SaveNext, SaveEnd
  <2>2. pc' \in {"read", "idle", "save"}
    BY <1>14 DEF FileEnd, Load, SendKey, Accept, Reject, InsertFails, ClearEnd, SaveStart, SaveNext, SaveEnd,
                 Done, Failed
  <2> QED
    BY <1>2, <2>1, <2>2
<1>15. CASE UNCHANGED vars
  BY <1>4, <1>15 DEF vars, heap
<1> QED
  BY <1>5, <1>6, <1>7, <1>8, <1>9, <1>10, <1>11, <1>12, <1>13, <1>14, <1>15
  DEF Next, Step, Read, Find, Place, Clear, Save

-----------------------------------------------------------------------------
(* What the lines make of the list.                                        *)

\* What the list will be when the line that is being run has come to its end.
Outcome ==
    CASE pc = "find" -> Effect(Listed, todo)
      [] pc = "insert" -> IF used = Nodes THEN Listed
                          ELSE InsertMapping(Listed, EntryOf(todo))
      [] pc = "clear" -> <<>>
      [] OTHER -> Listed

OnceInv == ~stale => Outcome = once

\* The buffer holds a first word, or a comment, and no line that has a button
\* or a key.
RereadInv ==
    /\ line.op \in {"NOP", "UNMAP", "CLEAR", "LOAD", "BAD", "COMMENT"}
    /\ line.op # "COMMENT" => line = Text(line.op)
    /\ again /\ pc \in {"line", "find", "insert", "clear", "save"}
          => todo = line /\ line.op # "COMMENT"
    /\ again /\ pc = "clear" /\ ~stale => Listed = <<>>

LEMMA ListedType ==
    ASSUME StoreInv
    PROVE  /\ Listed \in Seq(Mappings) /\ Len(Listed) = Cardinality(used)
           /\ \A i \in 1..Len(Listed) : Listed[i].mask # {}
           /\ used \in SUBSET Nodes
<1>1. Listed \in Seq(Mappings) /\ Len(Listed) = Cardinality(used) /\ used \in SUBSET Nodes
  BY ListedIs, OrderIs DEF StoreInv, TypeInv
<1>2. \A i \in 1..Len(Listed) : Listed[i] \in Mappings
  BY <1>1
<1> QED
  BY <1>1, <1>2 DEF Mappings

\* Effect, kind by kind of line.
LEMMA EffectOther ==
    ASSUME NEW list, NEW text, ~Maps(text), text.op # "UNMAP", text.op # "CLEAR"
    PROVE  Effect(list, text) = list
BY DEF Effect

LEMMA EffectClear ==
    ASSUME NEW list, NEW text, text.op = "CLEAR"
    PROVE  Effect(list, text) = <<>>
BY DEF Effect, Maps

LEMMA EffectUnmap ==
    ASSUME NEW list, NEW text, text.op = "UNMAP"
    PROVE  Effect(list, text) =
              IF FindMapping(list, text.mask) = 0 THEN list
              ELSE RemoveMapping(list, FindMapping(list, text.mask))
BY DEF Effect, Maps

LEMMA EffectMap ==
    ASSUME NEW list, NEW text, Maps(text)
    PROVE  LET without == IF FindMapping(list, text.mask) = 0 THEN list
                          ELSE RemoveMapping(list, FindMapping(list, text.mask))
           IN  Effect(list, text) =
                   IF Len(without) = Cardinality(Nodes) THEN without
                   ELSE InsertMapping(without, EntryOf(text))
<1> DEFINE i == FindMapping(list, text.mask)
           without == IF i = 0 THEN list ELSE RemoveMapping(list, i)
<1>1. EntryOf(text).mask = text.mask
  BY DEF EntryOf, NewMapping
<1>2. MapMapping(list, EntryOf(text)) = InsertMapping(without, EntryOf(text))
  BY <1>1 DEF MapMapping
<1>3. Effect(list, text) = IF Len(without) = Cardinality(Nodes) THEN without
                           ELSE MapMapping(list, EntryOf(text))
  BY DEF Effect, Maps
<1> QED
  BY <1>2, <1>3

LEMMA CutIs ==
    ASSUME NEW text \in Texts
    PROVE  /\ Cut(text).op \in {"NOP", "UNMAP", "CLEAR", "LOAD", "BAD", "COMMENT"}
           /\ Cut(text).op # "COMMENT" => Cut(text) = Text(Cut(text).op)
<1>1. text.op \in Ops
  BY DEF Texts
<1>2. \A op : Text(op).op = op
  BY DEF Text
<1> QED
  BY <1>1, <1>2 DEF Cut, Ops

\* The memory is full when there are as many mappings as nodes.
LEMMA FullIs ==
    ASSUME NEW nodes \in SUBSET Nodes
    PROVE  Cardinality(nodes) = Cardinality(Nodes) <=> nodes = Nodes
BY NodeAssumption, FS_Subset

(***************************************************************************)
(* A line that starts has its effect before it, and the loops keep that.   *)
(***************************************************************************)
LEMMA RunTextOutcome ==
    ASSUME StoreInv, NEW text, RunText(text), UNCHANGED heap, pc \in {"idle", "read"}
    PROVE  Outcome' = Effect(Outcome, text)
<1>1. Listed' = Listed /\ used' = used /\ Outcome = Listed /\ todo' = text
  BY ListedSame DEF Outcome, RunText
<1>2. CASE Maps(text) \/ text.op = "UNMAP"
  <2>1. pc' = "find"
    BY <1>2 DEF RunText, Maps
  <2>2. Outcome' = Effect(Listed', todo')
    BY <2>1 DEF Outcome
  <2> QED
    BY <1>1, <2>2
<1>3. CASE text.op = "CLEAR"
  <2>1. pc' = "clear"
    BY <1>3 DEF RunText, Maps
  <2> QED
    BY <1>1, <1>3, <2>1, EffectClear DEF Outcome
<1>4. CASE ~(Maps(text) \/ text.op = "UNMAP" \/ text.op = "CLEAR")
  <2>1. pc' = "line"
    BY <1>4 DEF RunText
  <2> QED
    BY <1>1, <1>4, <2>1, EffectOther DEF Outcome
<1> QED
  BY <1>2, <1>3, <1>4

LEMMA FindNothingOutcome ==
    ASSUME StoreInv, FindNothing
    PROVE  Outcome' = Outcome
<1>1. FindMapping(Listed, todo.mask) = 0 /\ Listed' = Listed /\ used' = used /\ todo' = todo
  BY FindNothingList, ListedSame DEF FindNothing
<1>2. pc = "find" /\ Outcome = Effect(Listed, todo)
  BY DEF FindNothing, Outcome
<1>3. Len(Listed) = Cardinality(used) /\ used \in SUBSET Nodes
  BY ListedType
<1>4. CASE Maps(todo)
  <2>1. Outcome = IF Len(Listed) = Cardinality(Nodes) THEN Listed
                  ELSE InsertMapping(Listed, EntryOf(todo))
    BY <1>1, <1>2, <1>4, EffectMap
  <2>2. pc' = "insert"
    BY <1>4 DEF FindNothing
  <2>3. Outcome' = IF used = Nodes THEN Listed ELSE InsertMapping(Listed, EntryOf(todo))
    BY <1>1, <2>2 DEF Outcome
  <2> QED
    BY <1>3, <2>1, <2>3, FullIs
<1>5. CASE ~Maps(todo)
  <2>1. todo.op = "UNMAP"
    BY <1>2, <1>5 DEF StoreInv, TypeInv, PcTypes
  <2>2. Outcome = Listed
    BY <1>1, <1>2, <2>1, EffectUnmap
  <2>3. pc' \in {"idle", "read"}
    BY <1>5 DEF FindNothing, Failed
  <2> QED
    BY <1>1, <2>2, <2>3 DEF Outcome
<1> QED
  BY <1>4, <1>5

LEMMA RemoveFoundOutcome ==
    ASSUME StoreInv, RemoveFound
    PROVE  Outcome' = Outcome
<1>1. PICK k \in 1..Len(order) :
        /\ cur = order[k] /\ FindMapping(Listed, todo.mask) = k
        /\ Listed' = RemoveMapping(Listed, k)
  BY RemoveFoundList
<1>2. pc = "find" /\ Outcome = Effect(Listed, todo) /\ todo' = todo
  BY DEF RemoveFound, matched, Outcome
<1>3. k # 0 /\ k \in 1..Len(Listed)
  BY <1>1, ListedIs, OrderIs DEF StoreInv, TypeInv
<1>4. CASE Maps(todo)
  <2>1. Outcome = IF Len(RemoveMapping(Listed, k)) = Cardinality(Nodes) THEN RemoveMapping(Listed, k)
                  ELSE InsertMapping(RemoveMapping(Listed, k), EntryOf(todo))
    BY <1>1, <1>2, <1>3, <1>4, EffectMap
  <2>2. pc' = "insert"
    BY <1>4 DEF RemoveFound
  <2>3. Outcome' = IF used' = Nodes THEN Listed' ELSE InsertMapping(Listed', EntryOf(todo))
    BY <1>2, <2>2 DEF Outcome
  <2>4. used' # Nodes
    <3>1. cur \in used /\ used \in SUBSET Nodes
      BY ListedType DEF RemoveFound, matched, StoreInv, IInv, NoDangling
    <3>2. used' = used \ {cur}
      BY DEF RemoveFound, used
    <3> QED
      BY <3>1, <3>2
  <2>5. Len(RemoveMapping(Listed, k)) # Cardinality(Nodes)
    <3>1. Listed \in Seq(Mappings) /\ Len(Listed) = Cardinality(used) /\ used \in SUBSET Nodes
      BY ListedType
    <3>2. Cardinality(used) <= Cardinality(Nodes) /\ Cardinality(Nodes) \in Nat
      BY <3>1, NodeAssumption, FS_Subset, FS_CardinalityType
    <3>3. Len(RemoveMapping(Listed, k)) = Len(Listed) - 1
      BY <1>3, <3>1, RemoveAtFacts DEF RemoveMapping
    <3>4. Len(Listed) \in Nat
      BY <3>1
    <3> QED
      BY <3>1, <3>2, <3>3, <3>4
  <2> QED
    BY <1>1, <2>1, <2>3, <2>4, <2>5
<1>5. CASE ~Maps(todo)
  <2>1. todo.op = "UNMAP"
    BY <1>2, <1>5 DEF StoreInv, TypeInv, PcTypes
  <2>2. Outcome = RemoveMapping(Listed, k)
    BY <1>1, <1>2, <1>3, <2>1, EffectUnmap
  <2>3. pc' \in {"idle", "read"}
    BY <1>5 DEF RemoveFound, Done
  <2> QED
    BY <1>1, <2>2, <2>3 DEF Outcome
<1> QED
  BY <1>4, <1>5

LEMMA InsertOutcome ==
    ASSUME StoreInv, NEW new \in Nodes, Insert(new)
    PROVE  Outcome' = Outcome
<1>1. Listed' = InsertMapping(Listed, EntryOf(todo)) /\ used # Nodes
  BY InsertList
<1>2. pc = "insert" /\ pc' \in {"idle", "read"}
  BY DEF Insert, Done
<1> QED
  BY <1>1, <1>2 DEF Outcome

LEMMA ClearOutcome ==
    ASSUME StoreInv, ClearNext \/ ClearEnd
    PROVE  Outcome' = Outcome
<1>1. CASE ClearNext
  BY <1>1 DEF ClearNext, Outcome
<1>2. CASE ClearEnd
  <2>1. Listed = <<>> /\ Listed' = Listed
    BY <1>2, ClearEndList, ListedSame DEF ClearEnd
  <2>2. pc = "clear" /\ pc' \in {"idle", "read"}
    BY <1>2 DEF ClearEnd, Done
  <2> QED
    BY <2>1, <2>2 DEF Outcome
<1> QED
  BY <1>1, <1>2

\* Every step but the start of a line and the crash.
LEMMA OutcomeKept ==
    ASSUME StoreInv,
           \/ FileEnd \/ Load \/ SendKey \/ Accept \/ Reject \/ Find \/ Place \/ Clear \/ Save
    PROVE  Outcome' = Outcome
<1>1. CASE /\ UNCHANGED heap /\ pc \in {"read", "line", "save"}
           /\ pc' \in {"read", "idle", "line", "save"}
  BY <1>1, ListedSame DEF Outcome
<1>2. CASE /\ UNCHANGED heap /\ pc' = pc /\ todo' = todo
  BY <1>2, ListedSame DEF Outcome
<1>3. CASE FileEnd \/ Load \/ SendKey \/ Accept \/ Reject
  <2>1. UNCHANGED heap /\ pc \in {"read", "line"} /\ pc' \in {"read", "idle"}
    BY <1>3 DEF FileEnd, Load, SendKey, Accept, Reject, Done, Failed
  <2> QED
    BY <1>1, <2>1
<1>4. CASE FindNext \/ InsertNext
  BY <1>2, <1>4 DEF FindNext, InsertNext
<1>5. CASE InsertFails
  <2>1. Listed' = Listed /\ pc = "insert" /\ used = Nodes /\ pc' \in {"read", "idle"}
    BY <1>5, ListedSame DEF InsertFails, Failed
  <2> QED
    BY <2>1 DEF Outcome
<1>6. CASE Save
  <2>1. UNCHANGED heap /\ pc \in {"line", "save"} /\ pc' \in {"read", "idle", "save"}
    BY <1>6 DEF Save, SaveStart, SaveNext, SaveEnd, Done, Failed
  <2> QED
    BY <1>1, <2>1
<1> QED
  BY <1>3, <1>4, <1>5, <1>6, FindNothingOutcome, RemoveFoundOutcome, InsertOutcome, ClearOutcome
  DEF Find, Place, Clear

\* What is left in the buffer maps no button: only a CLEAR has an effect.
LEMMA LineEffect ==
    ASSUME StoreInv, RereadInv, line.op # "COMMENT"
    PROVE  /\ ~Maps(line) /\ line.op # "KEY" /\ line.mask = {}
           /\ FindMapping(Listed, line.mask) = 0
           /\ line.op # "CLEAR" => Effect(Listed, line) = Listed
<1>1. line = Text(line.op) /\ line.op \in {"NOP", "UNMAP", "CLEAR", "LOAD", "BAD"}
  BY DEF RereadInv
<1>2. line.mask = {}
  BY <1>1 DEF Text
<1>3. ~Maps(line) /\ line.op # "KEY"
  BY <1>1 DEF Maps
<1>4. FindMapping(Listed, line.mask) = 0
  <2>1. Listed \in Seq(Mappings) /\ \A i \in 1..Len(Listed) : Listed[i].mask # {}
    BY ListedType
  <2>2. /\ FindMapping(Listed, line.mask) \in 0..Len(Listed)
        /\ FindMapping(Listed, line.mask) # 0 =>
             Listed[FindMapping(Listed, line.mask)].mask = line.mask
    BY <2>1, FindMappingFacts
  <2>3. Len(Listed) \in Nat
    BY <2>1
  <2> QED
    BY <1>2, <2>1, <2>2, <2>3
<1>5. line.op # "CLEAR" => Effect(Listed, line) = Listed
  BY <1>3, <1>4, EffectOther, EffectUnmap
<1> QED
  BY <1>2, <1>3, <1>4, <1>5

(***************************************************************************)
(* Every step keeps what is known of the buffer.                           *)
(***************************************************************************)
LEMMA RereadNext ==
    ASSUME StoreInv, RereadInv, OnceInv, [Next]_vars
    PROVE  RereadInv'
<1>1. CASE FgetsLine
  <2> DEFINE text == Head(Head(stack).rest)
  <2>1. text \in Texts
    <3>1. stack \in Seq(Frames) /\ stack # <<>>
      BY <1>1 DEF FgetsLine, StoreInv, TypeInv, ReadTypes
    <3>2. Head(stack) \in Frames
      BY <3>1
    <3>3. Head(stack).rest \in Seq(Texts) /\ Head(stack).rest # <<>>
      BY <1>1, <3>2 DEF FgetsLine, Frames
    <3> QED
      BY <3>3
  <2>2. line' = Cut(text) /\ again' = FALSE
    BY <1>1 DEF FgetsLine
  <2> HIDE DEF text
  <2> QED
    BY <2>1, <2>2, CutIs DEF RereadInv
<1>2. CASE FgetsEnd
  <2>1. line' = line /\ pc = "read" /\ UNCHANGED heap
    BY <1>2 DEF FgetsEnd
  <2>2. Listed' = Listed /\ Outcome = Listed
    BY <2>1, ListedSame DEF Outcome
  <2>3. CASE line.op = "COMMENT"
    BY <1>2, <2>1, <2>3 DEF FgetsEnd, RereadInv
  <2>4. CASE line.op # "COMMENT"
    <3>1. RunText(line)
      BY <1>2, <2>4 DEF FgetsEnd
    <3>2. todo' = line
      BY <3>1 DEF RunText
    <3>3. pc' = "clear" /\ ~stale' => Listed' = <<>>
      <4> SUFFICES ASSUME pc' = "clear", ~stale' PROVE Listed' = <<>>
        OBVIOUS
      <4>1. line.op = "CLEAR"
        BY <3>1 DEF RunText
      <4>2. once = <<>> /\ ~stale
        BY <1>2, <4>1 DEF FgetsEnd
      <4> QED
        BY <2>2, <4>2 DEF OnceInv
    <3> QED
      BY <2>1, <2>4, <3>2, <3>3 DEF RereadInv
  <2> QED
    BY <2>3, <2>4
<1>3. CASE Crash
  <2>1. line' = Text("NOP") /\ again' = FALSE /\ Text("NOP").op = "NOP"
    BY <1>3 DEF Crash, Text
  <2> QED
    BY <2>1 DEF RereadInv
<1>4. ASSUME NEW text \in FifoLines, FifoLine(text) PROVE RereadInv'
  BY <1>4 DEF FifoLine, reader, RereadInv
<1>5. CASE UNCHANGED <<line, again, todo>> /\ pc' \in {"read", "idle"}
  BY <1>5 DEF RereadInv
<1>6. CASE /\ UNCHANGED <<line, again, todo>> /\ pc' \in {"find", "insert", "save"}
           /\ pc \in {"line", "find", "insert", "save"}
  BY <1>6 DEF RereadInv
<1>7. CASE FileEnd \/ Load \/ SendKey \/ Accept \/ Reject \/ InsertFails \/ ClearEnd \/ SaveEnd
            \/ \E new \in Nodes : Insert(new)
  <2>1. UNCHANGED <<line, again, todo>>
    BY <1>7 DEF FileEnd, Load, SendKey, Accept, Reject, InsertFails, ClearEnd, SaveEnd, Insert
  <2>2. pc' \in {"read", "idle"}
    BY <1>7 DEF FileEnd, Load, SendKey, Accept, Reject, InsertFails, ClearEnd, SaveEnd, Insert,
                Done, Failed
  <2> QED
    BY <1>5, <2>1, <2>2
<1>8. CASE FindNext \/ FindNothing \/ RemoveFound \/ InsertNext \/ SaveStart \/ SaveNext
  <2>1. UNCHANGED <<line, again, todo>> /\ pc \in {"line", "find", "insert", "save"}
    BY <1>8 DEF FindNext, FindNothing, RemoveFound, matched, InsertNext, SaveStart, SaveNext, reader
  <2>2. pc' \in {"read", "idle"} \/ pc' \in {"find", "insert", "save"}
    BY <1>8 DEF FindNext, FindNothing, RemoveFound, InsertNext, SaveStart, SaveNext, Done, Failed
  <2> QED
    BY <1>5, <1>6, <2>1, <2>2
<1>9. CASE ClearNext
  <2>1. UNCHANGED <<line, again, todo, pc, stale>> /\ pc = "clear"
    BY <1>9 DEF ClearNext, reader, history
  <2>2. Listed # <<>>
    BY <1>9, ClearNextList
  <2> QED
    BY <2>1, <2>2 DEF RereadInv
<1>10. CASE UNCHANGED vars
  <2>1. Listed' = Listed
    BY <1>10, ListedSame DEF vars, heap
  <2> QED
    BY <1>10, <2>1 DEF vars, RereadInv
<1> QED
  BY <1>1, <1>2, <1>3, <1>4, <1>7, <1>8, <1>9, <1>10 DEF Next, Step, Read, Find, Place, Clear, Save

(***************************************************************************)
(* Every step keeps that the outcome is that of the lines read.            *)
(***************************************************************************)
LEMMA OnceNext ==
    ASSUME StoreInv, RereadInv, OnceInv, [Next]_vars
    PROVE  OnceInv'
<1>1. CASE FgetsLine
  <2> DEFINE text == Head(Head(stack).rest)
  <2>1. /\ pc = "read" /\ UNCHANGED heap /\ once' = Effect(once, text) /\ stale' = stale
        /\ IF text.op = "COMMENT" THEN UNCHANGED <<todo, pc>> ELSE RunText(text)
    BY <1>1 DEF FgetsLine
  <2> HIDE DEF text
  <2>2. CASE text.op = "COMMENT"
    <3>1. Listed' = Listed /\ Outcome = Listed /\ Outcome' = Listed'
      BY <2>1, <2>2, ListedSame DEF Outcome
    <3>2. Effect(once, text) = once
      BY <2>2, EffectOther DEF Maps
    <3> QED
      BY <2>1, <3>1, <3>2 DEF OnceInv
  <2>3. CASE text.op # "COMMENT"
    <3>1. Outcome' = Effect(Outcome, text)
      BY <2>1, <2>3, RunTextOutcome
    <3> QED
      BY <2>1, <3>1 DEF OnceInv
  <2> QED
    BY <2>2, <2>3
<1>2. CASE FgetsEnd
  <2>1. /\ pc = "read" /\ UNCHANGED heap /\ once' = once
        /\ stale' = (stale \/ (line.op = "CLEAR" /\ once # <<>>))
        /\ IF line.op = "COMMENT" THEN UNCHANGED <<todo, pc>> ELSE RunText(line)
    BY <1>2 DEF FgetsEnd
  <2>2. CASE line.op = "COMMENT"
    <3>1. Listed' = Listed /\ Outcome = Listed /\ Outcome' = Listed'
      BY <2>1, <2>2, ListedSame DEF Outcome
    <3> QED
      BY <2>1, <3>1 DEF OnceInv
  <2>3. CASE line.op # "COMMENT"
    <3>1. Outcome' = Effect(Outcome, line) /\ Outcome = Listed
      BY <2>1, <2>3, RunTextOutcome DEF Outcome
    <3>2. line.op # "CLEAR" => Outcome' = Outcome
      BY <2>3, <3>1, LineEffect
    <3>3. line.op = "CLEAR" => Outcome' = <<>>
      BY <3>1, EffectClear
    <3> QED
      BY <2>1, <3>2, <3>3 DEF OnceInv
  <2> QED
    BY <2>2, <2>3
<1>3. CASE Crash
  <2>1. Listed' = <<>> /\ pc' = "read" /\ once' = <<>>
    BY <1>3, FirstList DEF Crash
  <2> QED
    BY <2>1 DEF Outcome, OnceInv
<1>4. ASSUME NEW text \in FifoLines, FifoLine(text) PROVE OnceInv'
  <2>1. RunText(text) /\ UNCHANGED heap /\ pc = "idle" /\ once' = Effect(once, text) /\ stale' = stale
    BY <1>4 DEF FifoLine
  <2>2. Outcome' = Effect(Outcome, text)
    BY <2>1, RunTextOutcome
  <2> QED
    BY <2>1, <2>2 DEF OnceInv
<1>5. CASE FileEnd \/ Load \/ SendKey \/ Accept \/ Reject \/ Find \/ Place \/ Clear \/ Save
  <2>1. UNCHANGED <<stale, once>>
    <3>1. CASE FileEnd \/ Load \/ SendKey \/ Accept \/ Reject
      BY <3>1 DEF FileEnd, Load, SendKey, Accept, Reject, history
    <3>2. CASE Find \/ Place
      BY <3>2 DEF Find, FindNext, FindNothing, RemoveFound, Place, InsertFails, InsertNext, Insert, history
    <3>3. CASE Clear \/ Save
      BY <3>3 DEF Clear, ClearNext, ClearEnd, Save, SaveStart, SaveNext, SaveEnd, history
    <3> QED
      BY <1>5, <3>1, <3>2, <3>3
  <2> QED
    BY <1>5, <2>1, OutcomeKept DEF OnceInv
<1>6. CASE UNCHANGED vars
  <2>1. Listed' = Listed /\ used' = used
    BY <1>6, ListedSame DEF vars, heap
  <2> QED
    BY <1>6, <2>1 DEF vars, Outcome, OnceInv
<1> QED
  BY <1>1, <1>2, <1>3, <1>4, <1>5, <1>6 DEF Next, Step, Read

LineInv == StoreInv /\ RereadInv /\ OnceInv

LEMMA LineInit == Init => LineInv
<1> SUFFICES ASSUME Init PROVE LineInv
  OBVIOUS
<1>1. StoreInv
  BY InvInit, TypeInit, LoopInit DEF StoreInv
<1>2. RereadInv
  BY DEF Init, RereadInv, Text
<1>3. Listed = <<>>
  BY ListedInit
<1>4. OnceInv
  BY <1>3 DEF Init, OnceInv, Outcome
<1> QED
  BY <1>1, <1>2, <1>4 DEF LineInv

LEMMA LineNext ==
    ASSUME LineInv, [Next]_vars
    PROVE  LineInv'
BY StoreNext, RereadNext, OnceNext DEF LineInv

(***************************************************************************)
(* Between lines the list is what the lines that were read make of it, each *)
(* run once, although the end of each file runs a line again.              *)
(***************************************************************************)
THEOREM EachLineOnceHolds == Spec => []EachLineOnce
<1>1. LineInv => EachLineOnce
  BY DEF LineInv, OnceInv, Outcome, EachLineOnce
<1> QED
  BY <1>1, LineInit, LineNext, PTL DEF Spec

\* The line that is run again has no button and no key.
LEMMA RereadStep ==
    ASSUME LineInv, [Next]_vars, again, again', ~stale
    PROVE  UNCHANGED <<entry, event>>
<1> USE DEF LineInv
<1>1. CASE UNCHANGED <<entry, event>>
  BY <1>1
<1>2. CASE FgetsLine \/ Crash \/ \E text \in FifoLines : FifoLine(text)
  BY <1>2 DEF FgetsLine, Crash, FifoLine
<1>3. CASE FgetsEnd \/ FileEnd \/ Load \/ Accept \/ Reject
  BY <1>3 DEF FgetsEnd, FileEnd, Load, Accept, Reject, heap
<1>4. CASE SendKey
  <2>1. todo = line /\ line.op # "COMMENT" /\ todo.op = "KEY"
    BY <1>4 DEF SendKey, RereadInv
  <2> QED
    BY <2>1, LineEffect
<1>5. CASE FindNext \/ FindNothing \/ InsertFails \/ InsertNext \/ ClearEnd
  BY <1>5 DEF FindNext, FindNothing, InsertFails, InsertNext, ClearEnd, heap
<1>6. CASE RemoveFound
  <2>1. PICK k \in 1..Len(order) : FindMapping(Listed, todo.mask) = k
    BY <1>6, RemoveFoundList
  <2>2. todo = line /\ line.op # "COMMENT"
    BY <1>6 DEF RemoveFound, matched, RereadInv
  <2>3. FindMapping(Listed, todo.mask) = 0
    BY <2>2, LineEffect
  <2> QED
    BY <2>1, <2>3
<1>7. ASSUME NEW new \in Nodes, Insert(new) PROVE FALSE
  <2>1. todo = line /\ line.op # "COMMENT" /\ Maps(todo)
    BY <1>7 DEF Insert, RereadInv, StoreInv, TypeInv, PcTypes
  <2> QED
    BY <2>1, LineEffect
<1>8. CASE ClearNext
  <2>1. Listed = <<>>
    BY <1>8 DEF ClearNext, RereadInv
  <2> QED
    BY <1>8, <2>1, ClearNextList
<1>9. CASE Save
  BY <1>9 DEF Save, SaveStart, SaveNext, SaveEnd, heap
<1>10. CASE UNCHANGED vars
  BY <1>10 DEF vars
<1> QED
  BY <1>2, <1>3, <1>4, <1>5, <1>6, <1>7, <1>8, <1>9, <1>10 DEF Next, Step, Read, Find, Place, Clear

(***************************************************************************)
(* The line that is left in the buffer at the end of a file changes no     *)
(* mapping and sends no key when it is run again.                          *)
(***************************************************************************)
THEOREM RereadHarmlessHolds == Spec => RereadHarmless
<1>1. LineInv /\ [Next]_vars => [again /\ again' /\ ~stale => UNCHANGED <<entry, event>>]_vars
  BY RereadStep
<1> QED
  BY <1>1, LineInit, LineNext, PTL DEF Spec, RereadHarmless

-----------------------------------------------------------------------------
(* The list as MappingStore sees it.                                       *)

\* The operators of the instance are those of the list.
LEMMA SameOperators ==
    ASSUME NEW l, NEW i, NEW m
    PROVE  /\ Store!MapMapping(l, m) = MapMapping(l, m) /\ Store!RemoveMapping(l, i) = RemoveMapping(l, i)
           /\ Store!ToSet(l) = ToSet(l)
BY DEF Store!MapMapping, Store!FindMapping, Store!InsertMapping, Store!InsertPosition,
       Store!RemoveMapping, Store!SelectInSeq, Store!InsertAt, Store!RemoveAt, Store!Min, Store!ToSet,
       MapMapping, FindMapping, InsertMapping, InsertPosition, RemoveMapping, SelectInSeq,
       InsertAt, RemoveAt, Min, ToSet

(***************************************************************************)
(* Freeing a mapping is a Drop, linking one is a Map, the crash is the     *)
(* Restart, and every other step leaves the list as it is.                 *)
(***************************************************************************)
LEMMA StoreStep ==
    ASSUME StoreInv, [Next]_vars
    PROVE  [Store!Next]_Listed
<1>1. CASE UNCHANGED heap
  BY <1>1, ListedSame
<1>2. CASE RemoveFound
  <2>1. PICK k \in 1..Len(order) : Listed' = RemoveMapping(Listed, k)
    BY <1>2, RemoveFoundList
  <2>2. k \in DOMAIN Listed
    BY ListedIs DEF StoreInv, TypeInv
  <2>3. Store!Drop(k)
    BY <2>1, SameOperators DEF Store!Drop
  <2> QED
    BY <2>2, <2>3 DEF Store!Next
<1>3. ASSUME NEW new \in Nodes, Insert(new) PROVE Store!Next
  <2> DEFINE e == EntryOf(todo)
  <2>1. /\ Listed' = InsertMapping(Listed, e)
        /\ e \in Mappings /\ e.mask = todo.mask
        /\ \A i \in 1..Len(Listed) : Listed[i].mask # todo.mask
    BY <1>3, InsertList
  <2> HIDE DEF e
  <2>2. Listed \in Seq(Mappings) /\ Len(Listed) \in Nat
    BY ListedType
  <2>3. FindMapping(Listed, e.mask) = 0
    <3>1. /\ FindMapping(Listed, e.mask) \in 0..Len(Listed)
          /\ FindMapping(Listed, e.mask) # 0 =>
               Listed[FindMapping(Listed, e.mask)].mask = e.mask
      BY <2>2, FindMappingFacts
    <3> QED
      BY <2>1, <2>2, <3>1
  <2>4. Listed' = MapMapping(Listed, e)
    BY <2>1, <2>3 DEF MapMapping
  <2>5. Store!Map(e)
    BY <2>1, <2>4, SameOperators DEF Store!Map
  <2>6. e \in ToSet(Listed')
    BY <2>1, <2>2, <2>4, MapMappingAdds
  <2> QED
    BY <2>5, <2>6, SameOperators DEF Store!Next
<1>4. CASE ClearNext
  <2>1. 1 \in DOMAIN Listed /\ Listed' = RemoveMapping(Listed, 1)
    BY <1>4, ClearNextList
  <2>2. Store!Drop(1)
    BY <2>1, SameOperators DEF Store!Drop
  <2> QED
    BY <2>1, <2>2 DEF Store!Next
<1>5. CASE Crash
  <2>1. Listed' = <<>>
    BY <1>5, FirstList DEF Crash
  <2> QED
    BY <2>1 DEF Store!Next, Store!Restart
<1>6. CASE Read \/ Load \/ SendKey \/ Accept \/ Reject \/ FindNext \/ FindNothing \/ InsertFails
            \/ InsertNext \/ ClearEnd \/ Save \/ \E text \in FifoLines : FifoLine(text)
  <2>1. CASE Read \/ Load \/ SendKey \/ Accept \/ Reject \/ \E text \in FifoLines : FifoLine(text)
    BY <1>1, <2>1 DEF Read, FgetsLine, FgetsEnd, FileEnd, Load, SendKey, Accept, Reject, FifoLine
  <2>2. CASE FindNext \/ FindNothing \/ InsertFails \/ InsertNext \/ ClearEnd
    BY <1>1, <2>2 DEF FindNext, FindNothing, InsertFails, InsertNext, ClearEnd
  <2>3. CASE Save
    BY <1>1, <2>3 DEF Save, SaveStart, SaveNext, SaveEnd
  <2> QED
    BY <1>6, <2>1, <2>2, <2>3
<1>7. CASE UNCHANGED vars
  BY <1>1, <1>7 DEF vars, heap
<1> QED
  BY <1>2, <1>3, <1>4, <1>5, <1>6, <1>7 DEF Next, Step, Find, Place, Clear

(***************************************************************************)
(* The pointers, the loops over them and the heap implement MappingStore:  *)
(* the list changes by whole mappings only.                                *)
(***************************************************************************)
THEOREM ImplementsStore == Spec => StoreSpec
<1>1. Init => Store!Init
  BY ListedInit DEF Store!Init
<1>2. LineInv /\ [Next]_vars => [Store!Next]_Listed
  BY StoreStep DEF LineInv
<1> QED
  BY <1>1, <1>2, LineInit, LineNext, PTL DEF Spec, StoreSpec, Store!Spec

-----------------------------------------------------------------------------
(* What SAVE writes, and what LOAD makes of it.                            *)

SavedTexts(list) ==
    [i \in 1..(Len(list) + 1) |-> IF i = 1 THEN Text("CLEAR") ELSE SavedText(list[Len(list) - i + 2])]

\* The last k mappings of a list.
Suffix(list, k) == [i \in 1..k |-> list[Len(list) - k + i]]

NoSave(texts) == \A i \in DOMAIN texts : texts[i].op # "SAVE"

\* The lines of a saved file, and the last mappings of a list.
LEMMA SavedTextsFacts ==
    ASSUME NEW list \in Seq(Mappings)
    PROVE  /\ SavedTexts(list) \in Seq(Texts) /\ Len(SavedTexts(list)) = Len(list) + 1
           /\ SavedTexts(list) # <<>>
           /\ SavedTexts(list)[1] = Text("CLEAR")
           /\ \A i \in 2..Len(list) + 1 : SavedTexts(list)[i] = SavedText(list[Len(list) - i + 2])
           /\ NoSave(SavedTexts(list))
<1>1. Text("CLEAR") \in Texts /\ Text("CLEAR").op # "SAVE"
  BY TextTypes DEF Ops, Text
<1>2. ASSUME NEW i \in 2..Len(list) + 1
      PROVE  /\ SavedText(list[Len(list) - i + 2]) \in Texts
             /\ SavedText(list[Len(list) - i + 2]).op # "SAVE"
  <2>1. PICK j \in 1..Len(list) : j = Len(list) - i + 2
    OBVIOUS
  <2>2. list[j] \in Mappings
    OBVIOUS
  <2>3. SavedText(list[j]) \in Texts
    BY <2>2, TextTypes
  <2>4. SavedText(list[j]).op # "SAVE"
    BY DEF SavedText
  <2> QED
    BY <2>1, <2>3, <2>4
<1> DEFINE texts == SavedTexts(list)
<1>3. texts = [i \in 1..Len(list) + 1 |->
                 IF i = 1 THEN Text("CLEAR") ELSE SavedText(list[Len(list) - i + 2])]
  BY DEF SavedTexts
<1> HIDE DEF texts
<1>4. \A i \in 2..Len(list) + 1 : texts[i] = SavedText(list[Len(list) - i + 2])
  BY <1>3
<1>5. texts[1] = Text("CLEAR")
  BY <1>3
<1>6. \A i \in 1..Len(list) + 1 : texts[i] \in Texts /\ texts[i].op # "SAVE"
  <2> SUFFICES ASSUME NEW i \in 1..Len(list) + 1 PROVE texts[i] \in Texts /\ texts[i].op # "SAVE"
    OBVIOUS
  <2>1. CASE i = 1
    BY <1>1, <1>5, <2>1
  <2>2. CASE i # 1
    <3>1. i \in 2..Len(list) + 1
      BY <2>2
    <3> QED
      BY <1>2, <1>4, <3>1
  <2> QED
    BY <2>1, <2>2
<1>7. texts \in Seq(Texts) /\ Len(texts) = Len(list) + 1
  <2>1. texts = [i \in 1..Len(list) + 1 |-> texts[i]] /\ Len(list) + 1 \in Nat
    BY <1>3
  <2>2. texts \in [1..Len(list) + 1 -> Texts]
    BY <1>6, <2>1
  <2> QED
    BY <2>1, <2>2
<1>8. texts # <<>> /\ NoSave(texts)
  BY <1>6, <1>7 DEF NoSave
<1> QED
  BY <1>4, <1>5, <1>7, <1>8 DEF texts

LEMMA SuffixFacts ==
    ASSUME NEW list \in Seq(Mappings), NEW k \in 0..Len(list)
    PROVE  /\ Suffix(list, k) \in Seq(Mappings) /\ Len(Suffix(list, k)) = k
           /\ \A i \in 1..k : Suffix(list, k)[i] = list[Len(list) - k + i]
           /\ Suffix(list, 0) = <<>>
           /\ Suffix(list, Len(list)) = list
<1>1. \A i \in 1..k : Len(list) - k + i \in 1..Len(list)
  OBVIOUS
<1>2. \A i \in 1..k : list[Len(list) - k + i] \in Mappings
  BY <1>1
<1>3. Suffix(list, k) \in Seq(Mappings) /\ Len(Suffix(list, k)) = k
  BY <1>2 DEF Suffix
<1>4. \A i \in 1..k : Suffix(list, k)[i] = list[Len(list) - k + i]
  BY DEF Suffix
<1>5. Suffix(list, 0) = <<>>
  BY DEF Suffix
<1>6. Suffix(list, Len(list)) = list
  <2>1. \A i \in 1..Len(list) : Len(list) - Len(list) + i = i
    OBVIOUS
  <2>2. Suffix(list, Len(list)) = [i \in 1..Len(list) |-> list[i]]
    BY <2>1 DEF Suffix
  <2> QED
    BY <2>2
<1> QED
  BY <1>3, <1>4, <1>5, <1>6

(***************************************************************************)
(* A saved mapping that can be restored is made again by its line.         *)
(***************************************************************************)
LEMMA SavedTextMakes ==
    ASSUME NEW m \in Mappings, m.bits = Cardinality(m.mask),
           m.type = "KEY" => SavedKey(m.value) = m.value
    PROVE  /\ Maps(SavedText(m)) /\ SavedText(m).mask = m.mask
           /\ EntryOf(SavedText(m)) = m
<1>1. /\ m = [mask |-> m.mask, bits |-> m.bits, type |-> m.type, value |-> m.value, activated |-> FALSE]
      /\ m.type \in {"KEY", "COMMAND"}
      /\ m.value \in IF m.type = "KEY" THEN KeyNames ELSE Commands
  BY DEF Mappings
<1>2. CASE m.type = "KEY"
  <2>1. LookupKey(KeycodeName(m.value)) = m.value /\ m.value \in KeyNames /\ NoKey \notin KeyNames
    BY <1>1, <1>2 DEF SavedKey, NoKey, KeyNames
  <2>2. SavedText(m).op = "MAP KEY" /\ SavedText(m).value = KeycodeName(m.value)
        /\ SavedText(m).mask = m.mask /\ SavedText(m).bits = m.bits
    BY <1>2 DEF SavedText
  <2> QED
    BY <1>1, <1>2, <2>1, <2>2 DEF Maps, EntryOf, NewMapping
<1>3. CASE m.type = "COMMAND"
  <2>1. SavedText(m).op = "MAP COMMAND" /\ SavedText(m).value = m.value
        /\ SavedText(m).mask = m.mask /\ SavedText(m).bits = m.bits
    BY <1>3 DEF SavedText
  <2> QED
    BY <1>1, <1>3, <2>1 DEF Maps, EntryOf, NewMapping
<1> QED
  BY <1>1, <1>2, <1>3

(***************************************************************************)
(* Each line of a saved file puts its mapping before those of the lines    *)
(* that came before it.                                                    *)
(***************************************************************************)
LEMMA RestoreStep ==
    ASSUME NEW list \in Seq(Mappings), Unique(list), Restorable(list),
           Len(list) <= Cardinality(Nodes), NEW k \in 1..Len(list)
    PROVE  LET m == list[Len(list) - k + 1]
           IN  /\ Maps(SavedText(m)) /\ SavedText(m).mask = m.mask /\ m \in Mappings
               /\ Effect(Suffix(list, k - 1), SavedText(m)) = Suffix(list, k)
<1> DEFINE n == Len(list)
           s == Suffix(list, k - 1)
<1>1. PICK j \in 1..n : j = n - k + 1
  OBVIOUS
<1> DEFINE m == list[j]
           t == SavedText(m)
<1>2. m \in Mappings /\ m.bits \in Nat
  <2>1. m \in Mappings
    OBVIOUS
  <2> QED
    BY <2>1 DEF Mappings
<1>3. Maps(t) /\ t.mask = m.mask /\ EntryOf(t) = m
  <2>1. m.bits = Cardinality(m.mask) /\ (m.type = "KEY" => SavedKey(m.value) = m.value)
    BY DEF Restorable
  <2> HIDE DEF m
  <2> QED
    BY <1>2, <2>1, SavedTextMakes
<1>4. /\ s \in Seq(Mappings) /\ Len(s) = k - 1
      /\ \A i \in 1..k - 1 : s[i] = list[n - (k - 1) + i]
  <2>1. k - 1 \in 0..n
    OBVIOUS
  <2> QED
    BY <2>1, SuffixFacts
<1>5. \A i \in 1..k - 1 : \E q \in 1..n : q = j + i /\ s[i] = list[q]
  <2> SUFFICES ASSUME NEW i \in 1..k - 1 PROVE \E q \in 1..n : q = j + i /\ s[i] = list[q]
    OBVIOUS
  <2>1. j + i \in 1..n /\ n - (k - 1) + i = j + i
    BY <1>1
  <2> QED
    BY <1>4, <2>1
<1> HIDE DEF s, m, t
<1>6. FindMapping(s, t.mask) = 0
  <2>1. ASSUME NEW i \in 1..Len(s) PROVE s[i].mask # m.mask
    <3>1. PICK q \in 1..n : q = j + i /\ s[i] = list[q]
      BY <1>4, <1>5
    <3>2. q # j /\ q \in DOMAIN list /\ j \in DOMAIN list
      BY <1>4, <3>1
    <3> QED
      BY <3>1, <3>2 DEF Unique, m
  <2>2. /\ FindMapping(s, t.mask) \in 0..Len(s)
        /\ FindMapping(s, t.mask) # 0 => s[FindMapping(s, t.mask)].mask = t.mask
    BY <1>4, FindMappingFacts
  <2>3. FindMapping(s, t.mask) # 0 => FindMapping(s, t.mask) \in 1..Len(s)
    BY <1>4, <2>2
  <2> QED
    BY <1>3, <2>1, <2>2, <2>3
<1>7. Effect(s, t) = InsertMapping(s, m)
  <2>1. Cardinality(Nodes) \in Nat /\ Len(s) # Cardinality(Nodes)
    BY <1>4, NodeAssumption, FS_CardinalityType
  <2>2. Effect(s, t) = IF Len(s) = Cardinality(Nodes) THEN s ELSE InsertMapping(s, EntryOf(t))
    BY <1>3, <1>6, EffectMap
  <2> QED
    BY <1>3, <2>1, <2>2
<1>8. InsertPosition(s, m.bits) = 1
  <2>1. PICK p \in 1..Len(s) + 1 : p = 1
    BY <1>4
  <2>2. \A i \in 1..Len(s) : s[i].bits \in Nat
    <3> SUFFICES ASSUME NEW i \in 1..Len(s) PROVE s[i].bits \in Nat
      OBVIOUS
    <3>1. s[i] \in Mappings
      BY <1>4
    <3> QED
      BY <3>1 DEF Mappings
  <2>3. p <= Len(s) => s[p].bits <= m.bits
    <3> SUFFICES ASSUME p <= Len(s) PROVE s[p].bits <= m.bits
      OBVIOUS
    <3>1. p \in 1..k - 1
      BY <1>4, <2>1
    <3>2. PICK q \in 1..n : q = j + p /\ s[p] = list[q]
      BY <1>5, <3>1
    <3>3. j < q /\ q \in DOMAIN list /\ j \in DOMAIN list
      BY <2>1, <3>2
    <3>4. list[j].bits >= list[q].bits
      BY <3>3 DEF Restorable, Sorted
    <3>5. s[p].bits \in Nat
      BY <1>4, <2>2, <3>1
    <3> QED
      BY <1>2, <3>2, <3>4, <3>5 DEF m
  <2>4. \A i \in 1..p - 1 : s[i].bits > m.bits
    BY <2>1
  <2>5. InsertPosition(s, m.bits) = IF p <= Len(s) THEN p ELSE 1
    BY <1>2, <1>4, <2>2, <2>3, <2>4, InsertPositionIs
  <2> QED
    BY <2>1, <2>5
<1>9. InsertAt(s, 1, m) = Suffix(list, k)
  <2>1. PICK p \in 1..Len(s) + 1 : p = 1
    BY <1>4
  <2> DEFINE u == InsertAt(s, p, m)
  <2>2. u \in Seq(Mappings) /\ Len(u) = Len(s) + 1
    BY <1>2, <1>4, InsertAtFacts
  <2>3. \A i \in 1..Len(s) + 1 : u[i] = IF i < p THEN s[i] ELSE IF i = p THEN m ELSE s[i - 1]
    <3>1. s \in Seq(Mappings) /\ m \in Mappings
      BY <1>2, <1>4
    <3> QED
      BY <3>1, InsertAtFacts, SMTT(60)
  <2> HIDE DEF u
  <2> DEFINE f == Suffix(list, k)
  <2>4. f = [i \in 1..k |-> f[i]] /\ \A i \in 1..k : f[i] = list[n - k + i]
    BY DEF Suffix
  <2> HIDE DEF f
  <2>5. ASSUME NEW i \in 1..k PROVE f[i] = u[i]
    <3>1. CASE i = 1
      <4>1. u[i] = m /\ n - k + i = j
        BY <1>1, <1>4, <2>1, <2>3, <3>1
      <4> QED
        BY <2>4, <4>1 DEF m
    <3>2. CASE i # 1
      <4>1. PICK h \in 1..k - 1 : h = i - 1
        BY <3>2
      <4>2. u[i] = s[h]
        BY <1>4, <2>1, <2>3, <3>2, <4>1
      <4>3. PICK q \in 1..n : q = j + h /\ s[h] = list[q]
        BY <1>5
      <4>4. q = n - k + i
        BY <1>1, <4>1, <4>3
      <4> QED
        BY <2>4, <4>2, <4>3, <4>4
    <3> QED
      BY <3>1, <3>2
  <2>6. f = u
    <3>1. k \in Nat /\ Len(u) = k
      BY <1>4, <2>2
    <3> QED
      BY <2>2, <2>4, <2>5, <3>1, SeqEqual
  <2> QED
    BY <2>1, <2>6 DEF f, u
<1>10. Effect(s, t) = Suffix(list, k)
  BY <1>7, <1>8, <1>9 DEF InsertMapping
<1>11. list[Len(list) - k + 1] = m
  BY <1>1 DEF m
<1> QED
  BY <1>2, <1>3, <1>10, <1>11 DEF t, s

NoneSaves(open) == \A i \in 1..Len(open) : NoSave(open[i].rest)

\* The files that SAVE wrote to their ends hold the lists that were saved.
SavedFiles ==
    \A f \in DOMAIN saved :
        /\ f \in DOMAIN files /\ saved[f] \in Seq(Mappings) /\ Unique(saved[f])
        /\ Len(saved[f]) <= Cardinality(Nodes)
        /\ files[f] = [texts |-> SavedTexts(saved[f]), ended |-> TRUE]

\* SAVE comes from the FIFO alone.
SaveAlone ==
    /\ \A f \in DOMAIN files : NoSave(files[f].texts)
    /\ NoneSaves(stack)
    /\ todo.op = "SAVE" /\ pc \in {"line", "save"} => stack = <<>> /\ last = NoFile

\* How far save_mapping_list is.
Saving ==
    pc = "save" =>
        /\ todo.file \notin DOMAIN saved
        /\ \E k \in 0..Len(order) :
              /\ cur = At(order, Len(order) - k)
              /\ out = [i \in 1..k + 1 |-> SavedTexts(Listed)[i]]

SaveInv == SavedFiles /\ SaveAlone /\ Saving

\* The stages of reading a saved file whose list can be restored: the LOAD
\* line, the file before its first line, behind its k-th line, and its end.
ToRestore == last \in DOMAIN saved /\ Restorable(saved[last])
ToLoad == pc = "line" /\ todo.op = "LOAD" /\ todo.file = last /\ stack = <<>>
ToRead == pc = "read" /\ stack = <<Opened(files[last])>>
Behind(k) ==
    /\ stack # <<>> /\ Tail(stack) = <<>> /\ stack[1].ended
    /\ stack[1].rest = SubSeq(SavedTexts(saved[last]), k + 1, Len(saved[last]) + 1)
    /\ stack[1].eof => k = Len(saved[last]) + 1
    /\ line = Cut(SavedTexts(saved[last])[k])
    /\ Outcome = Suffix(saved[last], k - 1)
    /\ pc \in {"read", "line", "find", "insert", "clear"}
    /\ pc = "line" => todo.op = "NOP"
    /\ pc \in {"find", "insert"} => todo = SavedTexts(saved[last])[k]
Restored == pc = "idle" /\ Listed = saved[last]
LoadInv ==
    ToRestore => ToLoad \/ ToRead \/ (\E k \in 1..Len(saved[last]) + 1 : Behind(k)) \/ Restored

FileInv == LineInv /\ SaveInv

\* The empty file name is no file's.
LEMMA NoFileIs ==
    ASSUME TypeInv, SavedFiles
    PROVE  NoFile \notin DOMAIN saved /\ NoFile \notin DOMAIN files
BY DiskAssumption DEF TypeInv, FileTypes, SavedFiles

\* A file, and the open files, of which none has a SAVE line, when one is read
\* on, opened or closed.
LEMMA TailNoSave ==
    ASSUME NEW texts \in Seq(Texts), texts # <<>>, NoSave(texts)
    PROVE  NoSave(Tail(texts)) /\ Head(texts).op # "SAVE"
<1>1. /\ Len(texts) \in Nat \ {0} /\ Head(texts) = texts[1]
      /\ Tail(texts) \in Seq(Texts) /\ Len(Tail(texts)) = Len(texts) - 1
      /\ \A i \in 1..Len(texts) - 1 : Tail(texts)[i] = texts[i + 1]
  BY TailFacts
<1>2. \A i \in 1..Len(texts) - 1 : i + 1 \in 1..Len(texts)
  BY <1>1
<1>3. 1 \in 1..Len(texts)
  BY <1>1
<1> QED
  BY <1>1, <1>2, <1>3 DEF NoSave

LEMMA StackNoSave ==
    ASSUME NEW open \in Seq(Frames), NoneSaves(open)
    PROVE  /\ open # <<>> => NoSave(Head(open).rest) /\ NoneSaves(Tail(open))
           /\ \A file \in Frames : NoSave(file.rest) => NoneSaves(<<file>> \o open)
<1>1. ASSUME open # <<>> PROVE NoSave(Head(open).rest) /\ NoneSaves(Tail(open))
  <2>1. /\ Len(open) \in Nat \ {0} /\ Head(open) = open[1] /\ Len(Tail(open)) = Len(open) - 1
        /\ \A i \in 1..Len(open) - 1 : Tail(open)[i] = open[i + 1]
    BY <1>1, TailFacts
  <2>2. 1 \in 1..Len(open) /\ \A i \in 1..Len(open) - 1 : i + 1 \in 1..Len(open)
    BY <2>1
  <2> QED
    BY <2>1, <2>2 DEF NoneSaves
<1>2. ASSUME NEW file \in Frames, NoSave(file.rest) PROVE NoneSaves(<<file>> \o open)
  <2> DEFINE new == <<file>> \o open
  <2>1. /\ Len(new) = Len(open) + 1
        /\ \A i \in 1..Len(open) + 1 : new[i] = IF i = 1 THEN file ELSE open[i - 1]
    BY PushFacts
  <2>2. \A i \in 1..Len(open) + 1 : i # 1 => i - 1 \in 1..Len(open)
    OBVIOUS
  <2> HIDE DEF new
  <2> QED
    BY <1>2, <2>1, <2>2 DEF NoneSaves
<1> QED
  BY <1>1, <1>2

LEMMA StackShrinks ==
    ASSUME ReadTypes, NoneSaves(stack), Done \/ Failed \/ FileEnd
    PROVE  NoneSaves(stack')
<1>1. stack' = stack \/ stack' = <<>> \/ (stack # <<>> /\ stack' = Tail(stack))
  BY DEF Done, Failed, FileEnd, ReadTypes
<1>2. NoneSaves(<<>>)
  BY DEF NoneSaves
<1> QED
  BY <1>1, <1>2, StackNoSave DEF ReadTypes

(***************************************************************************)
(* No file that is read has a SAVE line: SAVE writes none.                 *)
(***************************************************************************)
LEMMA SaveAloneNext ==
    ASSUME LineInv, SaveInv, [Next]_vars
    PROVE  SaveAlone'
<1> USE DEF SaveInv
<1>0. /\ TypeInv /\ FileTypes /\ ReadTypes /\ StoreInv
      /\ stack \in Seq(Frames) /\ NoneSaves(stack) /\ \A f \in DOMAIN files : NoSave(files[f].texts)
  BY DEF LineInv, StoreInv, TypeInv, ReadTypes, SaveAlone
<1>1. ASSUME NoneSaves(stack'), UNCHANGED files, pc' \notin {"line", "save"} \/ todo'.op # "SAVE"
      PROVE  SaveAlone'
  BY <1>0, <1>1 DEF SaveAlone
<1>2. CASE FgetsLine
  <2> DEFINE file == Head(stack)
             text == Head(file.rest)
             read == [file EXCEPT !.rest = Tail(@), !.eof = Len(file.rest) = 1 /\ ~file.ended]
  <2>1. file \in Frames /\ stack # <<>> /\ file.rest # <<>> /\ Tail(stack) \in Seq(Frames)
    BY <1>0, <1>2, TailFacts DEF FgetsLine, ReadTypes
  <2>2. NoSave(file.rest) /\ NoneSaves(Tail(stack))
    BY <1>0, <2>1, StackNoSave
  <2>3. file.rest \in Seq(Texts)
    BY <2>1 DEF Frames
  <2>4. NoSave(Tail(file.rest)) /\ text.op # "SAVE" /\ Tail(file.rest) \in Seq(Texts)
    BY <2>1, <2>2, <2>3, TailNoSave
  <2>5. read \in Frames /\ read.rest = Tail(file.rest)
    BY <2>1, <2>4 DEF Frames
  <2>6. /\ stack' = <<read>> \o Tail(stack) /\ UNCHANGED files /\ pc = "read"
        /\ IF text.op = "COMMENT" THEN UNCHANGED <<todo, pc>> ELSE RunText(text)
    BY <1>2 DEF FgetsLine
  <2> HIDE DEF read, text
  <2>7. NoneSaves(stack')
    BY <2>1, <2>2, <2>4, <2>5, <2>6, StackNoSave
  <2>8. pc' \notin {"line", "save"} \/ todo'.op # "SAVE"
    BY <2>4, <2>6 DEF RunText
  <2> QED
    BY <1>1, <2>6, <2>7, <2>8
<1>3. CASE FgetsEnd
  <2> DEFINE file == Head(stack)
             read == [file EXCEPT !.eof = TRUE]
  <2>1. file \in Frames /\ stack # <<>> /\ Tail(stack) \in Seq(Frames)
    BY <1>0, <1>3, TailFacts DEF FgetsEnd, ReadTypes
  <2>2. NoSave(file.rest) /\ NoneSaves(Tail(stack))
    BY <1>0, <2>1, StackNoSave
  <2>3. read \in Frames /\ read.rest = file.rest
    BY <2>1 DEF Frames
  <2>4. /\ stack' = <<read>> \o Tail(stack) /\ UNCHANGED files /\ pc = "read"
        /\ IF line.op = "COMMENT" THEN UNCHANGED <<todo, pc>> ELSE RunText(line)
    BY <1>3 DEF FgetsEnd
  <2> HIDE DEF read
  <2>5. NoneSaves(stack')
    BY <2>1, <2>2, <2>3, <2>4, StackNoSave
  <2>6. line.op # "SAVE"
    BY DEF LineInv, RereadInv
  <2>7. pc' \notin {"line", "save"} \/ todo'.op # "SAVE"
    BY <2>4, <2>6 DEF RunText
  <2> QED
    BY <1>1, <2>4, <2>5, <2>7
<1>4. CASE Crash
  <2> DEFINE file == Opened(files[Boot])
  <2>1. file \in Frames /\ file.rest = files[Boot].texts /\ NoSave(file.rest)
    BY <1>0 DEF FileTypes, Files, Frames, Opened
  <2>2. stack' = <<file>> /\ UNCHANGED files /\ pc' = "read"
    BY <1>4 DEF Crash
  <2> HIDE DEF file
  <2>3. NoneSaves(stack')
    BY <2>1, <2>2 DEF NoneSaves
  <2> QED
    BY <1>1, <2>2, <2>3
<1>5. ASSUME NEW text \in FifoLines, FifoLine(text) PROVE SaveAlone'
  <2>1. UNCHANGED <<files, stack>> /\ todo' = text /\ pc = "idle"
    BY <1>5 DEF FifoLine, reader, RunText
  <2>2. text.op = "SAVE" => last' = NoFile /\ stack = <<>>
    BY <1>0, <1>5, <2>1 DEF FifoLine, ReadTypes
  <2> QED
    BY <1>0, <2>1, <2>2 DEF SaveAlone
<1>6. CASE FileEnd
  <2>1. NoneSaves(stack') /\ UNCHANGED files /\ pc' \notin {"line", "save"}
    BY <1>0, <1>6, StackShrinks DEF FileEnd
  <2> QED
    BY <1>1, <2>1
<1>7. CASE Load
  <2>1. UNCHANGED files /\ pc' \notin {"line", "save"}
    BY <1>7 DEF Load, Failed
  <2>2. NoneSaves(stack')
    <3>1. CASE Failed
      BY <1>0, <3>1, StackShrinks
    <3>2. CASE ~Failed
      <4> DEFINE file == Opened(files[todo.file])
      <4>1. todo.file \in DOMAIN files /\ stack' = <<file>> \o stack
        BY <1>7, <3>2 DEF Load
      <4>2. file \in Frames /\ NoSave(file.rest)
        BY <1>0, <4>1 DEF FileTypes, Files, Frames, Opened
      <4> HIDE DEF file
      <4> QED
        BY <1>0, <4>1, <4>2, StackNoSave
    <3> QED
      BY <3>1, <3>2
  <2> QED
    BY <1>1, <2>1, <2>2
<1>8. CASE SendKey \/ Accept \/ Reject \/ InsertFails \/ ClearEnd \/ \E new \in Nodes : Insert(new)
  <2>1. UNCHANGED files /\ (Done \/ Failed)
    BY <1>8 DEF SendKey, Accept, Reject, InsertFails, ClearEnd, Insert
  <2>2. pc' \notin {"line", "save"}
    BY <2>1 DEF Done, Failed
  <2> QED
    BY <1>0, <1>1, <2>1, <2>2, StackShrinks
<1>9. CASE FindNext \/ FindNothing \/ RemoveFound \/ InsertNext \/ ClearNext
  <2>1. UNCHANGED files /\ (Done \/ Failed \/ UNCHANGED stack) /\ pc' \notin {"line", "save"}
    BY <1>9 DEF FindNext, FindNothing, RemoveFound, matched, InsertNext, ClearNext, reader, Done, Failed
  <2> QED
    BY <1>0, <1>1, <2>1, StackShrinks
<1>10. CASE SaveStart
  <2>1. CASE Failed /\ UNCHANGED files
    <3>1. pc' \notin {"line", "save"}
      BY <2>1 DEF Failed
    <3> QED
      BY <1>0, <1>1, <2>1, <3>1, StackShrinks
  <2>2. CASE ~(Failed /\ UNCHANGED files)
    <3>1. /\ pc = "line" /\ todo.op = "SAVE" /\ UNCHANGED <<stack, todo, last>>
          /\ files' = [f \in DOMAIN files \cup {todo.file} |->
                         IF f = todo.file THEN [texts |-> <<>>, ended |-> TRUE] ELSE files[f]]
      BY <1>10, <2>2 DEF SaveStart
    <3>2. \A f \in DOMAIN files' : NoSave(files'[f].texts)
      BY <1>0, <3>1 DEF NoSave
    <3> QED
      BY <3>1, <3>2 DEF SaveAlone
  <2> QED
    BY <2>1, <2>2
<1>11. CASE SaveNext
  BY <1>11 DEF SaveNext, reader, history, SaveAlone
<1>12. CASE SaveEnd
  <2>1. pc' \notin {"line", "save"} /\ NoneSaves(stack')
    <3>1. Done \/ Failed
      BY <1>12 DEF SaveEnd
    <3> QED
      BY <1>0, <3>1, StackShrinks DEF Done, Failed
  <2>2. \A f \in DOMAIN files' : NoSave(files'[f].texts)
    <3>1. NoSave(out)
      <4>1. PICK k \in 0..Len(order) : out = [i \in 1..k + 1 |-> SavedTexts(Listed)[i]]
        BY <1>12 DEF SaveEnd, Saving
      <4>2. Listed \in Seq(Mappings) /\ Len(Listed) = Len(order) /\ Len(order) \in Nat
        BY <1>0, ListedIs, OrderIs DEF StoreInv, TypeInv
      <4>3. NoSave(SavedTexts(Listed)) /\ Len(SavedTexts(Listed)) = Len(order) + 1
            /\ SavedTexts(Listed) \in Seq(Texts)
        BY <4>2, SavedTextsFacts
      <4>4. \A i \in 1..k + 1 : SavedTexts(Listed)[i].op # "SAVE"
        BY <4>2, <4>3 DEF NoSave
      <4> QED
        BY <4>1, <4>4 DEF NoSave
    <3>2. CASE UNCHANGED files
      BY <1>0, <3>2
    <3>3. CASE files' = [files EXCEPT ![todo.file] = [texts |-> out, ended |-> TRUE]]
      BY <1>0, <3>1, <3>3
    <3> QED
      BY <1>12, <3>2, <3>3 DEF SaveEnd
  <2> QED
    BY <2>1, <2>2 DEF SaveAlone
<1>13. CASE UNCHANGED vars
  BY <1>13 DEF vars, SaveAlone
<1> QED
  BY <1>2, <1>3, <1>4, <1>5, <1>6, <1>7, <1>8, <1>9, <1>10, <1>11, <1>12, <1>13
  DEF Next, Step, Read, Find, Place, Clear, Save

\* When the loop of SAVE is back at the head it has printed the whole list.
LEMMA SaveEndOut ==
    ASSUME LineInv, SaveInv, SaveEnd
    PROVE  out = SavedTexts(Listed)
<1>1. StoreInv /\ IInv /\ pc = "save" /\ cur = head
  BY DEF LineInv, StoreInv, SaveEnd
<1>2. PICK k \in 0..Len(order) :
        /\ cur = At(order, Len(order) - k)
        /\ out = [i \in 1..k + 1 |-> SavedTexts(Listed)[i]]
  BY <1>1 DEF SaveInv, Saving
<1>3. Listed \in Seq(Mappings) /\ Len(Listed) = Len(order) /\ Len(order) \in Nat
  BY <1>1, ListedIs, OrderIs DEF StoreInv, TypeInv
<1>4. k = Len(order)
  <2> SUFFICES ASSUME k # Len(order) PROVE FALSE
    OBVIOUS
  <2>1. PICK j \in 1..Len(order) + 1 : j = Len(order) - k /\ j <= Len(order)
    <3> DEFINE n == Len(order)
    <3>1. n \in Nat /\ k \in 0..n /\ k # n
      BY <1>3
    <3> HIDE DEF n
    <3>2. n - k \in 1..n + 1 /\ n - k <= n
      BY <3>1
    <3> QED
      BY <3>2 DEF n
  <2>2. At(order, j) # head
    BY <1>1, <2>1, AtHead
  <2> QED
    BY <1>1, <1>2, <2>1, <2>2
<1>5. SavedTexts(Listed) \in Seq(Texts) /\ Len(SavedTexts(Listed)) = k + 1
  BY <1>3, <1>4, SavedTextsFacts
<1> DEFINE f == [i \in 1..k + 1 |-> SavedTexts(Listed)[i]]
<1>6. f = [i \in 1..k + 1 |-> f[i]] /\ \A i \in 1..k + 1 : f[i] = SavedTexts(Listed)[i]
  OBVIOUS
<1> HIDE DEF f
<1>7. f = SavedTexts(Listed)
  BY <1>5, <1>6, SeqEqual
<1> QED
  BY <1>2, <1>7 DEF f

(***************************************************************************)
(* A saved file stays as it was written until it is saved again.           *)
(***************************************************************************)
LEMMA SavedFilesNext ==
    ASSUME LineInv, SaveInv, [Next]_vars
    PROVE  SavedFiles'
<1>1. StoreInv /\ TypeInv /\ IInv /\ SavedFiles
  BY DEF LineInv, StoreInv, SaveInv
<1>2. CASE UNCHANGED <<files, saved>>
  BY <1>1, <1>2 DEF SavedFiles
<1>3. CASE SaveStart
  <2>1. CASE /\ files' = [f \in DOMAIN files \cup {todo.file} |->
                            IF f = todo.file THEN [texts |-> <<>>, ended |-> TRUE] ELSE files[f]]
             /\ saved' = [f \in DOMAIN saved \ {todo.file} |-> saved[f]]
    BY <1>1, <2>1 DEF SavedFiles
  <2> QED
    BY <1>2, <1>3, <2>1 DEF SaveStart
<1>4. CASE SaveEnd
  <2>1. CASE /\ files' = [files EXCEPT ![todo.file] = [texts |-> out, ended |-> TRUE]]
             /\ saved' = [f \in DOMAIN saved \cup {todo.file} |->
                            IF f = todo.file THEN Listed ELSE saved[f]]
    <3>1. todo.file \in DOMAIN files
      BY <1>1, <1>4 DEF SaveEnd, TypeInv, PcTypes
    <3>2. out = SavedTexts(Listed)
      BY <1>4, SaveEndOut
    <3>3. Listed \in Seq(Mappings) /\ Unique(Listed) /\ Len(Listed) <= Cardinality(Nodes)
      BY <1>1, ListedIs, OrderIs DEF StoreInv, TypeInv, LoopInv
    <3> QED
      BY <1>1, <2>1, <3>1, <3>2, <3>3 DEF SavedFiles
  <2> QED
    BY <1>2, <1>4, <2>1 DEF SaveEnd
<1>5. CASE Read \/ Load \/ SendKey \/ Accept \/ Reject \/ Crash \/ \E text \in FifoLines : FifoLine(text)
  BY <1>2, <1>5 DEF Read, FgetsLine, FgetsEnd, FileEnd, Load, SendKey, Accept, Reject, Crash, FifoLine,
                    reader, history
<1>6. CASE Find \/ Place
  BY <1>2, <1>6 DEF Find, FindNext, FindNothing, RemoveFound, Place, InsertFails, InsertNext, Insert,
                    reader, history
<1>7. CASE Clear \/ SaveNext
  BY <1>2, <1>7 DEF Clear, ClearNext, ClearEnd, SaveNext, reader, history
<1>8. CASE UNCHANGED vars
  BY <1>2, <1>8 DEF vars
<1> QED
  BY <1>3, <1>4, <1>5, <1>6, <1>7, <1>8 DEF Next, Step, Save

(***************************************************************************)
(* The loop of SAVE has printed the last mappings, from the last on.       *)
(***************************************************************************)
LEMMA SavingNext ==
    ASSUME LineInv, SaveInv, [Next]_vars
    PROVE  Saving'
<1>1. StoreInv /\ TypeInv /\ IInv
  BY DEF LineInv, StoreInv
<1>2. Listed \in Seq(Mappings) /\ Len(Listed) = Len(order) /\ Len(order) \in Nat
      /\ \A i \in 1..Len(order) : Listed[i] = entry[order[i]]
  BY <1>1, ListedIs, OrderIs DEF StoreInv, TypeInv
<1>3. CASE pc' # "save"
  BY <1>3 DEF Saving
<1>4. CASE SaveStart /\ pc' = "save"
  <2>1. /\ todo' = todo /\ UNCHANGED heap /\ out' = <<Text("CLEAR")>> /\ cur' = links.prev[head]
        /\ saved' = [f \in DOMAIN saved \ {todo.file} |-> saved[f]]
    BY <1>4 DEF SaveStart, Failed
  <2>2. order' = order /\ Listed' = Listed
    BY <2>1, ListedSame
  <2>3. PICK k \in 0..Len(order) : k = 0
    BY <1>2
  <2>4. cur' = At(order', Len(order') - k)
    <3>1. PICK j \in 1..Len(order) + 1 : j = Len(order) + 1 /\ j - 1 = Len(order) - k
      BY <1>2, <2>3
    <3>2. At(order, j) = head
      BY <1>2, <3>1 DEF At
    <3>3. links.prev[At(order, j)] = At(order, j - 1)
      BY <1>1, AtHead
    <3> QED
      BY <2>1, <2>2, <3>1, <3>2, <3>3
  <2>5. out' = [i \in 1..k + 1 |-> SavedTexts(Listed')[i]]
    <3>1. SavedTexts(Listed)[1] = Text("CLEAR")
      BY <1>2, SavedTextsFacts
    <3>2. [i \in 1..k + 1 |-> SavedTexts(Listed)[i]] = <<SavedTexts(Listed)[1]>>
      BY <2>3
    <3> QED
      BY <2>1, <2>2, <3>1, <3>2
  <2>6. todo'.file \notin DOMAIN saved'
    BY <2>1
  <2> QED
    BY <2>2, <2>4, <2>5, <2>6 DEF Saving
<1>5. CASE SaveNext
  <2>1. /\ UNCHANGED heap /\ UNCHANGED <<todo, saved, pc>> /\ pc = "save" /\ cur # head
        /\ out' = Append(out, SavedText(entry[cur])) /\ cur' = links.prev[cur]
    BY <1>5 DEF SaveNext, reader, history
  <2>2. order' = order /\ Listed' = Listed
    BY <2>1, ListedSame
  <2>3. todo.file \notin DOMAIN saved
    BY <2>1 DEF SaveInv, Saving
  <2>4. PICK k \in 0..Len(order) :
          /\ cur = At(order, Len(order) - k)
          /\ out = [i \in 1..k + 1 |-> SavedTexts(Listed)[i]]
    BY <2>1 DEF SaveInv, Saving
  <2>5. k # Len(order)
    BY <2>1, <2>4 DEF At
  <2>6. PICK j \in 1..Len(order) : j = Len(order) - k
    BY <1>2, <2>5
  <2>7. PICK h \in 0..Len(order) : h = k + 1 /\ Len(order) - h = j - 1
    <3>1. k + 1 \in 0..Len(order) /\ Len(order) - (k + 1) = j - 1
      BY <1>2, <2>5, <2>6
    <3> QED
      BY <3>1
  <2>8. cur' = At(order', Len(order') - h)
    <3>1. j \in 1..Len(order) + 1
      BY <1>2
    <3>2. links.prev[At(order, j)] = At(order, j - 1)
      BY <1>1, <3>1, AtHead
    <3> QED
      BY <2>1, <2>2, <2>4, <2>6, <2>7, <3>2
  <2>9. SavedTexts(Listed)[h + 1] = SavedText(entry[cur])
    <3>1. cur = order[j] /\ Listed[j] = entry[order[j]]
      BY <1>2, <2>4, <2>6 DEF At
    <3>2. PICK i \in 2..Len(Listed) + 1 : i = h + 1 /\ Len(Listed) - i + 2 = j
      BY <1>2, <2>6, <2>7
    <3>3. SavedTexts(Listed)[i] = SavedText(Listed[Len(Listed) - i + 2])
      BY <1>2, SavedTextsFacts
    <3> QED
      BY <3>1, <3>2, <3>3
  <2>10. out' = [i \in 1..h + 1 |-> SavedTexts(Listed')[i]]
    <3> DEFINE e == SavedText(entry[cur])
               all == SavedTexts(Listed)
    <3> HIDE DEF e, all
    <3>1. Append(out, e) = [i \in 1..k + 2 |-> IF i = k + 2 THEN e ELSE out[i]]
      <4>1. Len(out) = k + 1 /\ out = [i \in 1..k + 1 |-> out[i]]
        BY <2>4
      <4> QED
        BY <4>1
    <3>2. \A i \in 1..k + 2 : (IF i = k + 2 THEN e ELSE out[i]) = all[i]
      BY <2>4, <2>7, <2>9 DEF e, all
    <3> QED
      BY <2>1, <2>2, <2>7, <3>1, <3>2 DEF e, all
  <2> QED
    BY <2>1, <2>2, <2>3, <2>8, <2>10 DEF Saving
<1>6. CASE UNCHANGED vars
  <2>1. order' = order /\ Listed' = Listed
    BY <1>6, ListedSame DEF vars, heap
  <2> QED
    BY <1>6, <2>1 DEF vars, SaveInv, Saving
<1>7. CASE SaveEnd \/ Load \/ SendKey \/ Accept \/ Reject \/ Crash \/ FileEnd
  BY <1>3, <1>7 DEF SaveEnd, Load, SendKey, Accept, Reject, Crash, FileEnd, Done, Failed
<1>8. CASE FgetsLine \/ FgetsEnd \/ \E text \in FifoLines : FifoLine(text)
  BY <1>3, <1>8 DEF FgetsLine, FgetsEnd, FifoLine, RunText
<1>9. CASE Find \/ Place \/ Clear
  BY <1>3, <1>9 DEF Find, FindNext, FindNothing, RemoveFound, matched, Place, InsertFails, InsertNext, Insert,
                    Clear, ClearNext, ClearEnd, Done, Failed
<1> QED
  BY <1>3, <1>4, <1>5, <1>6, <1>7, <1>8, <1>9 DEF Next, Step, Read, Save

LEMMA FileInit == Init => FileInv
<1> SUFFICES ASSUME Init PROVE FileInv
  OBVIOUS
<1>1. LineInv
  BY LineInit
<1>2. SavedFiles /\ Saving
  BY DEF Init, SavedFiles, Saving
<1>3. SaveAlone
  <2>1. \A f \in DOMAIN files : NoSave(files[f].texts)
    BY DiskAssumption DEF Init, NoSave
  <2>2. files[Boot] \in Files /\ Boot \in DOMAIN files
    BY DiskAssumption DEF Init
  <2>3. stack = <<Opened(files[Boot])>> /\ Opened(files[Boot]).rest = files[Boot].texts
    BY DEF Init, Opened
  <2>4. NoneSaves(stack)
    BY <2>1, <2>2, <2>3 DEF NoneSaves
  <2> QED
    BY <2>1, <2>4 DEF Init, SaveAlone, Text
<1> QED
  BY <1>1, <1>2, <1>3 DEF FileInv, SaveInv

LEMMA FileNext ==
    ASSUME FileInv, [Next]_vars
    PROVE  FileInv'
BY LineNext, SavedFilesNext, SaveAloneNext, SavingNext DEF FileInv, SaveInv

\* What is left of a file behind its k-th line.
LEMMA RestFacts ==
    ASSUME NEW S, NEW s \in Seq(S), NEW k \in 1..Len(s), SubSeq(s, k + 1, Len(s)) # <<>>
    PROVE  /\ k + 1 \in 1..Len(s)
           /\ Head(SubSeq(s, k + 1, Len(s))) = s[k + 1]
           /\ Tail(SubSeq(s, k + 1, Len(s))) = SubSeq(s, k + 2, Len(s))
<1> DEFINE r == SubSeq(s, k + 1, Len(s))
           u == SubSeq(s, k + 2, Len(s))
<1>1. /\ r \in Seq(S) /\ Len(r) = Len(s) - k /\ \A i \in 1..Len(s) - k : r[i] = s[k + i]
  OBVIOUS
<1>2. k + 1 \in 1..Len(s)
  <2>1. Len(r) # 0
    BY <1>1
  <2> QED
    BY <1>1, <2>1
<1>3. /\ u \in Seq(S) /\ Len(u) = Len(s) - k - 1
      /\ \A i \in 1..Len(s) - k - 1 : u[i] = s[k + 1 + i]
  BY <1>2
<1> HIDE DEF r, u
<1>4. r # <<>>
  BY DEF r
<1>5. /\ Head(r) = r[1] /\ Tail(r) \in Seq(S) /\ Len(Tail(r)) = Len(r) - 1
      /\ \A i \in 1..Len(r) - 1 : Tail(r)[i] = r[i + 1]
  BY <1>1, <1>4, TailFacts
<1>6. Head(r) = s[k + 1]
  <2>1. 1 \in 1..Len(s) - k
    BY <1>2
  <2>2. r[1] = s[k + 1]
    BY <1>1, <2>1
  <2> QED
    BY <1>5, <2>2
<1>7. \A i \in 1..Len(s) - k - 1 : Tail(r)[i] = u[i]
  <2> SUFFICES ASSUME NEW i \in 1..Len(s) - k - 1 PROVE Tail(r)[i] = u[i]
    OBVIOUS
  <2>1. PICK j \in 1..Len(s) - k : j = i + 1 /\ k + j = k + 1 + i
    BY <1>2
  <2> QED
    BY <1>1, <1>3, <1>5, <2>1
<1>8. Tail(r) = u
  <2> DEFINE f == Tail(r)
             m == Len(s) - k - 1
  <2>1. f \in Seq(S) /\ Len(f) = m /\ m \in Nat
    BY <1>1, <1>2, <1>5
  <2>2. u \in Seq(S) /\ Len(u) = m /\ \A i \in 1..m : f[i] = u[i]
    BY <1>3, <1>7
  <2> HIDE DEF f, m
  <2>3. f = [i \in 1..m |-> f[i]]
    BY <2>1
  <2>4. f = u
    BY <2>1, <2>2, <2>3, SeqEqual
  <2> QED
    BY <2>4 DEF f
<1> QED
  BY <1>2, <1>6, <1>8 DEF r, u

LEMMA RestEmpty ==
    ASSUME NEW S, NEW s \in Seq(S), NEW k \in 1..Len(s), SubSeq(s, k + 1, Len(s)) = <<>>
    PROVE  k = Len(s)
<1> DEFINE r == SubSeq(s, k + 1, Len(s))
<1>1. r \in Seq(S) /\ Len(r) = Len(s) - k
  OBVIOUS
<1>2. r = <<>>
  OBVIOUS
<1> HIDE DEF r
<1>3. Len(r) = 0
  BY <1>2
<1> QED
  BY <1>1, <1>3

\* The list to restore and its file.
LEMMA ToRestoreFacts ==
    ASSUME FileInv, ToRestore
    PROVE  /\ last \in DOMAIN saved /\ last \in DOMAIN files
           /\ saved[last] \in Seq(Mappings) /\ Unique(saved[last]) /\ Restorable(saved[last])
           /\ Len(saved[last]) <= Cardinality(Nodes) /\ Len(saved[last]) \in Nat
           /\ files[last] = [texts |-> SavedTexts(saved[last]), ended |-> TRUE]
           /\ SavedTexts(saved[last]) \in Seq(Texts)
           /\ Len(SavedTexts(saved[last])) = Len(saved[last]) + 1
<1>1. /\ last \in DOMAIN saved /\ last \in DOMAIN files
      /\ saved[last] \in Seq(Mappings) /\ Unique(saved[last]) /\ Restorable(saved[last])
      /\ Len(saved[last]) <= Cardinality(Nodes)
      /\ files[last] = [texts |-> SavedTexts(saved[last]), ended |-> TRUE]
  BY DEF FileInv, SaveInv, SavedFiles, ToRestore
<1> QED
  BY <1>1, SavedTextsFacts

\* The lines of a saved file, and what is left of them in the buffer.
LEMMA SavedLine ==
    ASSUME NEW list \in Seq(Mappings), Restorable(list), Unique(list),
           Len(list) <= Cardinality(Nodes), NEW k \in 1..Len(list) + 1
    PROVE  /\ k = 1 => /\ SavedTexts(list)[k] = Text("CLEAR")
                       /\ Cut(SavedTexts(list)[k]) = Text("CLEAR")
           /\ k # 1 => /\ Maps(SavedTexts(list)[k])
                       /\ SavedTexts(list)[k].mask = list[Len(list) - k + 2].mask
                       /\ Cut(SavedTexts(list)[k]) = Text("NOP")
                       /\ Effect(Suffix(list, k - 2), SavedTexts(list)[k]) = Suffix(list, k - 1)
<1>1. SavedTexts(list)[1] = Text("CLEAR")
  BY SavedTextsFacts
<1>2. Cut(Text("CLEAR")) = Text("CLEAR")
  BY DEF Cut, Text
<1>3. CASE k # 1
  <2>1. PICK i \in 2..Len(list) + 1 : i = k
    BY <1>3
  <2>2. PICK j \in 1..Len(list) : j = k - 1
    BY <1>3
  <2>3. Len(list) - i + 2 = Len(list) - j + 1 /\ k - 2 = j - 1 /\ Len(list) - k + 2 = Len(list) - j + 1
    BY <2>1, <2>2
  <2> DEFINE m == list[Len(list) - j + 1]
  <2>4. SavedTexts(list)[i] = SavedText(list[Len(list) - i + 2])
    BY SavedTextsFacts
  <2>5. SavedTexts(list)[k] = SavedText(m)
    BY <2>1, <2>3, <2>4
  <2>6. /\ Maps(SavedText(m)) /\ SavedText(m).mask = m.mask
        /\ Effect(Suffix(list, j - 1), SavedText(m)) = Suffix(list, j)
    BY RestoreStep
  <2> HIDE DEF m
  <2>7. \A text : Maps(text) => Cut(text) = Text("NOP")
    BY DEF Maps, Cut
  <2>8. list[Len(list) - k + 2] = m
    BY <2>3 DEF m
  <2> QED
    BY <1>3, <2>2, <2>3, <2>5, <2>6, <2>7, <2>8
<1> QED
  BY <1>1, <1>2, <1>3

(***************************************************************************)
(* The stages of reading a saved file: LOAD opens it, CLEAR is its first   *)
(* line, each MAP line leads one line on, and at the end the list is as it *)
(* was when it was saved.                                                  *)
(***************************************************************************)
LEMMA LoadOpens ==
    ASSUME FileInv, ToRestore, ToLoad, Load
    PROVE  ToRead'
<1>1. last \in DOMAIN files /\ files[last] \in Files
  BY ToRestoreFacts DEF FileInv, LineInv, StoreInv, TypeInv, FileTypes
<1>2. Len(stack) < MaxOpen /\ stack = <<>>
  <2>1. stack = <<>> /\ Len(<<>>) = 0
    BY DEF ToLoad
  <2> QED
    BY <2>1, BoundAssumption
<1>3. stack' = <<Opened(files[todo.file])>> \o stack /\ pc' = "read" /\ UNCHANGED <<files, last>>
      /\ todo.file = last
  BY <1>1, <1>2 DEF Load, ToLoad, history
<1>4. stack' = <<Opened(files[last])>>
  BY <1>1, <1>2, <1>3
<1> QED
  BY <1>3, <1>4 DEF ToRead

LEMMA LoadFirst ==
    ASSUME FileInv, ToRestore, ToRead, FgetsLine
    PROVE  Behind(1)'
<1> DEFINE list == saved[last]
           texts == SavedTexts(list)
           file == Opened(files[last])
           read == [file EXCEPT !.rest = Tail(@), !.eof = Len(file.rest) = 1 /\ ~file.ended]
<1>1. /\ list \in Seq(Mappings) /\ Len(list) \in Nat /\ texts \in Seq(Texts) /\ Len(texts) = Len(list) + 1
      /\ files[last] = [texts |-> texts, ended |-> TRUE]
  BY ToRestoreFacts
<1>2. texts # <<>> /\ Head(texts) = Text("CLEAR") /\ Tail(texts) = SubSeq(texts, 2, Len(list) + 1)
  <2>1. texts # <<>> /\ texts[1] = Text("CLEAR")
    BY <1>1, SavedTextsFacts
  <2> QED
    BY <1>1, <2>1
<1>3. /\ UNCHANGED heap /\ UNCHANGED <<saved, last>> /\ pc = "read"
      /\ stack' = <<[Head(stack) EXCEPT !.rest = Tail(@), !.eof = Len(Head(stack).rest) = 1 /\ ~Head(stack).ended]>> \o Tail(stack)
      /\ line' = Cut(Head(Head(stack).rest))
      /\ Head(Head(stack).rest).op # "COMMENT" => RunText(Head(Head(stack).rest))
  BY DEF FgetsLine
<1>4. Head(stack) = file /\ Tail(stack) = <<>>
  BY DEF ToRead
<1>5. file.rest = texts /\ read.rest = Tail(texts) /\ read.ended /\ ~read.eof
  <2>1. file = [rest |-> texts, ended |-> TRUE, eof |-> FALSE]
    BY <1>1 DEF Opened
  <2>2. file.rest = texts /\ file.ended /\ file \in [rest : {texts}, ended : BOOLEAN, eof : BOOLEAN]
    BY <2>1
  <2> HIDE DEF file
  <2> QED
    BY <2>2
<1>6. stack' = <<read>>
  BY <1>3, <1>4, SingleFacts
<1>7. Head(Head(stack).rest) = Text("CLEAR")
  BY <1>2, <1>4, <1>5
<1>8. Text("CLEAR").op = "CLEAR" /\ Cut(Text("CLEAR")) = Text("CLEAR")
  BY DEF Text, Cut
<1>9. RunText(Text("CLEAR")) /\ line' = Cut(texts[1])
  <2>1. texts[1] = Text("CLEAR")
    BY <1>1, <1>2
  <2> QED
    BY <1>3, <1>7, <1>8, <2>1
<1>10. Outcome' = <<>>
  <2>1. Outcome' = Effect(Outcome, Text("CLEAR"))
    BY <1>3, <1>9, RunTextOutcome DEF FileInv, LineInv
  <2> QED
    BY <1>8, <2>1, EffectClear
<1>11. Suffix(list, 0) = <<>>
  BY <1>1, SuffixFacts
<1>12. pc' = "clear"
  BY <1>8, <1>9 DEF RunText, Maps
<1>13. /\ stack' # <<>> /\ Tail(stack') = <<>> /\ stack'[1].ended /\ ~stack'[1].eof
       /\ stack'[1].rest = SubSeq(texts, 1 + 1, Len(list) + 1)
  <2>1. stack' # <<>> /\ Tail(stack') = <<>> /\ stack'[1] = read
    BY <1>6, SingleFacts
  <2>2. 1 + 1 = 2
    OBVIOUS
  <2> HIDE DEF read
  <2> QED
    BY <1>2, <1>5, <2>1, <2>2
<1>14. saved'[last'] = list /\ SavedTexts(list) = texts
  BY <1>3
<1> HIDE DEF list, texts, file, read
<1>15. Outcome' = Suffix(list, 1 - 1)
  BY <1>10, <1>11
<1> QED
  BY <1>9, <1>12, <1>13, <1>14, <1>15 DEF Behind

LEMMA LoadNextLine ==
    ASSUME FileInv, ToRestore, NEW k \in 1..Len(saved[last]) + 1, Behind(k), FgetsLine
    PROVE  k + 1 \in 1..Len(saved[last]) + 1 /\ Behind(k + 1)'
<1> DEFINE list == saved[last]
           texts == SavedTexts(list)
           file == Head(stack)
           read == [file EXCEPT !.rest = Tail(@), !.eof = Len(file.rest) = 1 /\ ~file.ended]
           text == Head(file.rest)
<1>1. /\ list \in Seq(Mappings) /\ Len(list) \in Nat /\ texts \in Seq(Texts) /\ Len(texts) = Len(list) + 1
      /\ Unique(list) /\ Restorable(list) /\ Len(list) <= Cardinality(Nodes)
  BY ToRestoreFacts
<1>2. /\ UNCHANGED heap /\ UNCHANGED <<saved, last>> /\ pc = "read"
      /\ stack' = <<read>> \o Tail(stack)
      /\ line' = Cut(text) /\ file.rest # <<>>
      /\ text.op # "COMMENT" => RunText(text)
  BY DEF FgetsLine
<1>3. /\ stack \in Seq(Frames) /\ stack # <<>> /\ Tail(stack) = <<>> /\ stack[1].ended
      /\ stack[1].rest = SubSeq(texts, k + 1, Len(list) + 1)
      /\ Outcome = Suffix(list, k - 1)
  BY DEF Behind, FileInv, LineInv, StoreInv, TypeInv, ReadTypes
<1>4. file = stack[1] /\ file \in Frames
  BY <1>3
<1>5. k \in 1..Len(texts) /\ SubSeq(texts, k + 1, Len(texts)) # <<>>
  BY <1>1, <1>2, <1>3, <1>4
<1>6. k + 1 \in 1..Len(texts) /\ text = texts[k + 1] /\ Tail(file.rest) = SubSeq(texts, k + 2, Len(texts))
  BY <1>1, <1>3, <1>4, <1>5, RestFacts
<1>7. read.rest = Tail(file.rest) /\ read.ended /\ ~read.eof
  BY <1>3, <1>4 DEF Frames
<1>8. stack' = <<read>>
  BY <1>2, <1>3, SingleFacts
<1>9. PICK j \in 1..Len(list) + 1 : j = k + 1 /\ j # 1 /\ j - 2 = k - 1 /\ j - 1 = k /\ j + 1 = k + 2
  BY <1>1, <1>6
<1>10. Maps(text) /\ Effect(Suffix(list, k - 1), text) = Suffix(list, k)
  BY <1>1, <1>6, <1>9, SavedLine
<1>11. text.op # "COMMENT" /\ text.op # "CLEAR"
  BY <1>10 DEF Maps
<1>12. RunText(text)
  BY <1>2, <1>11
<1> HIDE DEF text, read, file
<1>13. Outcome' = Suffix(list, k)
  <2>1. Outcome' = Effect(Outcome, text)
    BY <1>2, <1>12, RunTextOutcome DEF FileInv, LineInv
  <2> QED
    BY <1>3, <1>10, <2>1
<1>14. pc' = "find" /\ todo' = text
  BY <1>10, <1>11, <1>12 DEF RunText
<1>15. stack' # <<>> /\ Tail(stack') = <<>> /\ stack'[1] = read
  BY <1>8
<1>16. read.rest = SubSeq(texts, j + 1, Len(list) + 1)
  BY <1>1, <1>6, <1>7, <1>9
<1>17. saved'[last'] = list
  BY <1>2
<1> HIDE DEF list
<1>18. Behind(j)'
  BY <1>2, <1>6, <1>7, <1>9, <1>13, <1>14, <1>15, <1>16, <1>17 DEF Behind
<1> QED
  BY <1>9, <1>18 DEF list

LEMMA LoadEnd ==
    ASSUME FileInv, ToRestore, NEW k \in 1..Len(saved[last]) + 1, Behind(k), FgetsEnd
    PROVE  Behind(k)'
<1> DEFINE list == saved[last]
           texts == SavedTexts(list)
           file == Head(stack)
           read == [file EXCEPT !.eof = TRUE]
<1>1. /\ list \in Seq(Mappings) /\ Len(list) \in Nat /\ texts \in Seq(Texts) /\ Len(texts) = Len(list) + 1
      /\ Unique(list) /\ Restorable(list) /\ Len(list) <= Cardinality(Nodes)
  BY ToRestoreFacts
<1>2. /\ UNCHANGED heap /\ UNCHANGED <<saved, last, line>> /\ pc = "read"
      /\ stack' = <<read>> \o Tail(stack) /\ file.rest = <<>>
      /\ line.op # "COMMENT" => RunText(line)
  BY DEF FgetsEnd
<1>3. /\ stack \in Seq(Frames) /\ stack # <<>> /\ Tail(stack) = <<>> /\ stack[1].ended
      /\ stack[1].rest = SubSeq(texts, k + 1, Len(list) + 1)
      /\ Outcome = Suffix(list, k - 1) /\ line = Cut(texts[k])
  BY DEF Behind, FileInv, LineInv, StoreInv, TypeInv, ReadTypes
<1>4. file = stack[1] /\ file \in Frames
  BY <1>3
<1>5. k = Len(list) + 1
  <2>1. k \in 1..Len(texts) /\ SubSeq(texts, k + 1, Len(texts)) = <<>>
    BY <1>1, <1>2, <1>3, <1>4
  <2>2. k = Len(texts)
    BY <1>1, <2>1, RestEmpty
  <2> QED
    BY <1>1, <2>2
<1>6. read.rest = file.rest /\ read.ended
  BY <1>3, <1>4 DEF Frames
<1>7. stack' = <<read>>
  BY <1>2, <1>3, SingleFacts
<1>8. stack' # <<>> /\ Tail(stack') = <<>> /\ stack'[1] = read
  BY <1>7
<1>9. line = IF k = 1 THEN Text("CLEAR") ELSE Text("NOP")
  BY <1>1, <1>3, SavedLine
<1>10. line.op = IF k = 1 THEN "CLEAR" ELSE "NOP"
  BY <1>9 DEF Text
<1>11. RunText(line)
  BY <1>2, <1>10
<1>12. Outcome' = Effect(Outcome, line)
  BY <1>2, <1>11, RunTextOutcome DEF FileInv, LineInv
<1>13. Outcome' = Suffix(list, k - 1) /\ (pc' = "clear" \/ (pc' = "line" /\ todo'.op = "NOP"))
  <2>1. CASE k = 1
    <3>1. Outcome' = <<>> /\ Suffix(list, 0) = <<>> /\ k - 1 = 0
      BY <1>1, <1>10, <1>12, <2>1, EffectClear, SuffixFacts
    <3>2. pc' = "clear"
      BY <1>10, <1>11, <2>1 DEF RunText, Maps
    <3> QED
      BY <3>1, <3>2
  <2>2. CASE k # 1
    <3>1. line.op = "NOP" /\ ~Maps(line)
      BY <1>10, <2>2 DEF Maps
    <3>2. Outcome' = Outcome
      BY <1>12, <3>1, EffectOther
    <3>3. pc' = "line" /\ todo' = line
      BY <1>11, <3>1 DEF RunText
    <3> QED
      BY <1>3, <3>1, <3>2, <3>3
  <2> QED
    BY <2>1, <2>2
<1>14. saved'[last'] = list
  BY <1>2
<1> HIDE DEF list, read, file
<1> QED
  BY <1>2, <1>3, <1>4, <1>5, <1>6, <1>8, <1>13, <1>14 DEF Behind

LEMMA LoadCloses ==
    ASSUME FileInv, ToRestore, NEW k \in 1..Len(saved[last]) + 1, Behind(k), FileEnd
    PROVE  Restored'
<1> DEFINE list == saved[last]
<1>1. list \in Seq(Mappings) /\ Len(list) \in Nat
  BY ToRestoreFacts
<1>2. /\ stack \in Seq(Frames) /\ stack # <<>> /\ Tail(stack) = <<>>
      /\ stack[1].eof => k = Len(list) + 1
      /\ Outcome = Suffix(list, k - 1)
  BY DEF Behind, FileInv, LineInv, StoreInv, TypeInv, ReadTypes
<1>3. Head(stack) = stack[1] /\ Len(stack) = 1
  BY <1>2, TailFacts, TailEmpty
<1>4. pc = "read" /\ Head(stack).eof /\ UNCHANGED heap /\ UNCHANGED <<saved, last>> /\ pc' = "idle"
  BY <1>3 DEF FileEnd, history
<1>5. Outcome = Listed /\ Listed' = Listed
  BY <1>4, ListedSame DEF Outcome
<1>6. k - 1 = Len(list)
  BY <1>1, <1>2, <1>3, <1>4
<1>7. Listed = list
  BY <1>1, <1>2, <1>5, <1>6, SuffixFacts
<1> QED
  BY <1>4, <1>5, <1>7 DEF Restored

\* The loops of a line of a saved file: a MAP line finds memory, as no list is
\* saved that has more mappings than that.
LEMMA LoadFits ==
    ASSUME FileInv, ToRestore, NEW k \in 1..Len(saved[last]) + 1, Behind(k), pc \in {"find", "insert"}
    PROVE  /\ Maps(todo)
           /\ ~InsertFails
<1> DEFINE list == saved[last]
<1>1. /\ list \in Seq(Mappings) /\ Len(list) \in Nat /\ Unique(list) /\ Restorable(list)
      /\ Len(list) <= Cardinality(Nodes)
  BY ToRestoreFacts
<1>2. todo = SavedTexts(list)[k] /\ Outcome = Suffix(list, k - 1)
  BY DEF Behind
<1>3. Maps(todo) \/ todo.op = "UNMAP"
  BY DEF FileInv, LineInv, StoreInv, TypeInv, PcTypes
<1>4. k # 1
  <2> SUFFICES ASSUME k = 1 PROVE FALSE
    OBVIOUS
  <2>1. todo = Text("CLEAR")
    BY <1>1, <1>2, SavedLine
  <2>2. todo.op = "CLEAR"
    BY <2>1 DEF Text
  <2> QED
    BY <1>3, <2>2 DEF Maps
<1>5. Maps(todo) /\ todo.mask = list[Len(list) - k + 2].mask
  BY <1>1, <1>2, <1>4, SavedLine
<1>6. ASSUME InsertFails PROVE FALSE
  <2>1. pc = "insert" /\ used = Nodes
    BY <1>6 DEF InsertFails
  <2>2. Listed \in Seq(Mappings) /\ Len(Listed) = Cardinality(Nodes)
    BY <2>1, ListedType DEF FileInv, LineInv
  <2>3. Listed = Suffix(list, k - 1)
    BY <1>2, <2>1 DEF Outcome
  <2>4. k - 1 \in 0..Len(list) /\ Len(Suffix(list, k - 1)) = k - 1
    <3>1. k - 1 \in 0..Len(list)
      BY <1>1
    <3> QED
      BY <1>1, <3>1, SuffixFacts
  <2>5. k - 1 = Len(list) /\ Len(list) - k + 2 = 1
    BY <1>1, <2>2, <2>3, <2>4
  <2>6. Listed = list
    BY <1>1, <2>3, <2>5, SuffixFacts
  <2>7. 1 \in 1..Len(Listed) /\ Listed[1].mask = todo.mask
    <3>1. 1 \in 1..Len(list)
      BY <1>1, <1>4
    <3>2. todo.mask = list[1].mask
      BY <1>5, <2>5
    <3> HIDE DEF list
    <3> QED
      BY <2>6, <3>1, <3>2
  <2>8. InsertPlace
    BY <2>1 DEF FileInv, LineInv, StoreInv, LoopInv
  <2> QED
    BY <2>7, <2>8 DEF InsertPlace
<1> QED
  BY <1>5, <1>6

LEMMA LoadLoops ==
    ASSUME FileInv, ToRestore, NEW k \in 1..Len(saved[last]) + 1, Behind(k),
           Load \/ SendKey \/ Accept \/ Reject \/ Find \/ Place \/ Clear
    PROVE  Behind(k)' /\ UNCHANGED <<saved, last>>
<1>1. Outcome' = Outcome
  BY OutcomeKept DEF FileInv, LineInv
<1>2. pc \in {"read", "line", "find", "insert", "clear"} /\ (pc = "line" => todo.op = "NOP") /\ stack # <<>>
  BY DEF Behind
<1>3. ASSUME UNCHANGED <<saved, last, stack, line, todo>>, pc' \in {"read", "find", "insert", "clear"},
             pc' \in {"find", "insert"} => pc \in {"find", "insert"}
      PROVE  Behind(k)' /\ UNCHANGED <<saved, last>>
  BY <1>1, <1>3 DEF Behind
<1>4. ASSUME Done PROVE UNCHANGED stack /\ pc' = "read"
  BY <1>2, <1>4 DEF Done
<1>5. CASE Load \/ SendKey \/ Reject
  BY <1>2, <1>5 DEF Load, SendKey, Reject
<1>6. CASE Accept \/ ClearEnd \/ \E new \in Nodes : Insert(new)
  <2>1. UNCHANGED <<saved, last, line, todo>> /\ Done
    BY <1>6 DEF Accept, ClearEnd, Insert, history
  <2> QED
    BY <1>3, <1>4, <2>1
<1>7. CASE FindNext \/ InsertNext \/ ClearNext
  <2>1. UNCHANGED <<saved, last, stack, line, todo, pc>> /\ pc \in {"find", "insert", "clear"}
    BY <1>7 DEF FindNext, InsertNext, ClearNext, reader, history
  <2> QED
    BY <1>3, <2>1
<1>8. CASE FindNothing \/ RemoveFound
  <2>1. UNCHANGED <<saved, last, line, todo>> /\ pc = "find"
    BY <1>8 DEF FindNothing, RemoveFound, matched, history
  <2>2. Maps(todo)
    BY <2>1, LoadFits
  <2>3. UNCHANGED stack /\ pc' = "insert"
    BY <1>8, <2>2 DEF FindNothing, RemoveFound
  <2> QED
    BY <1>3, <2>1, <2>3
<1>9. CASE InsertFails
  BY <1>9, LoadFits DEF InsertFails
<1> QED
  BY <1>5, <1>6, <1>7, <1>8, <1>9 DEF Find, Place, Clear

(***************************************************************************)
(* Every step keeps the stage, or leads to the next one.                   *)
(***************************************************************************)
LEMMA LoadNext ==
    ASSUME FileInv, LoadInv, [Next]_vars
    PROVE  LoadInv'
<1>1. NoFile \notin DOMAIN saved /\ SaveAlone /\ TypeInv
  BY NoFileIs DEF FileInv, LineInv, StoreInv, SaveInv
<1>2. ASSUME NEW text \in FifoLines, FifoLine(text) PROVE LoadInv'
  <2>1. /\ RunText(text) /\ stack = <<>> /\ UNCHANGED <<stack, saved>>
        /\ last' = IF text.op = "LOAD" THEN text.file ELSE NoFile
    BY <1>1, <1>2 DEF FifoLine, reader, TypeInv, ReadTypes
  <2>2. CASE text.op = "LOAD"
    <3>1. pc' = "line" /\ todo' = text
      BY <2>1, <2>2 DEF RunText, Maps
    <3> QED
      BY <2>1, <2>2, <3>1 DEF LoadInv, ToLoad
  <2>3. CASE text.op # "LOAD"
    BY <1>1, <2>1, <2>3 DEF LoadInv, ToRestore
  <2> QED
    BY <2>2, <2>3
<1>3. CASE Crash
  BY <1>3 DEF Crash, LoadInv, ToRead
<1>4. CASE Save
  <2>1. pc \in {"line", "save"} /\ todo.op = "SAVE" /\ todo.file # NoFile
    BY <1>1, <1>4 DEF Save, SaveStart, SaveNext, SaveEnd, TypeInv, PcTypes
  <2>2. last = NoFile
    BY <1>1, <2>1 DEF SaveAlone
  <2>3. last' = last /\ DOMAIN saved' \subseteq DOMAIN saved \cup {todo.file}
    BY <1>4 DEF Save, SaveStart, SaveNext, SaveEnd, history
  <2>4. last' \notin DOMAIN saved'
    BY <1>1, <2>1, <2>2, <2>3
  <2> QED
    BY <2>4 DEF LoadInv, ToRestore
<1>5. ASSUME UNCHANGED <<saved, last>>, ToRestore => (ToLoad \/ ToRead \/ (\E k \in 1..Len(saved[last]) + 1 : Behind(k)) \/ Restored)'
      PROVE  LoadInv'
  <2>1. ToRestore' => ToRestore
    BY <1>5 DEF ToRestore
  <2> QED
    BY <1>5, <2>1 DEF LoadInv
<1>6. CASE Read \/ Load \/ SendKey \/ Accept \/ Reject \/ Find \/ Place \/ Clear
  <2>1. UNCHANGED <<saved, last>>
    <3>1. CASE Read \/ Load \/ SendKey \/ Accept \/ Reject
      BY <3>1 DEF Read, FgetsLine, FgetsEnd, FileEnd, Load, SendKey, Accept, Reject, history
    <3>2. CASE Find \/ Place \/ Clear
      BY <3>2 DEF Find, FindNext, FindNothing, RemoveFound, Place, InsertFails, InsertNext, Insert,
                  Clear, ClearNext, ClearEnd, history
    <3> QED
      BY <1>6, <3>1, <3>2
  <2> SUFFICES ASSUME ToRestore
               PROVE  (ToLoad \/ ToRead \/ (\E k \in 1..Len(saved[last]) + 1 : Behind(k)) \/ Restored)'
    BY <1>5, <2>1
  <2>2. ToLoad \/ ToRead \/ (\E k \in 1..Len(saved[last]) + 1 : Behind(k)) \/ Restored
    BY DEF LoadInv
  <2>3. CASE ToLoad
    <3>1. Load
      BY <1>6, <2>3 DEF ToLoad, Read, FgetsLine, FgetsEnd, FileEnd, SendKey, Accept, Reject,
                        Find, FindNext, FindNothing, RemoveFound, matched,
                        Place, InsertFails, InsertNext, Insert, Clear, ClearNext, ClearEnd
    <3> QED
      BY <2>3, <3>1, LoadOpens
  <2>4. CASE ToRead
    <3>1. Head(stack) = Opened(files[last]) /\ pc = "read"
      BY <2>4 DEF ToRead
    <3>2. Head(stack).rest # <<>> /\ ~Head(stack).eof
      <4>1. files[last].texts # <<>>
        BY ToRestoreFacts, SavedTextsFacts
      <4> QED
        BY <3>1, <4>1 DEF Opened
    <3>3. FgetsLine
      BY <1>6, <3>1, <3>2 DEF Read, FgetsEnd, FileEnd, Load, SendKey, Accept, Reject,
                        Find, FindNext, FindNothing, RemoveFound, matched,
                        Place, InsertFails, InsertNext, Insert, Clear, ClearNext, ClearEnd
    <3>4. Behind(1)'
      BY <2>4, <3>3, LoadFirst
    <3>5. 1 \in 1..Len(saved[last]) + 1
      BY ToRestoreFacts
    <3> QED
      BY <2>1, <3>4, <3>5
  <2>5. ASSUME NEW k \in 1..Len(saved[last]) + 1, Behind(k)
        PROVE  (\E j \in 1..Len(saved[last]) + 1 : Behind(j))' \/ Restored'
    <3>1. CASE FgetsLine
      BY <2>1, <2>5, <3>1, LoadNextLine
    <3>2. CASE FgetsEnd
      BY <2>1, <2>5, <3>2, LoadEnd
    <3>3. CASE FileEnd
      BY <2>5, <3>3, LoadCloses
    <3>4. CASE Load \/ SendKey \/ Accept \/ Reject \/ Find \/ Place \/ Clear
      BY <2>1, <2>5, <3>4, LoadLoops
    <3> QED
      BY <1>6, <3>1, <3>2, <3>3, <3>4 DEF Read
  <2>6. CASE Restored
    BY <1>6, <2>6 DEF Restored, Read, FgetsLine, FgetsEnd, FileEnd, Load, SendKey, Accept, Reject,
                      Find, FindNext, FindNothing, RemoveFound, matched,
                      Place, InsertFails, InsertNext, Insert, Clear, ClearNext, ClearEnd
  <2> QED
    BY <2>2, <2>3, <2>4, <2>5, <2>6
<1>7. CASE UNCHANGED vars
  <2>1. Listed' = Listed /\ used' = used
    BY <1>7, ListedSame DEF vars, heap
  <2>2. Outcome' = Outcome
    BY <1>7, <2>1 DEF vars, Outcome
  <2> QED
    BY <1>7, <2>1, <2>2 DEF vars, LoadInv, ToRestore, ToLoad, ToRead, Behind, Restored
<1> QED
  BY <1>2, <1>3, <1>4, <1>6, <1>7 DEF Next, Step

(***************************************************************************)
(* A file that SAVE wrote to its end and that is then read, by LOAD or by  *)
(* the start after a crash, makes the list that was saved, in its order.   *)
(***************************************************************************)
THEOREM LoadRestoresHolds == Spec => []LoadRestores
<1>1. Init => LoadInv
  BY DEF Init, LoadInv, ToRestore
<1>2. FileInv /\ LoadInv => LoadRestores
  <2> SUFFICES ASSUME FileInv, LoadInv, pc = "idle", last \in DOMAIN saved, Restorable(saved[last])
               PROVE  Listed = saved[last]
    BY DEF LoadRestores
  <2>1. ToRestore
    BY DEF ToRestore
  <2>2. ~ToLoad /\ ~ToRead /\ \A k \in 1..Len(saved[last]) + 1 : ~Behind(k)
    BY DEF ToLoad, ToRead, Behind
  <2>3. Restored
    BY <2>1, <2>2 DEF LoadInv
  <2> QED
    BY <2>3 DEF Restored
<1> QED
  BY <1>1, <1>2, FileInit, FileNext, LoadNext, PTL DEF Spec

-----------------------------------------------------------------------------
(* The index of a key in the table, used as its code.                      *)

\* The keys that have the same index and code, and those among them that are
\* the first with their code.
OwnCode == 0..83 \cup 122..152
FirstWithOwnCode == 0..83 \cup 123..152

\* A key event is sent for a key of the table, with its index.
EventInv == event # NoEvent => event.asked \in KeyNames /\ event.sent = event.asked

LEMMA EventNext ==
    ASSUME EventInv, [Next]_vars
    PROVE  EventInv'
<1>1. CASE UNCHANGED event
  BY <1>1 DEF EventInv
<1>2. CASE SendKey
  <2>1. todo.value \in KeyNames /\ LookupKey(todo.value) = todo.value
    BY <1>2 DEF SendKey, LookupKey
  <2>2. event' = [asked |-> todo.value, sent |-> todo.value]
    BY <1>2, <2>1 DEF SendKey
  <2> QED
    BY <2>1, <2>2 DEF EventInv
<1>3. CASE Crash
  BY <1>3 DEF Crash, EventInv
<1>4. CASE UNCHANGED vars
  BY <1>1, <1>4 DEF vars
<1>5. CASE Read \/ Load \/ Accept \/ Reject \/ \E text \in FifoLines : FifoLine(text)
  BY <1>1, <1>5 DEF Read, FgetsLine, FgetsEnd, FileEnd, Load, Accept, Reject, FifoLine
<1>6. CASE Find \/ Place \/ Clear \/ Save
  BY <1>1, <1>6 DEF Find, FindNext, FindNothing, RemoveFound, Place, InsertFails, InsertNext, Insert,
                    Clear, ClearNext, ClearEnd, Save, SaveStart, SaveNext, SaveEnd
<1> QED
  BY <1>2, <1>3, <1>4, <1>5, <1>6 DEF Next, Step

LEMMA OwnCodes ==
    ASSUME NEW name \in KeyNames
    PROVE  CodeOf(name) = name <=> name \in OwnCode
<1>1. CASE name \in 0..83
  BY SMTT(60), <1>1 DEF CodeOf, OwnCode
<1>2. CASE name \in 84..121
  BY SMTT(60), <1>2 DEF CodeOf, OwnCode
<1>3. CASE name \in 122..152
  BY SMTT(60), <1>3 DEF CodeOf, OwnCode
<1>4. CASE name \in 153..294
  BY SMTT(60), <1>4 DEF CodeOf, OwnCode
<1> QED
  BY <1>1, <1>2, <1>3, <1>4 DEF KeyNames

(***************************************************************************)
(* A key event has the code of the key in the line for exactly the keys    *)
(* whose index in the table is their code: the others send another key.    *)
(***************************************************************************)
THEOREM KeyAsAskedExactly ==
    Spec => [](event # NoEvent => (KeyAsAsked <=> event.asked \in OwnCode))
<1>1. Init => EventInv
  BY DEF Init, EventInv
<1>2. EventInv => (event # NoEvent => (KeyAsAsked <=> event.asked \in OwnCode))
  BY OwnCodes DEF EventInv, KeyAsAsked
<1> QED
  BY <1>1, <1>2, EventNext, PTL DEF Spec

\* Of the names with one code the first is the name itself or the one before it.
LEMMA FirstName ==
    ASSUME NEW key \in KeyNames, CodeOf(key) = key
    PROVE  KeycodeName(key) = IF key = 122 THEN 121 ELSE key
<1> DEFINE first == IF key = 122 THEN 121 ELSE key
           having == {name \in KeyNames : CodeOf(name) = key}
<1>1. key \in OwnCode
  BY OwnCodes
<1>2. first \in having
  BY SMTT(60), <1>1 DEF OwnCode, KeyNames, CodeOf
<1>3. \A name \in having : first <= name
  BY SMTT(60), <1>1 DEF OwnCode, KeyNames, CodeOf
<1>4. first \in Int /\ having \subseteq Int
  BY <1>1 DEF OwnCode, KeyNames
<1>5. KeycodeName(key) = CHOOSE name \in having : \A n \in having : name <= n
  BY <1>2 DEF KeycodeName
<1>6. \A name \in having : (\A n \in having : name <= n) => name = first
  BY <1>2, <1>3, <1>4
<1> HIDE DEF having, first
<1>7. (CHOOSE name \in having : \A n \in having : name <= n) = first
  BY <1>2, <1>3, <1>6
<1> QED
  BY <1>5, <1>7 DEF first

(***************************************************************************)
(* SAVE takes the index of a key for its code and writes the first name    *)
(* with that code: a key is still the same key after SAVE and LOAD for     *)
(* exactly the keys that are the first with their own index as code.       *)
(***************************************************************************)
THEOREM SavedKeysExactly ==
    ASSUME NEW key \in KeyNames
    PROVE  SavedKey(key) = key <=> key \in FirstWithOwnCode
<1> DEFINE having == {name \in KeyNames : CodeOf(name) = key}
<1>1. CASE CodeOf(key) = key
  <2>1. KeycodeName(key) = IF key = 122 THEN 121 ELSE key
    BY <1>1, FirstName
  <2>2. key \in OwnCode /\ (key \in FirstWithOwnCode <=> key # 122)
    BY <1>1, OwnCodes DEF OwnCode, FirstWithOwnCode
  <2>3. KeycodeName(key) \in KeyNames
    BY <2>1 DEF KeyNames
  <2>4. SavedKey(key) = KeycodeName(key)
    BY <2>3 DEF SavedKey, LookupKey
  <2> QED
    BY <2>1, <2>2, <2>4
<1>2. CASE CodeOf(key) # key
  <2>1. key \notin FirstWithOwnCode
    BY <1>2, OwnCodes DEF OwnCode, FirstWithOwnCode
  <2>2. KeycodeName(key) # key
    <3>1. key \notin having /\ key # NoKey
      BY <1>2 DEF NoKey, KeyNames
    <3>2. KeycodeName(key) = IF having = {} THEN NoKey ELSE Min(having)
      BY DEF KeycodeName, Min
    <3>3. having \in SUBSET Nat
      BY DEF KeyNames
    <3> HIDE DEF having
    <3>4. having # {} => Min(having) \in having
      BY <3>3, MinNat
    <3> QED
      BY <3>1, <3>2, <3>4
  <2>3. SavedKey(key) # key
    BY <2>2 DEF SavedKey, LookupKey, NoKey, KeyNames
  <2> QED
    BY <2>1, <2>3
<1> QED
  BY <1>1, <1>2

(***************************************************************************)
(* No two mappings of the list are of the same buttons, also where a line  *)
(* is still being run: one that replaces a mapping has freed it before it  *)
(* inserts the new one.                                                    *)
(***************************************************************************)
THEOREM ListedUnique == Spec => []Unique(Listed)
<1>1. LineInv => Unique(Listed)
  BY DEF LineInv, StoreInv, LoopInv
<1> QED
  BY <1>1, LineInit, LineNext, PTL DEF Spec
=============================================================================
