------------------------- MODULE GpioMapping_proofs -------------------------
(***************************************************************************)
(* Theorems of GpioMapping for every set of buttons, keys, commands and    *)
(* configuration lines, and any number of failures and FIFO wakes.         *)
(***************************************************************************)
EXTENDS GpioMapping, MappingList_proofs

(***************************************************************************)
(* Setting the activated flag of one entry changes nothing else.           *)
(***************************************************************************)
LEMMA SetActivatedFacts ==
    ASSUME NEW l \in Seq(Mappings), NEW c \in 1..Len(l), NEW b \in BOOLEAN
    PROVE  LET new == [l EXCEPT ![c].activated = b]
           IN  /\ new \in Seq(Mappings)
               /\ Len(new) = Len(l)
               /\ \A i \in 1..Len(l) :
                     /\ new[i].mask = l[i].mask /\ new[i].bits = l[i].bits
                     /\ new[i].type = l[i].type
                     /\ new[i].value = l[i].value
                     /\ new[i].activated = IF i = c THEN b ELSE l[i].activated
<1> DEFINE e == [l[c] EXCEPT !.activated = b]
           new == [l EXCEPT ![c] = e]
<1>1. l[c] \in Mappings
  OBVIOUS
<1>2. /\ e \in Mappings
      /\ e.mask = l[c].mask /\ e.bits = l[c].bits
      /\ e.type = l[c].type /\ e.value = l[c].value
      /\ e.activated = b
  BY <1>1 DEF Mappings, Mapping
<1> HIDE DEF e
<1>3. new \in Seq(Mappings) /\ Len(new) = Len(l)
  BY <1>2
<1>4. \A i \in 1..Len(l) : new[i] = IF i = c THEN e ELSE l[i]
  OBVIOUS
<1>5. new = [l EXCEPT ![c].activated = b]
  BY DEF e
<1> HIDE DEF new
<1> QED
  BY <1>2, <1>3, <1>4, <1>5

(***************************************************************************)
(* The lines still to run are lines, whatever is taken off the front.      *)
(***************************************************************************)
LEMMA HeadTailFacts ==
    ASSUME NEW s \in Seq(Lines), s # <<>>
    PROVE  Head(s) \in Lines /\ Tail(s) \in Seq(Lines)
OBVIOUS

(***************************************************************************)
(* A line that maps a combination makes an entry.                          *)
(***************************************************************************)
LEMMA NewMappingFacts ==
    ASSUME NEW line \in Lines, NEW type,
           \/ line.op = "MAP KEY" /\ type = "KEY"
           \/ line.op = "MAP COMMAND" /\ type = "COMMAND"
    PROVE  NewMapping(line.mask, line.bits, type, line.value) \in Mappings
BY DEF Lines, Line, Mappings, Mapping, NewMapping

(***************************************************************************)
(* Only keys go up.                                                        *)
(***************************************************************************)
LEMMA KeysUpFacts ==
    ASSUME NEW l \in Seq(Mappings), NEW dropped \in SUBSET DOMAIN l
    PROVE  KeysUp(l, dropped) \in SUBSET Keys
<1>1. \A i \in dropped : l[i] \in Mappings
  OBVIOUS
<1> QED
  BY <1>1 DEF KeysUp, Mappings, Mapping

(***************************************************************************)
(* Type correctness.                                                       *)
(***************************************************************************)
LEMMA TypeInit == Init => TypeOK
<1> SUFFICES ASSUME Init PROVE TypeOK
  OBVIOUS
<1>1. list \in Seq(Mappings) /\ cursor = 1 /\ pc = "boot"
  BY DEF Init
<1>2. low \in SUBSET Pins /\ lastRead \in SUBSET Pins /\ alarm \in BOOLEAN
  BY DEF Init
<1>3. script \in Seq(Lines) /\ edge \in SUBSET Chips /\ pc \in Places
  BY LineAssumption DEF Init, Places
<1>4. cursor \in 1..(IF pc = "apply" THEN Len(list) + 1 ELSE 1)
  BY <1>1
<1>5. /\ monitored = {} /\ current = {} /\ previous = {} /\ intr = {} /\ rest = {}
      /\ due = {} /\ pek = {} /\ pekSeen = {} /\ down = {} /\ scripted = {}
  BY DEF Init
<1>6. shutdown \in BOOLEAN /\ faults \in 0..MaxFaults /\ scripts \in 0..MaxScripts
  <2>1. shutdown = FALSE /\ faults = 0 /\ scripts = 0
    BY DEF Init
  <2>2. faults \in 0..MaxFaults /\ scripts \in 0..MaxScripts
    BY <2>1, BoundAssumption
  <2> QED
    BY <2>1, <2>2
<1> QED
  BY <1>1, <1>2, <1>3, <1>4, <1>5, <1>6 DEF TypeOK

LEMMA TypeStep == TypeOK /\ [Next]_vars => TypeOK'
<1> SUFFICES ASSUME TypeOK, [Next]_vars PROVE TypeOK'
  OBVIOUS
<1> USE DEF TypeOK
<1>1. CASE ConfigLine
  <2> DEFINE LineTypes == /\ list' \in Seq(Mappings) /\ script' \in Seq(Lines)
                          /\ monitored' \in SUBSET Gpio
                          /\ down' \in SUBSET Keys /\ scripted' \in SUBSET Keys
  <2>1. ASSUME NEW op, NEW type, MapLine(op, type),
               \/ op = "MAP KEY" /\ type = "KEY"
               \/ op = "MAP COMMAND" /\ type = "COMMAND"
        PROVE  LineTypes
    <3> DEFINE line == Head(script)
               old == FindMapping(list, line.mask)
               m == NewMapping(line.mask, line.bits, type, line.value)
    <3>1. line \in Lines /\ script' \in Seq(Lines) /\ line.op = op
      BY <2>1, HeadTailFacts DEF MapLine, RunLine
    <3>2. m \in Mappings
      BY <2>1, <3>1, NewMappingFacts
    <3>3. list' \in Seq(Mappings)
      BY <2>1, <3>2, MapMappingFacts DEF MapLine
    <3>4. line.mask \in SUBSET Gpio
      BY <3>1 DEF Lines, Line, Combinations, Buttons
    <3>5. old \in 0..Len(list)
      BY FindMappingFacts
    <3>6. (IF old = 0 THEN {} ELSE KeysUp(list, {old})) \in SUBSET Keys
      BY <3>5, KeysUpFacts
    <3> QED
      BY <2>1, <3>1, <3>3, <3>4, <3>6 DEF MapLine, KeyUp
  <2>2. ASSUME UnmapLine PROVE LineTypes
    <3> DEFINE old == FindMapping(list, Head(script).mask)
    <3>1. old \in 1..Len(list)
      BY <2>2, FindMappingFacts DEF UnmapLine
    <3>2. list' \in Seq(Mappings)
      BY <2>2, <3>1, RemoveMappingFacts DEF UnmapLine
    <3>3. KeysUp(list, {old}) \in SUBSET Keys
      BY <3>1, KeysUpFacts
    <3>4. script' \in Seq(Lines)
      BY <2>2, HeadTailFacts DEF UnmapLine, RunLine
    <3> QED
      BY <2>2, <3>2, <3>3, <3>4 DEF UnmapLine, KeyUp
  <2>3. ASSUME ClearLine PROVE LineTypes
    <3>1. KeysUp(list, DOMAIN list) \in SUBSET Keys
      BY KeysUpFacts
    <3>2. script' \in Seq(Lines)
      BY <2>3, HeadTailFacts DEF ClearLine, RunLine
    <3> QED
      BY <2>3, <3>1, <3>2 DEF ClearLine, KeyUp
  <2>4. ASSUME KeyLine PROVE LineTypes
    <3>1. /\ Head(script) \in Lines /\ script' \in Seq(Lines)
          /\ Head(script).op \in {"KEYDOWN", "KEYUP", "KEYPRESS"}
      BY <2>4, HeadTailFacts DEF KeyLine, RunLine
    <3>2. Head(script).value \in Keys
      BY <3>1 DEF Lines, Line
    <3> QED
      BY <2>4, <3>1, <3>2 DEF KeyLine, KeyUp, KeyDown
  <2>5. ASSUME NopLine PROVE LineTypes
    BY <2>5, HeadTailFacts DEF NopLine, RunLine
  <2>6. ASSUME BadLine PROVE LineTypes
    BY <2>6 DEF BadLine
  <2>7. LineTypes
    BY <1>1, <2>1, <2>2, <2>3, <2>4, <2>5, <2>6 DEF ConfigLine
  <2>8. pc \in {"boot", "script"}
    BY <1>1 DEF ConfigLine, MapLine, UnmapLine, ClearLine, KeyLine, NopLine, BadLine, RunLine
  <2>9. cursor' \in 1..(IF pc' = "apply" THEN Len(list') + 1 ELSE 1)
    BY <1>1, <2>8 DEF ConfigLine
  <2> QED
    BY <1>1, <2>7, <2>9 DEF ConfigLine, deviceVars
<1>2. CASE BootDone
  BY <1>2, GpioAssumption DEF BootDone, Places, Boundary, deviceVars, outputVars
<1>3. CASE SelectTimeout
  BY <1>3 DEF SelectTimeout, EnterHandle, Places, deviceVars, outputVars
<1>4. CASE SelectReady
  BY <1>4, LineAssumption, BoundAssumption
     DEF SelectReady, EnterHandle, Places, deviceVars, outputVars
<1>5. CASE SelectError
  BY <1>5, BoundAssumption DEF SelectError, EnterHandle, Fail, deviceVars, outputVars
<1>6. CASE ReadFds
  BY <1>6 DEF ReadFds, Boundary, GoTo, ChipsPlace, Chips, Places, outputVars
<1>7. CASE ReadFdsError
  BY <1>7, BoundAssumption
     DEF ReadFdsError, Fail, Boundary, GoTo, ChipsPlace, Chips, Places, outputVars
<1>8. CASE AxpRead
  BY <1>8, BoundAssumption DEF AxpRead, Fail, GoTo, Return, Places, deviceVars, outputVars
<1>9. CASE AxpClear
  BY <1>9, BoundAssumption DEF AxpClear, Fail, GoTo, Return, Places, outputVars
<1>10. CASE Pek
  <2> DEFINE menu == FindMapping(list, {MENU})
  <2>1. menu \in 0..Len(list)
    BY FindMappingFacts
  <2>2. menu # 0 /\ list[menu].type = "KEY" => list[menu].value \in Keys
    <3> SUFFICES ASSUME menu \in 1..Len(list), list[menu].type = "KEY"
                 PROVE  list[menu].value \in Keys
      BY <2>1
    <3> HIDE DEF menu
    <3>1. list[menu] \in Mappings
      OBVIOUS
    <3> QED
      BY <3>1 DEF Mappings, Mapping
  <2>3. down' \in SUBSET Keys /\ scripted' \in SUBSET Keys
    BY <1>10, <2>2 DEF Pek, KeyUp
  <2>4. shutdown' \in BOOLEAN
    BY <1>10 DEF Pek
  <2> QED
    BY <1>10, <2>3, <2>4 DEF Pek, GoTo, ChipsPlace, Chips, Places, deviceVars
<1>11. CASE Status
  <2>1. intr' \in SUBSET Gpio
    BY <1>11 DEF Status, IntStatus, Xor, Pins
  <2>2. faults' \in 0..MaxFaults
    BY <1>11, BoundAssumption DEF Status, Fail
  <2> QED
    BY <1>11, <2>1, <2>2 DEF Status, GoTo, Return, Places, deviceVars, outputVars
<1>12. CASE Input
  <2>1. PICK active \in SUBSET Gpio : Sample(active)
    <3>1. low \in SUBSET Gpio
      BY DEF Pins
    <3>2. \A errno \in Errnos : ErrnoMask(errno) \in SUBSET Gpio
      BY DEF ErrnoMask
    <3> QED
      BY <1>12, <3>1, <3>2 DEF Input
  <2>2. current' \in SUBSET Gpio /\ intr' \in SUBSET Gpio /\ rest' \in SUBSET Gpio
    BY <2>1, GpioAssumption DEF Sample, GoTo, Xor
  <2>3. /\ pc' \in Places /\ due' \in SUBSET Chips /\ previous' \in SUBSET Gpio
        /\ shutdown' \in BOOLEAN /\ cursor' \in 1..1
    BY <2>1 DEF Sample, GoTo, Places
  <2>4. faults' \in 0..MaxFaults
    BY <1>12, BoundAssumption DEF Input, Fail
  <2>5. lastRead' \in SUBSET Pins /\ edge' \in SUBSET Chips
    BY <1>12 DEF Input, EdgeAfter, Chips
  <2> QED
    BY <1>12, <2>2, <2>3, <2>4, <2>5 DEF Input
<1>13. CASE ApplyEntry
  <2>1. cursor \in 1..Len(list) /\ pc' = "apply"
    BY <1>13 DEF ApplyEntry
  <2>2. list' \in Seq(Mappings) /\ Len(list') = Len(list)
    <3>1. CASE Match
      BY <2>1, <3>1, SetActivatedFacts DEF Match
    <3>2. CASE Release
      BY <2>1, <3>2, SetActivatedFacts DEF Release
    <3>3. CASE Skip
      BY <3>3 DEF Skip
    <3> QED
      BY <1>13, <3>1, <3>2, <3>3 DEF ApplyEntry
  <2>3. list[cursor] \in Mappings
    BY <2>1
  <2>4. Entry.type = "KEY" => Entry.value \in Keys
    BY <2>3 DEF Entry, Mappings, Mapping
  <2>5. down' \in SUBSET Keys /\ scripted' \in SUBSET Keys
    BY <1>13, <2>4 DEF ApplyEntry, Match, Release, Skip, KeyDown, KeyUp
  <2>6. Entry.mask \in SUBSET Gpio
    BY <2>3 DEF Entry, Mappings, Mapping, Combinations, Buttons
  <2>7. rest' \in SUBSET Gpio
    BY <1>13, <2>6 DEF ApplyEntry, Match, Release, Skip, Xor
  <2> QED
    BY <1>13, <2>1, <2>2, <2>5, <2>7 DEF ApplyEntry, deviceVars
<1>14. CASE ApplyDone
  BY <1>14 DEF ApplyDone, GoTo, Return, Places, deviceVars, outputVars
<1>15. CASE Environment
  <2>1. ASSUME NEW g \in Pins, MovePin(g) PROVE TypeOK'
    <3>1. low' \in SUBSET Pins /\ edge' \in SUBSET Chips /\ alarm' \in BOOLEAN
      BY <2>1 DEF MovePin, Xor, EdgeAfter, Chips
    <3> QED
      BY <2>1, <3>1 DEF MovePin, daemonVars, outputVars
  <2>2. ASSUME NEW press \in PekPresses, PressPek(press) PROVE TypeOK'
    BY <2>2 DEF PressPek, daemonVars, outputVars
  <2> QED
    BY <1>15, <2>1, <2>2 DEF Environment
<1>16. CASE UNCHANGED vars
  BY <1>16 DEF vars, daemonVars, deviceVars, outputVars
<1> QED
  BY <1>1, <1>2, <1>3, <1>4, <1>5, <1>6, <1>7, <1>8, <1>9, <1>10, <1>11, <1>12,
     <1>13, <1>14, <1>15, <1>16
     DEF Next, Daemon, Config, Wait, PowerChip, Expander, Apply

THEOREM TypeCorrect == Spec => []TypeOK
<1>1. Init => TypeOK
  BY TypeInit
<1>2. TypeOK /\ [Next]_vars => TypeOK'
  BY TypeStep
<1> QED
  BY <1>1, <1>2, PTL DEF Spec

-----------------------------------------------------------------------------
(***************************************************************************)
(* Only configuration lines and apply_mapping touch the list.  Every other *)
(* step leaves it alone, and of the keys only lets some go for a power key *)
(* press.  Monitored buttons stay monitored.                               *)
(***************************************************************************)
LEMMA ListSteps ==
    ASSUME [Next]_vars
    PROVE  \/ ConfigLine
           \/ ApplyEntry
           \/ /\ list' = list
              /\ monitored \subseteq monitored'
              /\ down' \subseteq down /\ scripted \subseteq scripted'
              /\ down \cup scripted \subseteq down' \cup scripted'
<1>1. CASE BootDone
  BY <1>1 DEF BootDone, outputVars
<1>2. CASE Wait
  BY <1>2 DEF Wait, SelectTimeout, SelectReady, SelectError, EnterHandle, ReadFds,
              ReadFdsError, outputVars
<1>3. CASE PowerChip
  BY <1>3 DEF PowerChip, AxpRead, AxpClear, Pek, KeyUp, outputVars
<1>4. CASE Expander
  BY <1>4 DEF Expander, Status, Input, outputVars
<1>5. CASE ApplyDone
  BY <1>5 DEF ApplyDone, outputVars
<1>6. CASE Environment
  BY <1>6 DEF Environment, MovePin, PressPek, daemonVars, outputVars
<1>7. CASE UNCHANGED vars
  BY <1>7 DEF vars, daemonVars, outputVars
<1> QED
  BY <1>1, <1>2, <1>3, <1>4, <1>5, <1>6, <1>7 DEF Next, Daemon, Config, Apply

(***************************************************************************)
(* What a configuration line does to the list: an entry is the new one,    *)
(* inactive, or an old one; and what is dropped is let go of.              *)
(***************************************************************************)
LEMMA ConfigLineFacts ==
    ASSUME TypeOK, ConfigLine
    PROVE  /\ pc \in {"boot", "script"} /\ pc' = pc
           /\ Unique(list) => Unique(list')
           /\ \A j \in DOMAIN list' :
                 \/ \E i \in DOMAIN list : list'[j] = list[i]
                 \/ ~list'[j].activated
                       /\ (list'[j].type = "KEY" => list'[j].mask \subseteq monitored')
           /\ monitored \subseteq monitored'
           /\ down' \ scripted' \subseteq down \ scripted
           /\ \A i \in DOMAIN list :
                 \/ \E j \in DOMAIN list' : list'[j] = list[i]
                 \/ list[i].type = "KEY" /\ list[i].activated => list[i].value \notin down'
<1> DEFINE KeptOrNew == \A j \in DOMAIN list' :
              \/ \E i \in DOMAIN list : list'[j] = list[i]
              \/ ~list'[j].activated
                    /\ (list'[j].type = "KEY" => list'[j].mask \subseteq monitored')
           KeptOrUp == \A i \in DOMAIN list :
              \/ \E j \in DOMAIN list' : list'[j] = list[i]
              \/ list[i].type = "KEY" /\ list[i].activated => list[i].value \notin down'
           Fine == /\ Unique(list) => Unique(list')
                   /\ KeptOrNew
                   /\ monitored \subseteq monitored'
                   /\ down' \ scripted' \subseteq down \ scripted
                   /\ KeptOrUp
<1>1. list \in Seq(Mappings) /\ DOMAIN list = 1..Len(list)
  BY DEF TypeOK
<1>2. ASSUME NEW op, NEW type, MapLine(op, type),
             \/ op = "MAP KEY" /\ type = "KEY"
             \/ op = "MAP COMMAND" /\ type = "COMMAND"
      PROVE  Fine
  <2> DEFINE line == Head(script)
             old == FindMapping(list, line.mask)
             m == NewMapping(line.mask, line.bits, type, line.value)
  <2>1. m \in Mappings
    <3>1. line \in Lines /\ line.op = op
      BY <1>2, HeadTailFacts DEF TypeOK, MapLine, RunLine
    <3> QED
      BY <1>2, <3>1, NewMappingFacts
  <2>2. /\ m.mask = line.mask /\ ~m.activated
        /\ m.type = "KEY" => m.mask \subseteq monitored'
    BY <1>2 DEF NewMapping, MapLine
  <2>3. list' = MapMapping(list, m)
    BY <1>2 DEF MapLine
  <2>4. old \in 0..Len(list)
    BY <1>1, FindMappingFacts
  <2>5. /\ down' = down \ (IF old = 0 THEN {} ELSE KeysUp(list, {old}))
        /\ scripted' = scripted \ (IF old = 0 THEN {} ELSE KeysUp(list, {old}))
        /\ monitored \subseteq monitored'
    BY <1>2 DEF MapLine, KeyUp
  <2>6. old # 0 /\ list[old].type = "KEY" /\ list[old].activated
           => list[old].value \notin down'
    BY <2>5 DEF KeysUp
  <2>7. old = FindMapping(list, m.mask)
    BY <2>2
  <2> HIDE DEF m, old, line
  <2>8. list' \in Seq(Mappings) /\ (Unique(list) => Unique(list'))
    BY <1>1, <2>1, <2>3, MapMappingFacts
  <2>9. \A j \in 1..Len(MapMapping(list, m)) :
           \/ MapMapping(list, m)[j] = m
           \/ \E i \in 1..Len(list) : MapMapping(list, m)[j] = list[i]
    BY <1>1, <2>1, MapMappingFacts
  <2>10. \A i \in 1..Len(list) :
            i # old => \E j \in 1..Len(MapMapping(list, m)) :
                          MapMapping(list, m)[j] = list[i]
    BY <1>1, <2>1, <2>7, MapMappingKeeps
  <2>11. DOMAIN list' = 1..Len(list')
    BY <2>8
  <2>12. KeptOrNew
    BY <1>1, <2>2, <2>3, <2>9, <2>11
  <2>13. KeptOrUp
    BY <1>1, <2>3, <2>4, <2>6, <2>10, <2>11
  <2> QED
    BY <2>5, <2>8, <2>12, <2>13
<1>3. ASSUME UnmapLine PROVE Fine
  <2> DEFINE old == FindMapping(list, Head(script).mask)
  <2>1. PICK p \in 1..Len(list) : p = old
    BY <1>1, <1>3, FindMappingFacts DEF UnmapLine
  <2>2. /\ list' = RemoveMapping(list, p)
        /\ down' = down \ KeysUp(list, {p}) /\ scripted' = scripted \ KeysUp(list, {p})
        /\ monitored' = monitored
    BY <1>3, <2>1 DEF UnmapLine, KeyUp
  <2>3. list[p].type = "KEY" /\ list[p].activated => list[p].value \notin down'
    BY <2>2 DEF KeysUp
  <2> HIDE DEF old
  <2>4. list' \in Seq(Mappings) /\ (Unique(list) => Unique(list'))
    BY <1>1, <2>2, RemoveMappingFacts
  <2>5. \A j \in 1..Len(RemoveMapping(list, p)) :
           \E i \in 1..Len(list) : RemoveMapping(list, p)[j] = list[i]
    BY <1>1, RemoveMappingFacts
  <2>6. \A i \in 1..Len(list) :
           i # p => \E j \in 1..Len(RemoveMapping(list, p)) :
                       RemoveMapping(list, p)[j] = list[i]
    BY <1>1, RemoveMappingKeeps
  <2>7. DOMAIN list' = 1..Len(list')
    BY <2>4
  <2>8. KeptOrNew
    BY <1>1, <2>2, <2>5, <2>7
  <2>9. KeptOrUp
    BY <1>1, <2>2, <2>3, <2>6, <2>7
  <2> QED
    BY <2>2, <2>4, <2>8, <2>9
<1>4. ASSUME ClearLine PROVE Fine
  <2>1. /\ list' = <<>> /\ monitored' = monitored
        /\ down' = down \ KeysUp(list, DOMAIN list)
        /\ scripted' = scripted \ KeysUp(list, DOMAIN list)
    BY <1>4 DEF ClearLine, KeyUp
  <2>2. Unique(list') /\ KeptOrNew
    BY <2>1 DEF Unique
  <2>3. KeptOrUp
    BY <2>1 DEF KeysUp
  <2> QED
    BY <2>1, <2>2, <2>3
<1>5. ASSUME KeyLine \/ NopLine \/ BadLine PROVE Fine
  BY <1>5 DEF KeyLine, NopLine, BadLine, KeyDown, KeyUp
<1>6. pc \in {"boot", "script"} /\ pc' = pc
  BY DEF ConfigLine, MapLine, UnmapLine, ClearLine, KeyLine, NopLine, BadLine, RunLine
<1> QED
  BY <1>2, <1>3, <1>4, <1>5, <1>6 DEF ConfigLine

(***************************************************************************)
(* One step of apply_mapping changes at most the flag of one entry, to     *)
(* "are its buttons among those left", and the key of that entry with it.  *)
(***************************************************************************)
LEMMA ApplyEntryFacts ==
    ASSUME TypeOK, ApplyEntry
    PROVE  /\ pc = "apply" /\ pc' = "apply"
           /\ cursor \in DOMAIN list /\ cursor' = cursor + 1
           /\ DOMAIN list = 1..Len(list) /\ DOMAIN list' = DOMAIN list
           /\ \A i \in DOMAIN list :
                 /\ list'[i].mask = list[i].mask /\ list'[i].bits = list[i].bits
                 /\ list'[i].type = list[i].type
                 /\ list'[i].value = list[i].value
                 /\ i # cursor => list'[i].activated = list[i].activated
           /\ list'[cursor].activated <=> list[cursor].mask \subseteq rest
           /\ rest' = IF list'[cursor].activated THEN rest \ list[cursor].mask ELSE rest
           /\ monitored' = monitored /\ current' = current
<1>1. cursor \in 1..Len(list) /\ DOMAIN list = 1..Len(list)
  BY DEF TypeOK, ApplyEntry
<1>2. /\ list' \in Seq(Mappings) /\ Len(list') = Len(list)
      /\ \A i \in 1..Len(list) :
            /\ list'[i].mask = list[i].mask /\ list'[i].bits = list[i].bits
            /\ list'[i].type = list[i].type
            /\ list'[i].value = list[i].value
            /\ i # cursor => list'[i].activated = list[i].activated
      /\ list'[cursor].activated <=> list[cursor].mask \subseteq rest
  <2>1. ASSUME NEW b \in BOOLEAN, list' = [list EXCEPT ![cursor].activated = b],
               b <=> list[cursor].mask \subseteq rest
        PROVE  /\ list' \in Seq(Mappings) /\ Len(list') = Len(list)
               /\ \A i \in 1..Len(list) :
                     /\ list'[i].mask = list[i].mask /\ list'[i].bits = list[i].bits
                     /\ list'[i].type = list[i].type
                     /\ list'[i].value = list[i].value
                     /\ i # cursor => list'[i].activated = list[i].activated
               /\ list'[cursor].activated <=> list[cursor].mask \subseteq rest
    <3> DEFINE new == [list EXCEPT ![cursor].activated = b]
    <3>1. list \in Seq(Mappings)
      BY DEF TypeOK
    <3>2. /\ new \in Seq(Mappings) /\ Len(new) = Len(list)
          /\ \A i \in 1..Len(list) :
                /\ new[i].mask = list[i].mask /\ new[i].bits = list[i].bits
                /\ new[i].type = list[i].type
                /\ new[i].value = list[i].value
                /\ new[i].activated = IF i = cursor THEN b ELSE list[i].activated
      BY SMTT(60), <1>1, <3>1, SetActivatedFacts
    <3>3. list' = new
      BY <2>1
    <3> HIDE DEF new
    <3> QED
      BY <1>1, <2>1, <3>2, <3>3
  <2>2. CASE Match
    BY <2>1, <2>2 DEF Match, Matches, Entry
  <2>3. CASE Release
    BY <2>1, <2>3 DEF Release, Matches, Entry
  <2>4. CASE Skip
    BY <1>1, <2>4 DEF Skip, Matches, Entry, TypeOK
  <2> QED
    BY <2>2, <2>3, <2>4 DEF ApplyEntry
<1>3. rest' = IF list'[cursor].activated THEN rest \ list[cursor].mask ELSE rest
  BY <1>1, <1>2 DEF ApplyEntry, Match, Release, Skip, Matches, Entry, Xor
<1>4. DOMAIN list' = DOMAIN list
  BY <1>1, <1>2
<1> QED
  BY <1>1, <1>2, <1>3, <1>4 DEF ApplyEntry

(***************************************************************************)
(* find_mapping is unambiguous: no two entries ever have the same mask.    *)
(***************************************************************************)
LEMMA UniqueStep == TypeOK /\ UniqueMasks /\ [Next]_vars => UniqueMasks'
<1> SUFFICES ASSUME TypeOK, Unique(list), [Next]_vars PROVE Unique(list')
  BY DEF UniqueMasks
<1>1. CASE ConfigLine
  BY <1>1, ConfigLineFacts
<1>2. CASE ApplyEntry
  <2>1. \A i \in DOMAIN list' : i \in DOMAIN list /\ list'[i].mask = list[i].mask
    BY <1>2, ApplyEntryFacts
  <2> QED
    BY <2>1 DEF Unique
<1> QED
  BY <1>1, <1>2, ListSteps

THEOREM MasksUnique == Spec => []UniqueMasks
<1>1. Init => UniqueMasks
  BY DEF Init, UniqueMasks, Unique
<1>2. TypeOK /\ UniqueMasks /\ [Next]_vars => UniqueMasks'
  BY UniqueStep
<1> QED
  BY <1>1, <1>2, TypeCorrect, PTL DEF Spec

(***************************************************************************)
(* No stuck key.                                                           *)
(***************************************************************************)
LEMMA NoStuckKeyStep == TypeOK /\ NoStuckKey /\ [Next]_vars => NoStuckKey'
<1> SUFFICES ASSUME TypeOK, NoStuckKey, [Next]_vars PROVE NoStuckKey'
  OBVIOUS
<1>1. CASE ConfigLine
  <2> SUFFICES ASSUME NEW key \in down' \ scripted'
               PROVE  \E j \in DOMAIN list' : HoldsKey(j, key)'
    BY DEF NoStuckKey
  <2>1. PICK i \in DOMAIN list : HoldsKey(i, key)
    BY <1>1, ConfigLineFacts DEF NoStuckKey
  <2> QED
    BY <1>1, <2>1, ConfigLineFacts DEF HoldsKey
<1>2. CASE ApplyEntry
  <2> SUFFICES ASSUME NEW key \in down' \ scripted'
               PROVE  \E j \in DOMAIN list' : HoldsKey(j, key)'
    BY DEF NoStuckKey
  <2>1. CASE key \in down \ scripted
    <3>1. PICK i \in DOMAIN list : HoldsKey(i, key)
      BY <2>1 DEF NoStuckKey
    <3>2. i = cursor => list'[i].activated
      <4>1. CASE Match
        BY <1>2, <4>1, ApplyEntryFacts DEF Match, Matches, Entry
      <4>2. CASE Release
        BY <3>1, <4>2 DEF Release, Entry, KeyUp, HoldsKey
      <4>3. CASE Skip
        BY <3>1, <4>3 DEF Skip, Entry, HoldsKey
      <4> QED
        BY <1>2, <4>1, <4>2, <4>3 DEF ApplyEntry
    <3> QED
      BY <1>2, <3>1, <3>2, ApplyEntryFacts DEF HoldsKey
  <2>2. CASE key \notin down \ scripted
    <3>1. key = list[cursor].value /\ list[cursor].type = "KEY" /\ Match
      BY <1>2, <2>2 DEF ApplyEntry, Match, Release, Skip, Entry, KeyUp, KeyDown
    <3>2. list'[cursor].activated
      BY <1>2, <3>1, ApplyEntryFacts DEF Match, Matches, Entry
    <3> QED
      BY <1>2, <3>1, <3>2, ApplyEntryFacts DEF HoldsKey
  <2> QED
    BY <2>1, <2>2
<1>3. CASE ~ConfigLine /\ ~ApplyEntry
  BY <1>3, ListSteps DEF NoStuckKey, HoldsKey
<1> QED
  BY <1>1, <1>2, <1>3

THEOREM KeysNeverStick == Spec => []NoStuckKey
<1>1. Init => NoStuckKey
  BY DEF Init, NoStuckKey
<1>2. TypeOK /\ NoStuckKey /\ [Next]_vars => NoStuckKey'
  BY NoStuckKeyStep
<1> QED
  BY <1>1, <1>2, TypeCorrect, PTL DEF Spec

(***************************************************************************)
(* The buttons of key mappings are monitored, however the list changes.    *)
(***************************************************************************)
LEMMA KeysMonitoredStep == TypeOK /\ KeysMonitored /\ [Next]_vars => KeysMonitored'
<1> SUFFICES ASSUME TypeOK, KeysMonitored, [Next]_vars PROVE KeysMonitored'
  OBVIOUS
<1>1. CASE ConfigLine
  <2> SUFFICES ASSUME NEW j \in DOMAIN list', list'[j].type = "KEY"
               PROVE  list'[j].mask \subseteq monitored'
    BY DEF KeysMonitored
  <2>1. CASE \E i \in DOMAIN list : list'[j] = list[i]
    BY <1>1, <2>1, ConfigLineFacts DEF KeysMonitored
  <2>2. CASE ~\E i \in DOMAIN list : list'[j] = list[i]
    BY <1>1, <2>2, ConfigLineFacts
  <2> QED
    BY <2>1, <2>2
<1>2. CASE ApplyEntry
  BY <1>2, ApplyEntryFacts DEF KeysMonitored
<1>3. CASE ~ConfigLine /\ ~ApplyEntry
  BY <1>3, ListSteps DEF KeysMonitored
<1> QED
  BY <1>1, <1>2, <1>3

THEOREM KeyButtonsMonitored == Spec => []KeysMonitored
<1>1. Init => KeysMonitored
  BY DEF Init, KeysMonitored
<1>2. TypeOK /\ KeysMonitored /\ [Next]_vars => KeysMonitored'
  BY KeysMonitoredStep
<1> QED
  BY <1>1, <1>2, TypeCorrect, PTL DEF Spec

-----------------------------------------------------------------------------
(***************************************************************************)
(* A search starts at the first entry with all the buttons of current, and *)
(* only leaves apply_mapping after the last entry.                         *)
(***************************************************************************)
LEMMA SearchSteps ==
    ASSUME TypeOK, [Next]_vars, ~ApplyEntry
    PROVE  /\ pc' = "apply" =>
                \/ pc # "apply" /\ cursor' = 1 /\ rest' = current'
                \/ /\ pc = "apply"
                   /\ cursor' = cursor /\ rest' = rest /\ current' = current
           /\ pc = "apply" /\ pc' # "apply" => cursor = Len(list) + 1
<1>1. CASE Config
  BY <1>1 DEF Config, ConfigLine, BootDone, MapLine, UnmapLine, ClearLine, KeyLine,
              NopLine, BadLine, RunLine, Boundary
<1>2. CASE Wait
  BY <1>2 DEF Wait, SelectTimeout, SelectReady, SelectError, EnterHandle, ReadFds,
              ReadFdsError, Boundary, GoTo
<1>3. CASE PowerChip
  BY <1>3 DEF PowerChip, AxpRead, AxpClear, Pek, GoTo, Return
<1>4. CASE Expander
  BY <1>4 DEF Expander, Status, Input, Sample, GoTo, Return
<1>5. CASE ApplyDone
  BY <1>5 DEF ApplyDone, GoTo, Return, TypeOK
<1>6. CASE Environment
  BY <1>6 DEF Environment, MovePin, PressPek, daemonVars
<1>7. CASE UNCHANGED vars
  BY <1>7 DEF vars, daemonVars
<1> QED
  BY <1>1, <1>2, <1>3, <1>4, <1>5, <1>6, <1>7 DEF Next, Daemon, Apply

(***************************************************************************)
(* The inductive form of DisjointMappings.  During a search the active     *)
(* entries already looked at are disjoint from each other and from the     *)
(* buttons that are left; those still to come are disjoint from each other *)
(* since the search before.                                                *)
(***************************************************************************)
DisjointInv ==
    /\ \A i, j \in DOMAIN list :
          /\ i # j /\ list[i].activated /\ list[j].activated
          /\ pc = "apply" => (i < cursor <=> j < cursor)
          => list[i].mask \cap list[j].mask = {}
    /\ pc = "apply" =>
          \A i \in DOMAIN list :
              i < cursor /\ list[i].activated => list[i].mask \cap rest = {}

LEMMA DisjointStep == TypeOK /\ UniqueMasks /\ DisjointInv /\ [Next]_vars => DisjointInv'
<1> SUFFICES ASSUME TypeOK, UniqueMasks, DisjointInv, [Next]_vars PROVE DisjointInv'
  OBVIOUS
<1>1. CASE ConfigLine
  <2>1. pc # "apply" /\ pc' # "apply"
    BY <1>1, ConfigLineFacts
  <2>2. Unique(list')
    BY <1>1, ConfigLineFacts DEF UniqueMasks
  <2> SUFFICES ASSUME NEW j \in DOMAIN list', NEW k \in DOMAIN list', j # k,
                      list'[j].activated, list'[k].activated
               PROVE  list'[j].mask \cap list'[k].mask = {}
    BY <2>1 DEF DisjointInv
  <2>3. PICK a \in DOMAIN list : list'[j] = list[a]
    BY <1>1, ConfigLineFacts
  <2>4. PICK b \in DOMAIN list : list'[k] = list[b]
    BY <1>1, ConfigLineFacts
  <2>5. a # b
    BY <2>2, <2>3, <2>4 DEF Unique
  <2> QED
    BY <2>1, <2>3, <2>4, <2>5 DEF DisjointInv
<1>2. CASE ApplyEntry
  <2> DEFINE mask == list[cursor].mask
  <2>1. cursor \in DOMAIN list /\ cursor \in Nat /\ DOMAIN list \subseteq Nat
    BY <1>2, ApplyEntryFacts
  <2>2. ASSUME NEW i \in DOMAIN list', i < cursor + 1, list'[i].activated
        PROVE  list'[i].mask \cap rest' = {}
    <3>1. CASE i = cursor
      BY <1>2, <2>2, <3>1, ApplyEntryFacts
    <3>2. CASE i # cursor
      <4>1. i < cursor /\ list[i].activated /\ list'[i].mask = list[i].mask
        BY <1>2, <2>1, <2>2, <3>2, ApplyEntryFacts
      <4>2. list[i].mask \cap rest = {}
        BY <1>2, <2>2, <4>1, ApplyEntryFacts DEF DisjointInv
      <4> QED
        BY <1>2, <4>1, <4>2, ApplyEntryFacts
    <3> QED
      BY <3>1, <3>2
  <2>3. ASSUME NEW i \in DOMAIN list', NEW j \in DOMAIN list', i < j,
               list'[i].activated, list'[j].activated,
               i < cursor + 1 <=> j < cursor + 1
        PROVE  list'[i].mask \cap list'[j].mask = {}
    <3>1. i \in DOMAIN list /\ j \in DOMAIN list /\ i \in Nat /\ j \in Nat
      BY <1>2, <2>1, ApplyEntryFacts
    <3>2. CASE j = cursor
      <4>1. i < cursor /\ list[i].activated /\ mask \subseteq rest
        BY <1>2, <2>3, <3>1, <3>2, ApplyEntryFacts
      <4>2. list[i].mask \cap rest = {}
        BY <1>2, <3>1, <4>1, ApplyEntryFacts DEF DisjointInv
      <4> QED
        BY <1>2, <3>1, <3>2, <4>1, <4>2, ApplyEntryFacts
    <3>3. CASE i = cursor
      BY <2>1, <2>3, <3>1, <3>3
    <3>4. CASE i # cursor /\ j # cursor
      <4>1. list[i].activated /\ list[j].activated /\ (i < cursor <=> j < cursor)
        BY <1>2, <2>1, <2>3, <3>1, <3>4, ApplyEntryFacts
      <4>2. list[i].mask \cap list[j].mask = {}
        BY <2>3, <3>1, <4>1 DEF DisjointInv
      <4> QED
        BY <1>2, <3>1, <4>2, ApplyEntryFacts
    <3> QED
      BY <3>2, <3>3, <3>4
  <2>4. /\ pc' = "apply" /\ cursor' = cursor + 1
        /\ DOMAIN list' \subseteq Nat
    BY <1>2, <2>1, ApplyEntryFacts
  <2>5. ASSUME NEW i \in DOMAIN list', NEW j \in DOMAIN list', i # j,
               list'[i].activated, list'[j].activated,
               i < cursor + 1 <=> j < cursor + 1
        PROVE  list'[i].mask \cap list'[j].mask = {}
    <3>1. i < j \/ j < i
      BY <2>4, <2>5
    <3> QED
      BY <2>3, <2>5, <3>1
  <2> QED
    BY <2>2, <2>4, <2>5 DEF DisjointInv
<1>3. CASE ~ConfigLine /\ ~ApplyEntry
  <2>1. list' = list /\ DOMAIN list = 1..Len(list) /\ Len(list) \in Nat
    BY <1>3, ListSteps DEF TypeOK
  <2>2. CASE pc' = "apply" /\ pc # "apply"
    <3>1. cursor' = 1 /\ \A i \in DOMAIN list' : ~(i < cursor')
      BY <1>3, <2>1, <2>2, SearchSteps
    <3> QED
      BY <2>1, <2>2, <3>1 DEF DisjointInv
  <2>3. CASE pc' = "apply" /\ pc = "apply"
    BY <1>3, <2>1, <2>3, SearchSteps DEF DisjointInv
  <2>4. CASE pc' # "apply"
    BY <1>3, <2>1, <2>4, SearchSteps DEF DisjointInv
  <2> QED
    BY <2>2, <2>3, <2>4
<1> QED
  BY <1>1, <1>2, <1>3

THEOREM MappingsDisjoint == Spec => []DisjointMappings
<1>1. Init => DisjointInv
  BY DEF Init, DisjointInv
<1>2. TypeOK /\ UniqueMasks /\ DisjointInv /\ [Next]_vars => DisjointInv'
  BY DisjointStep
<1>3. DisjointInv => DisjointMappings
  BY DEF DisjointInv, DisjointMappings
<1> QED
  BY <1>1, <1>2, <1>3, TypeCorrect, MasksUnique, PTL DEF Spec

-----------------------------------------------------------------------------
(***************************************************************************)
(* The inductive form of SearchResult: an entry the search has looked at   *)
(* is active exactly when its buttons were left over by the active entries *)
(* before it, and rest is what they have left over.  Used is UsedBefore of *)
(* any list, for the list before and after a step.                         *)
(***************************************************************************)
Used(l, i) ==
    UNION {l[j].mask : j \in {k \in DOMAIN l : k < i /\ l[k].activated}}

SearchInv ==
    pc = "apply" =>
        /\ rest = current \ Used(list, cursor)
        /\ \A i \in DOMAIN list :
              i < cursor =>
                (list[i].activated <=> list[i].mask \subseteq current \ Used(list, i))

LEMMA SearchStep == TypeOK /\ SearchInv /\ [Next]_vars => SearchInv'
<1> SUFFICES ASSUME TypeOK, SearchInv, [Next]_vars, pc' = "apply"
             PROVE  /\ rest' = current' \ Used(list', cursor')
                    /\ \A i \in DOMAIN list' :
                          i < cursor' =>
                            (list'[i].activated
                               <=> list'[i].mask \subseteq current' \ Used(list', i))
  BY DEF SearchInv
<1>1. CASE ConfigLine
  BY <1>1, ConfigLineFacts
<1>2. CASE ApplyEntry
  <2>1. /\ cursor \in DOMAIN list /\ cursor \in Nat /\ DOMAIN list \subseteq Nat
        /\ DOMAIN list' = DOMAIN list /\ cursor' = cursor + 1
    BY <1>2, ApplyEntryFacts
  <2>2. /\ rest = current \ Used(list, cursor)
        /\ \A i \in DOMAIN list :
              i < cursor =>
                (list[i].activated <=> list[i].mask \subseteq current \ Used(list, i))
    BY <1>2, ApplyEntryFacts DEF SearchInv
  <2>3. ASSUME NEW i \in DOMAIN list, i <= cursor
        PROVE  Used(list', i) = Used(list, i)
    <3>1. \A k \in DOMAIN list :
             k < i => /\ list'[k].activated = list[k].activated
                      /\ list'[k].mask = list[k].mask
      BY <1>2, <2>1, <2>3, ApplyEntryFacts
    <3>2. {k \in DOMAIN list' : k < i /\ list'[k].activated}
            = {k \in DOMAIN list : k < i /\ list[k].activated}
      BY <2>1, <3>1
    <3> QED
      BY <3>1, <3>2 DEF Used
  <2>4. Used(list', cursor + 1)
          = Used(list, cursor) \cup (IF list'[cursor].activated THEN list[cursor].mask ELSE {})
    <3>1. {k \in DOMAIN list' : k < cursor + 1 /\ list'[k].activated}
            = {k \in DOMAIN list' : k < cursor /\ list'[k].activated}
                \cup (IF list'[cursor].activated THEN {cursor} ELSE {})
      BY <2>1
    <3>2. Used(list', cursor + 1)
            = Used(list', cursor) \cup (IF list'[cursor].activated THEN list'[cursor].mask ELSE {})
      BY <3>1 DEF Used
    <3>3. Used(list', cursor) = Used(list, cursor)
      BY <2>1, <2>3
    <3> QED
      BY <1>2, <2>1, <3>2, <3>3, ApplyEntryFacts
  <2>5. rest' = current' \ Used(list', cursor')
    BY <1>2, <2>1, <2>2, <2>4, ApplyEntryFacts
  <2>6. ASSUME NEW i \in DOMAIN list', i < cursor'
        PROVE  list'[i].activated <=> list'[i].mask \subseteq current' \ Used(list', i)
    <3>1. i \in DOMAIN list /\ i <= cursor /\ Used(list', i) = Used(list, i)
      BY <2>1, <2>3, <2>6
    <3>2. CASE i = cursor
      BY <1>2, <2>1, <2>2, <3>1, <3>2, ApplyEntryFacts
    <3>3. CASE i # cursor
      <4>1. i < cursor
        BY <2>1, <3>1, <3>3
      <4> QED
        BY <1>2, <2>1, <2>2, <3>1, <3>3, <4>1, ApplyEntryFacts
    <3> QED
      BY <3>2, <3>3
  <2> QED
    BY <2>5, <2>6
<1>3. CASE ~ConfigLine /\ ~ApplyEntry
  <2>1. list' = list /\ DOMAIN list \subseteq Nat \ {0}
    BY <1>3, ListSteps DEF TypeOK
  <2>2. CASE pc = "apply"
    BY <1>3, <2>1, <2>2, SearchSteps DEF SearchInv
  <2>3. CASE pc # "apply"
    <3>1. cursor' = 1 /\ rest' = current'
      BY <1>3, <2>3, SearchSteps
    <3>2. \A i \in DOMAIN list' : ~(i < cursor')
      BY <2>1, <3>1
    <3>3. Used(list', cursor') = {}
      BY <3>2 DEF Used
    <3> QED
      BY <3>1, <3>2, <3>3
  <2> QED
    BY <2>2, <2>3
<1> QED
  BY <1>1, <1>2, <1>3

\* When apply_mapping's loop ends, an entry is active exactly when all of its
\* buttons are pressed and no active entry before it uses one of them, for
\* lists of any length and in any order.
THEOREM SearchIsRight == Spec => []SearchResult
<1>1. Init => SearchInv
  BY DEF Init, SearchInv
<1>2. TypeOK /\ SearchInv => SearchResult
  <2> SUFFICES ASSUME TypeOK, SearchInv, pc = "apply", cursor = Len(list) + 1,
                      NEW i \in DOMAIN list
               PROVE  list[i].activated <=> list[i].mask \subseteq current \ UsedBefore(i)
    BY DEF SearchResult, Follows
  <2>1. i < cursor
    BY DEF TypeOK
  <2> QED
    BY <2>1 DEF SearchInv, Used, UsedBefore
<1> QED
  BY <1>1, <1>2, SearchStep, TypeCorrect, PTL DEF Spec

-----------------------------------------------------------------------------
(***************************************************************************)
(* The inductive form of NoFalseShutdown.  The lid is monitored from the   *)
(* end of init_gpio_mapping on; as long as it was never seen closed, its   *)
(* bit is 1 in every mask that is read, also in the -errno of a failed     *)
(* read, and so 0 in every mask after the inversion.                       *)
(***************************************************************************)
LidQuiet ==
    /\ NOE \in low /\ NOE \in lastRead
    /\ NOE \notin current /\ NOE \notin previous /\ NOE \notin intr

ShutdownInv ==
    /\ pc # "boot" => NOE \in monitored
    /\ ~alarm => LidQuiet /\ "long" \notin pek /\ "long" \notin pekSeen /\ ~shutdown

LEMMA ShutdownStep == TypeOK /\ ShutdownInv /\ [Next]_vars => ShutdownInv'
<1> SUFFICES ASSUME TypeOK, ShutdownInv, [Next]_vars PROVE ShutdownInv'
  OBVIOUS
<1> USE DEF ShutdownInv, LidQuiet
<1>1. CASE Config
  <2>1. CASE BootDone
    BY <2>1 DEF BootDone, Boundary, deviceVars, outputVars
  <2>2. CASE ConfigLine
    BY <2>2, ConfigLineFacts DEF ConfigLine, deviceVars
  <2> QED
    BY <1>1, <2>1, <2>2 DEF Config
<1>2. CASE Wait
  <2>1. pc # "boot" /\ UNCHANGED <<monitored, intr, pekSeen, low, lastRead, pek, outputVars, alarm>>
    BY <1>2 DEF Wait, SelectTimeout, SelectReady, SelectError, EnterHandle, ReadFds,
                ReadFdsError, Boundary, deviceVars
  <2>2. current' \in {{}, current} /\ previous' \in {{}, current, previous}
    BY <1>2 DEF Wait, SelectTimeout, SelectReady, SelectError, EnterHandle, ReadFds,
                ReadFdsError, GoTo
  <2> QED
    BY <2>1, <2>2 DEF outputVars
<1>3. CASE PowerChip
  <2>1. /\ pc # "boot" /\ previous' \in {{}, previous}
        /\ UNCHANGED <<monitored, current, intr, low, lastRead, alarm>>
    BY <1>3 DEF PowerChip, AxpRead, AxpClear, Pek, GoTo, Return, deviceVars
  <2>2. pek' \in {{}, pek} /\ pekSeen' \in {{}, pek, pekSeen}
    BY <1>3 DEF PowerChip, AxpRead, AxpClear, Pek, deviceVars
  <2>3. shutdown' => shutdown \/ "long" \in pekSeen
    BY <1>3 DEF PowerChip, AxpRead, AxpClear, Pek, outputVars
  <2> QED
    BY <2>1, <2>2, <2>3
<1>4. CASE Status
  <2>1. /\ pc # "boot" /\ previous' \in {{}, previous}
        /\ UNCHANGED <<monitored, current, pekSeen, low, lastRead, pek, shutdown, alarm>>
    BY <1>4 DEF Status, GoTo, Return, deviceVars, outputVars
  <2>2. intr' = intr \/ intr' = IntStatus(low, lastRead)
    BY <1>4 DEF Status
  <2> QED
    BY <2>1, <2>2 DEF IntStatus, Xor
<1>5. CASE Input
  <2>1. /\ pc # "boot" /\ UNCHANGED <<monitored, pekSeen, low, pek, alarm>>
        /\ lastRead' \in {low, lastRead}
    BY <1>5 DEF Input
  <2>2. PICK active : Sample(active) /\ (NOE \in low => NOE \in active)
    BY <1>5, ErrnoAssumption DEF Input
  <2>3. current' = Xor(active \cap monitored, {NOE}) /\ previous' = {} /\ intr' = {}
    BY <2>2 DEF Sample, GoTo
  <2>4. shutdown' => \/ shutdown
                     \/ NOE \in intr
                     \/ NOE \in Xor(current', previous)
    BY <2>2 DEF Sample
  <2>5. NOE \in low => NOE \notin current'
    BY <2>1, <2>2, <2>3 DEF Xor
  <2> QED
    BY <2>1, <2>3, <2>4, <2>5 DEF Xor
<1>6. CASE Apply
  BY <1>6 DEF Apply, ApplyEntry, ApplyDone, GoTo, Return, deviceVars, outputVars
<1>7. CASE Environment
  <2>1. /\ UNCHANGED <<pc, monitored, current, previous, intr, pekSeen, lastRead, shutdown>>
        /\ alarm => alarm'
    BY <1>7 DEF Environment, MovePin, PressPek, daemonVars, outputVars
  <2>2. ~alarm' => (NOE \in low => NOE \in low')
    BY <1>7 DEF Environment, MovePin, PressPek
  <2>3. ~alarm' => ("long" \in pek' => "long" \in pek)
    BY <1>7 DEF Environment, MovePin, PressPek
  <2> QED
    BY <2>1, <2>2, <2>3
<1>8. CASE UNCHANGED vars
  BY <1>8 DEF vars, daemonVars, deviceVars, outputVars
<1> QED
  BY <1>1, <1>2, <1>3, <1>4, <1>5, <1>6, <1>7, <1>8 DEF Next, Daemon, Expander

\* Whatever fails and whatever the scripts do, the shutdown command is only run
\* after the lid was closed or the power key held.
THEOREM ShutdownIsRight == Spec => []NoFalseShutdown
<1>1. Init => ShutdownInv
  <2> SUFFICES ASSUME Init PROVE ShutdownInv
    OBVIOUS
  <2>1. pc = "boot" /\ pek = {} /\ pekSeen = {} /\ current = {} /\ previous = {} /\ intr = {}
    BY DEF Init
  <2>2. ~alarm => NOE \in low /\ NOE \in lastRead
    BY DEF Init
  <2>3. ~shutdown
    BY DEF Init
  <2> QED
    BY <2>1, <2>2, <2>3 DEF ShutdownInv, LidQuiet
<1>2. ShutdownInv => NoFalseShutdown
  BY DEF ShutdownInv, NoFalseShutdown
<1> QED
  BY <1>1, <1>2, ShutdownStep, TypeCorrect, PTL DEF Spec

-----------------------------------------------------------------------------
(***************************************************************************)
(* The scripts.  A line that is run is taken off the front, a rejected one *)
(* ends the file, and only a FIFO wake brings new ones.                    *)
(***************************************************************************)
LEMMA ScriptSteps ==
    ASSUME [Next]_vars
    PROVE  \/ script # <<>> /\ script' = Tail(script) /\ ConfigLine
           \/ script' = <<>>
           \/ script' = script /\ ~SelectReady
           \/ SelectReady /\ pc = "select" /\ (script' = script \/ script' \in Scripts)
<1>1. CASE ConfigLine
  BY <1>1 DEF ConfigLine, MapLine, UnmapLine, ClearLine, KeyLine, NopLine, BadLine, RunLine,
              SelectReady, EnterHandle
<1>2. CASE SelectReady
  BY <1>2 DEF SelectReady, EnterHandle
<1>3. CASE ~ConfigLine /\ ~SelectReady
  BY <1>3 DEF Next, Daemon, Config, Wait, PowerChip, Expander, Apply, BootDone, SelectTimeout,
              SelectError, EnterHandle, ReadFds, ReadFdsError, AxpRead, AxpClear, Pek, Status,
              Input, ApplyEntry, ApplyDone, Environment, MovePin, PressPek, vars, daemonVars
<1> QED
  BY <1>1, <1>2, <1>3

\* What is run, and what is mapped to a key, comes from the lines of the
\* configuration.
OriginInv ==
    /\ \A n \in DOMAIN script : script[n] \in AllLines
    /\ \A i \in DOMAIN list :
          list[i].type = "KEY" =>
              \E l \in AllLines :
                  l.op = "MAP KEY" /\ l.mask = list[i].mask /\ l.value = list[i].value

LEMMA OriginInit == Init => OriginInv
<1> SUFFICES ASSUME Init PROVE OriginInv
  OBVIOUS
<1>1. script = Boot /\ list = <<>>
  BY DEF Init
<1>2. \A n \in DOMAIN Boot : Boot[n] \in Range(Boot)
  BY DEF Range
<1> QED
  BY <1>1, <1>2 DEF OriginInv, AllLines

LEMMA OriginStep == TypeOK /\ OriginInv /\ [Next]_vars => OriginInv'
<1> SUFFICES ASSUME TypeOK, OriginInv, [Next]_vars PROVE OriginInv'
  OBVIOUS
<1> DEFINE FromLine(e) ==
        e.type = "KEY" =>
            \E l \in AllLines : l.op = "MAP KEY" /\ l.mask = e.mask /\ l.value = e.value
<1>1. script \in Seq(Lines) /\ list \in Seq(Mappings)
  BY DEF TypeOK
<1>2. DOMAIN script = 1..Len(script) /\ DOMAIN list = 1..Len(list)
  BY <1>1
<1>3. \A n \in 1..Len(script) : script[n] \in AllLines
  BY <1>2 DEF OriginInv
<1>4. \A i \in 1..Len(list) : FromLine(list[i])
  BY <1>2 DEF OriginInv
<1>5. \A n \in DOMAIN script' : script'[n] \in AllLines
  <2>1. CASE script # <<>> /\ script' = Tail(script)
    <3>1. Len(script') = Len(script) - 1 /\ \A n \in 1..Len(script') : script'[n] = script[n + 1]
      BY <1>1, <2>1
    <3>2. DOMAIN script' = 1..Len(script')
      BY <1>1, <2>1
    <3> QED
      BY <1>3, <3>1, <3>2
  <2>2. CASE script' \in Scripts
    <3>1. \A n \in DOMAIN script' : script'[n] \in Range(script')
      BY DEF Range
    <3> QED
      BY <2>2, <3>1 DEF AllLines
  <2>3. CASE script' = <<>>
    BY <2>3
  <2>4. CASE script' = script
    BY <2>4 DEF OriginInv
  <2> QED
    BY <2>1, <2>2, <2>3, <2>4, ScriptSteps
<1>6. \A i \in DOMAIN list' : FromLine(list'[i])
  <2>1. ASSUME NEW op, NEW type, MapLine(op, type),
               \/ op = "MAP KEY" /\ type = "KEY"
               \/ op = "MAP COMMAND" /\ type = "COMMAND"
        PROVE  \A i \in DOMAIN list' : FromLine(list'[i])
    <3> DEFINE line == Head(script)
               m == NewMapping(line.mask, line.bits, type, line.value)
    <3>1. line \in Lines /\ line.op = op /\ line = script[1] /\ 1 \in 1..Len(script)
      <4>1. script # <<>> /\ line.op = op
        BY <2>1 DEF MapLine, RunLine
      <4>2. Len(script) # 0
        BY <1>1, <4>1
      <4> QED
        BY <1>1, <4>1, <4>2, HeadTailFacts
    <3>2. m \in Mappings
      BY <2>1, <3>1, NewMappingFacts
    <3>3. FromLine(m)
      <4>1. line \in AllLines
        BY <1>3, <3>1
      <4>2. m.mask = line.mask /\ m.value = line.value /\ m.type = type
        BY DEF NewMapping
      <4> QED
        BY <2>1, <3>1, <4>1, <4>2
    <3>4. list' = MapMapping(list, m)
      BY <2>1 DEF MapLine
    <3> HIDE DEF m, FromLine
    <3>5. list' \in Seq(Mappings)
      BY <1>1, <3>2, <3>4, MapMappingFacts
    <3>6. \A j \in 1..Len(MapMapping(list, m)) :
             \/ MapMapping(list, m)[j] = m
             \/ \E i \in 1..Len(list) : MapMapping(list, m)[j] = list[i]
      BY <1>1, <3>2, MapMappingFacts
    <3>7. DOMAIN list' = 1..Len(list')
      BY <3>5
    <3> QED
      BY <1>4, <3>3, <3>4, <3>6, <3>7
  <2>2. ASSUME UnmapLine PROVE \A i \in DOMAIN list' : FromLine(list'[i])
    <3> DEFINE old == FindMapping(list, Head(script).mask)
    <3>1. PICK p \in 1..Len(list) : list' = RemoveMapping(list, p)
      <4>1. old # 0 /\ list' = RemoveMapping(list, old)
        BY <2>2 DEF UnmapLine
      <4>2. old \in 0..Len(list)
        BY <1>1, FindMappingFacts
      <4> HIDE DEF old
      <4> QED
        BY <4>1, <4>2
    <3> HIDE DEF FromLine
    <3>2. list' \in Seq(Mappings)
      BY <1>1, <3>1, RemoveMappingFacts
    <3>3. \A j \in 1..Len(RemoveMapping(list, p)) :
             \E i \in 1..Len(list) : RemoveMapping(list, p)[j] = list[i]
      BY <1>1, RemoveMappingFacts
    <3>4. DOMAIN list' = 1..Len(list')
      BY <3>2
    <3> QED
      BY <1>4, <3>1, <3>3, <3>4
  <2>3. CASE ApplyEntry
    <3>1. /\ DOMAIN list' = DOMAIN list
          /\ \A i \in DOMAIN list :
                /\ list'[i].mask = list[i].mask
                /\ list'[i].type = list[i].type
                /\ list'[i].value = list[i].value
      BY <2>3, ApplyEntryFacts
    <3>2. ASSUME NEW i \in DOMAIN list PROVE FromLine(list'[i])
      <4>1. FromLine(list[i])
        <5> HIDE DEF FromLine
        <5> QED
          BY <1>4
      <4>2. list'[i].mask = list[i].mask /\ list'[i].type = list[i].type /\ list'[i].value = list[i].value
        BY <3>1
      <4> QED
        BY <4>1, <4>2
    <3> QED
      BY <3>1, <3>2
  <2>4. CASE list' = list \/ list' = <<>>
    <3> HIDE DEF FromLine
    <3> QED
      BY <1>2, <1>4, <2>4
  <2>5. ConfigLine =>
           \/ MapLine("MAP KEY", "KEY") \/ MapLine("MAP COMMAND", "COMMAND") \/ UnmapLine
           \/ list' = list \/ list' = <<>>
    BY DEF ConfigLine, ClearLine, KeyLine, NopLine, BadLine
  <2> HIDE DEF FromLine
  <2> QED
    BY <2>1, <2>2, <2>3, <2>4, <2>5, ListSteps
<1> QED
  BY <1>5, <1>6 DEF OriginInv

(***************************************************************************)
(* A key that a configuration line lets go of was held by a mapping that   *)
(* the line dropped, and no active mapping with its buttons is left.       *)
(***************************************************************************)
LEMMA LetGoFacts ==
    ASSUME TypeOK, UniqueMasks, ConfigLine,
           NEW key \in down \cup scripted, key \notin down' \cup scripted'
    PROVE  \E i \in DOMAIN list :
              /\ HoldsKey(i, key)
              /\ \A j \in DOMAIN list' : list'[j].activated => list'[j].mask # list[i].mask
<1>1. list \in Seq(Mappings) /\ DOMAIN list = 1..Len(list) /\ Unique(list)
  BY DEF TypeOK, UniqueMasks
<1>2. ASSUME NEW op, NEW type, MapLine(op, type),
             \/ op = "MAP KEY" /\ type = "KEY"
             \/ op = "MAP COMMAND" /\ type = "COMMAND"
      PROVE  \E i \in DOMAIN list :
                /\ HoldsKey(i, key)
                /\ \A j \in DOMAIN list' : list'[j].activated => list'[j].mask # list[i].mask
  <2> DEFINE line == Head(script)
             m == NewMapping(line.mask, line.bits, type, line.value)
             old == FindMapping(list, line.mask)
  <2>1. m \in Mappings /\ m.mask = line.mask /\ ~m.activated
    <3>1. line \in Lines /\ line.op = op
      BY <1>2, HeadTailFacts DEF TypeOK, MapLine, RunLine
    <3>2. m \in Mappings
      BY <1>2, <3>1, NewMappingFacts
    <3> QED
      BY <3>2 DEF NewMapping
  <2>2. /\ list' = MapMapping(list, m)
        /\ old # 0 /\ key \in KeysUp(list, {old})
    BY <1>2 DEF MapLine, KeyUp
  <2>3. old \in 0..Len(list)
    BY <1>1, FindMappingFacts
  <2>4. old = FindMapping(list, m.mask)
    BY <2>1
  <2> HIDE DEF line, m, old
  <2>5. old \in DOMAIN list /\ HoldsKey(old, key)
    BY <1>1, <2>2, <2>3 DEF KeysUp, HoldsKey
  <2>6. list' \in Seq(Mappings)
    BY <1>1, <2>1, <2>2, MapMappingFacts
  <2>7. \A j \in 1..Len(MapMapping(list, m)) :
           \/ MapMapping(list, m)[j] = m
           \/ \E i \in 1..Len(list) :
                 i # FindMapping(list, m.mask) /\ MapMapping(list, m)[j] = list[i]
    BY <1>1, <2>1, MapMappingFacts
  <2>8. DOMAIN list' = 1..Len(list')
    BY <2>6
  <2>9. ASSUME NEW j \in DOMAIN list', list'[j].activated
        PROVE  list'[j].mask # list[old].mask
    <3>1. PICK i \in 1..Len(list) : i # old /\ list'[j] = list[i]
      BY <2>1, <2>2, <2>4, <2>7, <2>8, <2>9
    <3> QED
      BY <1>1, <2>5, <3>1 DEF Unique
  <2> QED
    BY <2>5, <2>9
<1>3. ASSUME UnmapLine
      PROVE  \E i \in DOMAIN list :
                /\ HoldsKey(i, key)
                /\ \A j \in DOMAIN list' : list'[j].activated => list'[j].mask # list[i].mask
  <2> DEFINE old == FindMapping(list, Head(script).mask)
  <2>1. old # 0 /\ list' = RemoveMapping(list, old) /\ key \in KeysUp(list, {old})
    BY <1>3 DEF UnmapLine, KeyUp
  <2>2. old \in 0..Len(list)
    BY <1>1, FindMappingFacts
  <2> HIDE DEF old
  <2>3. old \in 1..Len(list) /\ HoldsKey(old, key)
    BY <1>1, <2>1, <2>2 DEF KeysUp, HoldsKey
  <2>4. list' \in Seq(Mappings)
    BY <1>1, <2>1, <2>3, RemoveMappingFacts
  <2>5. \A j \in 1..Len(RemoveMapping(list, old)) :
           RemoveMapping(list, old)[j].mask # list[old].mask
    BY <1>1, <2>3, RemoveMappingFacts
  <2>6. DOMAIN list' = 1..Len(list')
    BY <2>4
  <2> QED
    BY <1>1, <2>1, <2>3, <2>5, <2>6
<1>4. ASSUME ClearLine
      PROVE  \E i \in DOMAIN list :
                /\ HoldsKey(i, key)
                /\ \A j \in DOMAIN list' : list'[j].activated => list'[j].mask # list[i].mask
  <2>1. list' = <<>> /\ key \in KeysUp(list, DOMAIN list)
    BY <1>4 DEF ClearLine, KeyUp
  <2>2. \E i \in DOMAIN list : HoldsKey(i, key)
    BY <2>1 DEF KeysUp, HoldsKey
  <2> QED
    BY <2>1, <2>2
<1>5. ~(KeyLine \/ NopLine \/ BadLine)
  BY DEF KeyLine, NopLine, BadLine, KeyDown, KeyUp
<1> QED
  BY <1>2, <1>3, <1>4, <1>5 DEF ConfigLine

\* When no key is mapped to two combinations, two entries of the list that
\* have the same key have the same buttons.
LEMMA KeyOfOneMask ==
    ASSUME KeysMappedOnce, OriginInv,
           NEW i \in DOMAIN list, NEW k \in DOMAIN list,
           list[i].type = "KEY", list[k].type = "KEY", list[i].value = list[k].value
    PROVE  list[i].mask = list[k].mask
<1>1. PICK l \in AllLines :
         l.op = "MAP KEY" /\ l.mask = list[i].mask /\ l.value = list[i].value
  BY DEF OriginInv
<1>2. PICK m \in AllLines :
         m.op = "MAP KEY" /\ m.mask = list[k].mask /\ m.value = list[k].value
  BY DEF OriginInv
<1> QED
  BY <1>1, <1>2 DEF KeysMappedOnce

LEMMA HeldKeyStep ==
    ASSUME KeysMappedOnce, TypeOK, UniqueMasks, OriginInv, HeldKeyIsDown, [Next]_vars
    PROVE  HeldKeyIsDown'
<1>1. \A i, k \in DOMAIN list : \A key :
         HoldsKey(i, key) /\ HoldsKey(k, key) => list[i].mask = list[k].mask
  BY KeyOfOneMask DEF HoldsKey
<1> SUFFICES ASSUME NEW j \in DOMAIN list', NEW key \in Keys, HoldsKey(j, key)'
             PROVE  key \in down' \cup scripted'
  BY DEF HeldKeyIsDown
<1>2. CASE ConfigLine
  <2>1. PICK i \in DOMAIN list : list'[j] = list[i]
    BY <1>2, ConfigLineFacts DEF HoldsKey
  <2>2. HoldsKey(i, key) /\ key \in down \cup scripted
    BY <2>1 DEF HoldsKey, HeldKeyIsDown
  <2> SUFFICES ASSUME key \notin down' \cup scripted' PROVE FALSE
    OBVIOUS
  <2>3. PICK k \in DOMAIN list :
           /\ HoldsKey(k, key)
           /\ \A n \in DOMAIN list' : list'[n].activated => list'[n].mask # list[k].mask
    BY <1>2, <2>2, LetGoFacts
  <2>4. list'[j].activated /\ list'[j].mask = list[k].mask
    BY <1>1, <2>1, <2>2, <2>3 DEF HoldsKey
  <2> QED
    BY <2>3, <2>4
<1>3. CASE ApplyEntry
  <2>1. /\ j \in DOMAIN list /\ cursor \in DOMAIN list
        /\ list'[j].mask = list[j].mask /\ list[j].type = "KEY" /\ list[j].value = key
        /\ j # cursor => list[j].activated
        /\ list'[j].activated
    BY <1>3, ApplyEntryFacts DEF HoldsKey
  <2>2. list[j].activated => HoldsKey(j, key) /\ key \in down \cup scripted
    BY <2>1 DEF HoldsKey, HeldKeyIsDown
  <2>3. CASE Match
    BY <2>1, <2>2, <2>3 DEF Match, Entry, KeyDown
  <2>4. CASE Release
    <3>1. j # cursor
      BY <1>3, <2>1, <2>4, ApplyEntryFacts DEF Release, Matches, Entry
    <3>2. list[cursor].type = "KEY" => list[cursor].value # key
      <4> SUFFICES ASSUME list[cursor].type = "KEY", list[cursor].value = key PROVE FALSE
        OBVIOUS
      <4>1. HoldsKey(cursor, key)
        BY <2>4 DEF Release, Entry, HoldsKey
      <4> QED
        BY <1>1, <2>1, <2>2, <3>1, <4>1 DEF UniqueMasks, Unique
    <3> QED
      BY <2>1, <2>2, <2>4, <3>1, <3>2 DEF Release, Entry, KeyUp
  <2>5. CASE Skip
    <3>1. list' = list /\ down' = down /\ scripted' = scripted
      BY <2>5 DEF Skip
    <3> QED
      BY <2>1, <2>2, <3>1
  <2> QED
    BY <1>3, <2>3, <2>4, <2>5 DEF ApplyEntry
<1>4. CASE ~ConfigLine /\ ~ApplyEntry
  <2>1. list' = list /\ down \cup scripted \subseteq down' \cup scripted'
    BY <1>4, ListSteps
  <2>2. HoldsKey(j, key) /\ j \in DOMAIN list
    BY <2>1 DEF HoldsKey
  <2> QED
    BY <2>1, <2>2 DEF HeldKeyIsDown
<1> QED
  BY <1>2, <1>3, <1>4

\* When a configuration maps no key to two combinations, the key of an active
\* combination is down, unless the last to let it go was a KEYUP or KEYPRESS
\* line or the power key; however the list changes while buttons are held.
THEOREM HeldKeysAreDown ==
    ASSUME KeysMappedOnce
    PROVE  Spec => []HeldKeyIsDown
<1>1. Init => HeldKeyIsDown
  BY DEF Init, HeldKeyIsDown
<1>2. TypeOK /\ OriginInv /\ [Next]_vars => OriginInv'
  BY OriginStep
<1>3. TypeOK /\ UniqueMasks /\ OriginInv /\ HeldKeyIsDown /\ [Next]_vars => HeldKeyIsDown'
  BY HeldKeyStep
<1> QED
  BY <1>1, <1>2, <1>3, OriginInit, TypeCorrect, MasksUnique, PTL DEF Spec

(***************************************************************************)
(* A step that lets a key go while an entry holds it is a line that names  *)
(* the key, or the tap of MENU: a line that drops an entry drops the only  *)
(* one with its key, and so does the release of one.                       *)
(***************************************************************************)
LEMMA HeldKeyStays ==
    ASSUME KeysMappedOnce, TypeOK, UniqueMasks, OriginInv, [Next]_vars,
           NEW key \in down \ down', NEW j \in DOMAIN list', HoldsKey(j, key)'
    PROVE  \/ RunLine("KEYUP") /\ Head(script).value = key
           \/ RunLine("KEYPRESS") /\ Head(script).value = key
           \/ pc = "pek" /\ list[j].mask = {MENU}
<1>1. list \in Seq(Mappings) /\ DOMAIN list = 1..Len(list)
  BY DEF TypeOK
<1>2. CASE ConfigLine
  <2>1. CASE KeyLine
    BY <2>1 DEF KeyLine, KeyDown, KeyUp
  <2>2. CASE NopLine \/ BadLine
    BY <2>2 DEF NopLine, BadLine
  <2>3. CASE ~KeyLine /\ ~NopLine /\ ~BadLine
    <3>1. key \notin down' \cup scripted'
      BY <1>2, <2>3 DEF ConfigLine, MapLine, UnmapLine, ClearLine, KeyUp
    <3>2. PICK k \in DOMAIN list :
             /\ HoldsKey(k, key)
             /\ \A n \in DOMAIN list' : list'[n].activated => list'[n].mask # list[k].mask
      BY <1>2, <3>1, LetGoFacts
    <3>3. PICK i \in DOMAIN list : list'[j] = list[i]
      BY <1>2, ConfigLineFacts DEF HoldsKey
    <3>4. list[i].mask = list[k].mask
      BY <3>2, <3>3, KeyOfOneMask DEF HoldsKey
    <3> QED
      BY <3>2, <3>3, <3>4 DEF HoldsKey
  <2> QED
    BY <2>1, <2>2, <2>3
<1>3. CASE ApplyEntry
  <2>1. /\ j \in DOMAIN list /\ cursor \in DOMAIN list
        /\ list[j].type = "KEY" /\ list[j].value = key
        /\ list'[j].activated
        /\ list'[cursor].activated <=> list[cursor].mask \subseteq rest
    BY <1>3, ApplyEntryFacts DEF HoldsKey
  <2>2. Release /\ list[cursor].type = "KEY" /\ list[cursor].value = key
    BY <1>3 DEF ApplyEntry, Match, Release, Skip, Entry, KeyDown, KeyUp
  <2>3. list[j].mask = list[cursor].mask
    BY <2>1, <2>2, KeyOfOneMask
  <2>4. j # cursor
    BY <2>1, <2>2 DEF Release, Matches, Entry
  <2> QED
    BY <2>1, <2>3, <2>4 DEF UniqueMasks, Unique
<1>4. CASE Pek
  <2> DEFINE menu == FindMapping(list, {MENU})
  <2>1. menu # 0 /\ list[menu].type = "KEY" /\ key = list[menu].value /\ list' = list
    BY <1>4 DEF Pek, KeyUp
  <2>2. menu \in 0..Len(list) /\ (menu # 0 => list[menu].mask = {MENU})
    BY <1>1, FindMappingFacts
  <2> HIDE DEF menu
  <2>3. j \in DOMAIN list /\ list[j].type = "KEY" /\ list[j].value = key
    BY <2>1 DEF HoldsKey
  <2>4. menu \in DOMAIN list /\ list[menu].mask = {MENU}
    BY <1>1, <2>1, <2>2
  <2>5. list[j].mask = {MENU}
    BY <2>1, <2>3, <2>4, KeyOfOneMask
  <2> QED
    BY <1>4, <2>5 DEF Pek
<1>5. CASE ~ConfigLine /\ ~ApplyEntry /\ ~Pek
  <2>1. down' = down
    BY <1>5 DEF Next, Daemon, Config, BootDone, Wait, SelectTimeout, SelectReady, SelectError,
                EnterHandle, ReadFds, ReadFdsError, PowerChip, AxpRead, AxpClear, Expander,
                Status, Input, Apply, ApplyDone, Environment, MovePin, PressPek, vars,
                outputVars
  <2> QED
    BY <2>1
<1> QED
  BY <1>2, <1>3, <1>4, <1>5

\* When a configuration maps no key to two combinations, no removal, no release
\* of another mapping and no power key press lets a key go that a combination
\* goes on holding: only a KEYUP or KEYPRESS line for it does, and for MENU's
\* own key its tap.
THEOREM HeldKeysStayDown ==
    ASSUME KeysMappedOnce
    PROVE  Spec => HeldKeyStaysDown
<1>1. TypeOK /\ UniqueMasks /\ OriginInv /\ [Next]_vars =>
         [\A key \in down \ down' : \A i \in DOMAIN list' :
             HoldsKey(i, key)' =>
                 \/ RunLine("KEYUP") /\ Head(script).value = key
                 \/ RunLine("KEYPRESS") /\ Head(script).value = key
                 \/ pc = "pek" /\ list[i].mask = {MENU}]_vars
  BY HeldKeyStays
<1>2. TypeOK /\ OriginInv /\ [Next]_vars => OriginInv'
  BY OriginStep
<1> QED
  BY <1>1, <1>2, OriginInit, TypeCorrect, MasksUnique, PTL DEF Spec, HeldKeyStaysDown

-----------------------------------------------------------------------------
(***************************************************************************)
(* Between two calls the active mappings are those of current_gpio_mask,   *)
(* as long as the scripts leave the list alone and no call returns before  *)
(* it has compared the buttons: the call that starts keeps the buttons of  *)
(* the last one in previous, and either searches again or finds that they  *)
(* have not changed.                                                       *)
(***************************************************************************)
QuietOps == {"KEYDOWN", "KEYUP", "KEYPRESS", "NOP", "BAD"}

ScriptsAreQuiet == \A s \in Scripts : \A n \in DOMAIN s : s[n].op \in QuietOps
NoEarlyReturn == FaultKinds \cap {"select", "fifo", "axp", "status"} = {}

Comparing == {"script", "axp", "clear", "pek", "status", "input"}

SyncInv ==
    /\ pc = "boot" => \A i \in DOMAIN list : ~list[i].activated
    /\ pc = "script" => \A n \in DOMAIN script : script[n].op \in QuietOps
    /\ pc \notin {"boot", "script"} => script = <<>>
    /\ pc = "select" => Follows(current)
    /\ pc \in Comparing => Follows(previous)

LEMMA FollowsNothing ==
    ASSUME TypeOK, \A i \in DOMAIN list : ~list[i].activated
    PROVE  Follows({})
<1>1. \A i \in DOMAIN list : list[i] \in Mappings
  BY DEF TypeOK
<1>2. \A i \in DOMAIN list : list[i].mask # {}
  BY <1>1 DEF Mappings, Mapping, Combinations
<1> QED
  BY <1>2 DEF Follows

\* A line of a quiet script does not touch the list.
LEMMA QuietLine ==
    ASSUME TypeOK, SyncInv, ConfigLine, pc = "script"
    PROVE  list' = list /\ \A n \in DOMAIN script' : script'[n].op \in QuietOps
<1>1. script \in Seq(Lines) /\ DOMAIN script = 1..Len(script)
  BY DEF TypeOK
<1>2. script # <<>> /\ (script' = Tail(script) \/ script' = <<>>)
  BY DEF ConfigLine, MapLine, UnmapLine, ClearLine, KeyLine, NopLine, BadLine, RunLine
<1>3. 1 \in 1..Len(script) /\ Head(script) = script[1]
  <2>1. Len(script) # 0
    BY <1>1, <1>2
  <2> QED
    BY <1>1, <2>1
<1>4. Head(script).op \in QuietOps
  BY <1>1, <1>3 DEF SyncInv
<1>5. list' = list
  BY <1>4 DEF ConfigLine, MapLine, UnmapLine, ClearLine, KeyLine, NopLine, BadLine, RunLine, QuietOps
<1>6. CASE script' = Tail(script)
  <2>1. Len(script') = Len(script) - 1 /\ \A n \in 1..Len(script') : script'[n] = script[n + 1]
    BY <1>1, <1>2, <1>6
  <2>2. DOMAIN script' = 1..Len(script')
    BY <1>1, <1>2, <1>6
  <2>3. \A n \in 1..Len(script) : script[n].op \in QuietOps
    BY <1>1 DEF SyncInv
  <2> QED
    BY <1>1, <1>5, <2>1, <2>2, <2>3
<1>7. CASE script' = <<>>
  BY <1>5, <1>7
<1> QED
  BY <1>2, <1>6, <1>7

LEMMA SyncStep ==
    ASSUME ScriptsAreQuiet, NoEarlyReturn, TypeOK, SearchResult, SyncInv, [Next]_vars
    PROVE  SyncInv'
<1> DEFINE FollowsAfter(buttons) ==
        \A i \in DOMAIN list' :
            list'[i].activated <=>
                list'[i].mask \subseteq buttons \
                    UNION {list'[j].mask : j \in {k \in DOMAIN list' : k < i /\ list'[k].activated}}
<1>1. /\ Follows(current)' <=> FollowsAfter(current')
      /\ Follows(previous)' <=> FollowsAfter(previous')
  BY DEF Follows, UsedBefore
<1>2. ASSUME list' = list, NEW buttons PROVE FollowsAfter(buttons) <=> Follows(buttons)
  BY <1>2 DEF Follows, UsedBefore
<1> HIDE DEF FollowsAfter
<1>3. CASE BootDone
  <2>1. /\ list' = list /\ pc = "boot" /\ pc' = "select"
        /\ current' = {} /\ script' = <<>>
    BY <1>3 DEF BootDone, Boundary
  <2>2. Follows({})
    BY <2>1, FollowsNothing DEF SyncInv
  <2> QED
    BY <1>1, <1>2, <2>1, <2>2 DEF SyncInv, Comparing
<1>4. CASE ConfigLine
  <2>1. /\ pc \in {"boot", "script"} /\ pc' = pc /\ UNCHANGED <<current, previous>>
    BY <1>4, ConfigLineFacts DEF ConfigLine
  <2>2. CASE pc = "boot"
    <3>1. \A j \in DOMAIN list' : ~list'[j].activated
      BY <1>4, <2>2, ConfigLineFacts DEF SyncInv
    <3> QED
      BY <2>1, <2>2, <3>1 DEF SyncInv, Comparing
  <2>3. CASE pc = "script"
    <3>1. list' = list /\ \A n \in DOMAIN script' : script'[n].op \in QuietOps
      BY <1>4, <2>3, QuietLine
    <3>2. Follows(previous)
      BY <2>3 DEF SyncInv, Comparing
    <3> QED
      BY <1>1, <1>2, <2>1, <2>3, <3>1, <3>2 DEF SyncInv
  <2> QED
    BY <2>1, <2>2, <2>3
<1>5. CASE SelectTimeout
  <2>1. /\ list' = list /\ script' = script /\ pc = "select" /\ pc' = "axp"
        /\ previous' = current
    BY <1>5 DEF SelectTimeout, EnterHandle
  <2> QED
    BY <1>1, <1>2, <2>1 DEF SyncInv
<1>6. CASE SelectReady
  <2>1. /\ list' = list /\ pc = "select" /\ pc' = "script" /\ previous' = current
        /\ script' = script \/ script' \in Scripts
    BY <1>6 DEF SelectReady, EnterHandle
  <2>2. \A n \in DOMAIN script' : script'[n].op \in QuietOps
    BY <2>1 DEF SyncInv, ScriptsAreQuiet
  <2> QED
    BY <1>1, <1>2, <2>1, <2>2 DEF SyncInv
<1>7. CASE ReadFds \/ ReadFdsError
  <2>1. /\ list' = list /\ pc = "script" /\ script' = <<>>
        /\ \/ pc' \in {"axp", "status"} /\ previous' = previous
           \/ pc' = "apply"
    BY <1>7 DEF ReadFds, ReadFdsError, Boundary, GoTo, ChipsPlace
  <2> QED
    BY <1>1, <1>2, <2>1 DEF SyncInv, Comparing
<1>8. CASE PowerChip \/ Status
  <2>1. /\ list' = list /\ script' = script
        /\ pc \in {"axp", "clear", "pek", "status"}
        /\ \/ pc' \in {"clear", "pek", "status", "input"} /\ previous' = previous
           \/ pc' = "apply"
    BY <1>8 DEF PowerChip, AxpRead, AxpClear, Pek, Status, NoEarlyReturn, Fail, GoTo, ChipsPlace
  <2> QED
    BY <1>1, <1>2, <2>1 DEF SyncInv, Comparing
<1>9. CASE Input
  <2>1. /\ list' = list /\ script' = script /\ pc = "input"
        /\ pc' = "apply" \/ (pc' = "select" /\ current' = previous)
    BY <1>9 DEF Input, Sample, GoTo, Xor
  <2> QED
    BY <1>1, <1>2, <2>1 DEF SyncInv, Comparing
<1>10. CASE ApplyEntry
  <2>1. script' = script /\ pc = "apply" /\ pc' = "apply"
    BY <1>10 DEF ApplyEntry
  <2> QED
    BY <2>1 DEF SyncInv, Comparing
<1>11. CASE ApplyDone
  <2>1. /\ list' = list /\ script' = script /\ current' = current
        /\ pc = "apply" /\ pc' = "select" /\ cursor = Len(list) + 1
    BY <1>11 DEF ApplyDone, Return, GoTo, TypeOK
  <2> QED
    BY <1>1, <1>2, <2>1 DEF SyncInv, SearchResult, Comparing
<1>12. CASE UNCHANGED <<list, script, pc, current, previous>>
  BY <1>1, <1>2, <1>12 DEF SyncInv
<1>13. ~SelectError
  BY DEF SelectError, NoEarlyReturn, Fail
<1>14. Environment \/ UNCHANGED vars => UNCHANGED <<list, script, pc, current, previous>>
  BY DEF Environment, MovePin, PressPek, vars, daemonVars
<1> QED
  BY <1>3, <1>4, <1>5, <1>6, <1>7, <1>8, <1>9, <1>10, <1>11, <1>12, <1>13, <1>14
     DEF Next, Daemon, Config, Wait, Expander, Apply

\* The loop may skip the search when the buttons it reads are those it had
\* before: with lines that leave the list alone, and failures that are noticed
\* behind the comparison or not at all, the active mappings are then right.
THEOREM InSyncBetweenCalls ==
    ASSUME ScriptsAreQuiet, NoEarlyReturn
    PROVE  Spec => []InSync
<1>1. Init => SyncInv
  BY DEF Init, SyncInv, Comparing
<1>2. TypeOK /\ SearchResult /\ SyncInv /\ [Next]_vars => SyncInv'
  BY SyncStep
<1>3. SyncInv => InSync
  BY DEF SyncInv, InSync
<1> QED
  BY <1>1, <1>2, <1>3, TypeCorrect, SearchIsRight, PTL DEF Spec

-----------------------------------------------------------------------------
(***************************************************************************)
(* Why a mapping is released although its buttons are pressed: the call    *)
(* searches without having read the buttons.  A call that the expander     *)
(* woke, or that times out, does read them.                                *)
(***************************************************************************)
ExpanderWoke == pc = "script" => PCAL \in due
InputsAreRead == FaultKinds \cap {"fd", "input"} = {}

FreshInv ==
    /\ \A i \in DOMAIN list : list[i].activated => list[i].mask \subseteq monitored
    /\ current \subseteq monitored \cup {NOE}
    /\ pc \in {"axp", "clear", "pek"} => PCAL \in due
    /\ pc = "apply" => current = Xor(lastRead \cap monitored, {NOE})

\* A combination that becomes active is one of monitored buttons.
LEMMA ActiveMonitored ==
    ASSUME TypeOK, SearchInv, FreshInv, ApplyEntry
    PROVE  \A i \in DOMAIN list' : list'[i].activated => list'[i].mask \subseteq monitored'
<1>1. SUFFICES ASSUME NEW i \in DOMAIN list', list'[i].activated
               PROVE  list'[i].mask \subseteq monitored'
  OBVIOUS
<1>2. /\ i \in DOMAIN list /\ cursor \in DOMAIN list /\ list'[i].mask = list[i].mask
      /\ monitored' = monitored
  BY ApplyEntryFacts
<1>3. CASE i = cursor
  <2>1. list[i].mask \subseteq current
    BY <1>1, <1>2, <1>3, ApplyEntryFacts DEF SearchInv
  <2>2. list[i].mask \in Combinations
    BY <1>2 DEF TypeOK, Mappings, Mapping
  <2>3. NOE \notin list[i].mask
    BY <2>2 DEF Combinations, Buttons
  <2> QED
    BY <1>2, <2>1, <2>3 DEF FreshInv
<1>4. CASE i # cursor
  BY <1>1, <1>2, <1>4, ApplyEntryFacts DEF FreshInv
<1> QED
  BY <1>3, <1>4

LEMMA FreshStep ==
    ASSUME InputsAreRead, TypeOK, SearchInv, ExpanderWoke, FreshInv, [Next]_vars
    PROVE  FreshInv'
<1>1. CASE ConfigLine
  <2>1. /\ pc \in {"boot", "script"} /\ pc' = pc /\ current' = current
        /\ monitored \subseteq monitored'
    BY <1>1, ConfigLineFacts DEF ConfigLine
  <2>2. ASSUME NEW j \in DOMAIN list', list'[j].activated
        PROVE  list'[j].mask \subseteq monitored'
    BY <1>1, <2>1, <2>2, ConfigLineFacts DEF FreshInv
  <2> QED
    BY <2>1, <2>2 DEF FreshInv
<1>2. CASE BootDone \/ SelectTimeout \/ SelectReady \/ SelectError
  <2>1. /\ list' = list /\ monitored \subseteq monitored' /\ current' = {}
        /\ pc' \in {"select", "script", "axp"} /\ (pc' = "axp" => PCAL \in due')
    BY <1>2 DEF BootDone, SelectTimeout, SelectReady, SelectError, EnterHandle, Chips
  <2> QED
    BY <2>1 DEF FreshInv
<1>3. CASE ReadFds
  <2>1. /\ list' = list /\ monitored' = monitored /\ current' = current
        /\ PCAL \in due /\ due' = due /\ pc' \in {"axp", "status"}
    BY <1>3 DEF ReadFds, Boundary, ExpanderWoke, GoTo, ChipsPlace
  <2> QED
    BY <2>1 DEF FreshInv
<1>4. ~ReadFdsError
  BY DEF ReadFdsError, Fail, InputsAreRead
<1>5. CASE AxpRead \/ AxpClear \/ Status \/ ApplyDone
  <2>1. /\ list' = list /\ monitored' = monitored /\ current' = current
        /\ pc' # "apply"
        /\ pc' \in {"axp", "clear", "pek"} => pc \in {"axp", "clear"} /\ due' = due
    BY <1>5 DEF AxpRead, AxpClear, Status, ApplyDone, Return, GoTo
  <2> QED
    BY <2>1 DEF FreshInv
<1>6. CASE Pek
  <2>1. PCAL \in due \ {AXP}
    BY <1>6 DEF Pek, FreshInv, PCAL, AXP
  <2>2. pc' = "status" /\ list' = list /\ monitored' = monitored /\ current' = current
    BY <1>6, <2>1 DEF Pek, GoTo, ChipsPlace
  <2> QED
    BY <2>2 DEF FreshInv
<1>7. CASE Input
  <2>1. /\ Sample(low) /\ lastRead' = low
        /\ list' = list /\ monitored' = monitored
    BY <1>7 DEF Input, Fail, InputsAreRead
  <2>2. /\ current' = Xor(low \cap monitored, {NOE})
        /\ pc' \in {"select", "apply"}
    BY <2>1 DEF Sample, GoTo
  <2> QED
    BY <2>1, <2>2 DEF FreshInv, Xor
<1>8. CASE ApplyEntry
  <2>1. pc = "apply" /\ pc' = "apply" /\ UNCHANGED <<monitored, current, lastRead>>
    BY <1>8 DEF ApplyEntry, deviceVars
  <2> QED
    BY <1>8, <2>1, ActiveMonitored DEF FreshInv
<1>9. CASE Environment \/ UNCHANGED vars
  <2>1. UNCHANGED <<list, monitored, current, due, pc, lastRead>>
    BY <1>9 DEF Environment, MovePin, PressPek, vars, daemonVars, deviceVars
  <2> QED
    BY <2>1 DEF FreshInv
<1> QED
  BY <1>1, <1>2, <1>3, <1>4, <1>5, <1>6, <1>7, <1>8, <1>9
     DEF Next, Daemon, Config, Wait, PowerChip, Expander, Apply

\* The buttons that a search has left to the entry that it releases.
LEMMA ReleaseStep ==
    ASSUME TypeOK, SearchInv, FreshInv, [Next]_vars,
           NEW i \in DOMAIN list, pc = "apply", list[i].activated, ~list'[i].activated
    PROVE  \/ ~(list[i].mask \subseteq lastRead)
           \/ list[i].mask \cap UsedBefore(i) # {}
<1>1. ApplyEntry
  <2>1. ~ConfigLine
    BY ConfigLineFacts
  <2> QED
    BY <2>1, ListSteps
<1>2. i = cursor /\ ~(list[i].mask \subseteq rest)
  BY <1>1, ApplyEntryFacts
<1>3. rest = current \ UsedBefore(i)
  BY <1>2 DEF SearchInv, Used, UsedBefore
<1>4. list[i].mask \subseteq monitored
  BY DEF FreshInv
<1>5. NOE \notin list[i].mask
  <2>1. list[i].mask \in Combinations
    BY DEF TypeOK, Mappings, Mapping
  <2> QED
    BY <2>1 DEF Combinations, Buttons
<1>6. current = Xor(lastRead \cap monitored, {NOE})
  BY DEF FreshInv
<1> QED
  BY <1>2, <1>3, <1>4, <1>5, <1>6 DEF Xor

(***************************************************************************)
(* A search releases a mapping whose buttons are pressed only in a call    *)
(* where the FIFO is read without an event of the expander, or the read of *)
(* an interrupt descriptor or of the INPUT port fails: where none of these *)
(* happens no key is released too early, whatever else fails.              *)
(***************************************************************************)
THEOREM ReleasedWhenRead ==
    ASSUME InputsAreRead
    PROVE  Spec /\ []ExpanderWoke => ReleaseOnlyReleased
<1>1. Init => FreshInv
  BY DEF Init, FreshInv
<1>2. TypeOK /\ SearchInv /\ ExpanderWoke /\ FreshInv /\ [Next]_vars => FreshInv'
  BY FreshStep
<1>3. Init => SearchInv
  BY DEF Init, SearchInv
<1>4. TypeOK /\ SearchInv /\ FreshInv /\ [Next]_vars
        => [\A i \in DOMAIN list :
              pc = "apply" /\ list[i].activated /\ ~list'[i].activated
                 => \/ ~(list[i].mask \subseteq lastRead)
                    \/ list[i].mask \cap UsedBefore(i) # {}]_vars
  BY ReleaseStep
<1> QED
  BY <1>1, <1>2, <1>3, <1>4, SearchStep, TypeCorrect, PTL DEF Spec, ReleaseOnlyReleased

-----------------------------------------------------------------------------
(***************************************************************************)
(* The order of the list: what it is for, the one way to lose it, and a    *)
(* configuration that never does.                                          *)
(***************************************************************************)

\* In a sorted list an entry whose buttons are all pressed is active, or an
\* active one with as many buttons has taken one of them.
THEOREM OrderIsEnough == Spec => []SortedWins
<1>1. TypeOK /\ SearchResult => SortedWins
  <2> SUFFICES ASSUME TypeOK, SearchResult, Sorted(list),
                      pc = "apply", cursor = Len(list) + 1,
                      NEW i \in DOMAIN list, list[i].mask \subseteq current, ~list[i].activated
               PROVE  \E j \in DOMAIN list :
                         /\ list[j].activated
                         /\ list[j].bits >= list[i].bits
                         /\ list[j].mask \cap list[i].mask # {}
    BY DEF SortedWins, BiggestWins
  <2>1. ~(list[i].mask \subseteq current \ UsedBefore(i))
    BY DEF SearchResult, Follows
  <2>2. PICK button \in list[i].mask : button \in UsedBefore(i)
    BY <2>1
  <2>3. PICK j \in DOMAIN list : j < i /\ list[j].activated /\ button \in list[j].mask
    BY <2>2 DEF UsedBefore
  <2>4. list[j].bits >= list[i].bits
    BY <2>3 DEF Sorted
  <2> QED
    BY <2>3, <2>4
<1> QED
  BY <1>1, SearchIsRight, TypeCorrect, PTL

LEMMA MappingBits == \A e \in Mappings : e.bits \in Nat
BY DEF Mappings, Mapping

\* A MAP line in a sorted list.
LEMMA MapLineSorts ==
    ASSUME TypeOK, Sorted(list), NEW op, NEW type, MapLine(op, type),
           \/ op = "MAP KEY" /\ type = "KEY"
           \/ op = "MAP COMMAND" /\ type = "COMMAND"
    PROVE  LET line == Head(script)
               m == NewMapping(line.mask, line.bits, type, line.value)
           IN  /\ m \in Mappings /\ list' = MapMapping(list, m) /\ list' \in Seq(Mappings)
               /\ \/ Sorted(list')
                  \/ /\ list'[1] = m
                     /\ \A i \in 2..Len(list') :
                           list'[i] \in ToSet(list) /\ m.bits < list'[i].bits
<1> DEFINE line == Head(script)
           m == NewMapping(line.mask, line.bits, type, line.value)
<1>1. list \in Seq(Mappings)
  BY DEF TypeOK
<1>2. m \in Mappings
  <2>1. line \in Lines /\ line.op = op
    BY HeadTailFacts DEF TypeOK, MapLine, RunLine
  <2> QED
    BY <2>1, NewMappingFacts
<1>3. list' = MapMapping(list, m)
  BY DEF MapLine
<1> HIDE DEF m
<1>4. list' \in Seq(Mappings)
  BY <1>1, <1>2, <1>3, MapMappingFacts
<1>5. \/ Sorted(list')
      \/ /\ list'[1] = m
         /\ \A i \in 2..Len(list') : list'[i] \in ToSet(list) /\ m.bits < list'[i].bits
  BY <1>1, <1>2, <1>3, MappingBits, MapMappingSorts
<1> QED
  BY <1>2, <1>3, <1>4, <1>5 DEF m

\* Every other step keeps a sorted list sorted.
LEMMA OtherStepSorts ==
    ASSUME TypeOK, Sorted(list), [Next]_vars,
           ConfigLine => UnmapLine \/ list' = <<>> \/ list' = list
    PROVE  Sorted(list')
<1>1. list \in Seq(Mappings)
  BY DEF TypeOK
<1>2. CASE UnmapLine
  <2>1. PICK p \in 1..Len(list) : list' = RemoveMapping(list, p)
    BY <1>1, <1>2, FindMappingFacts DEF UnmapLine
  <2> QED
    BY <1>1, <2>1, RemoveMappingSorts
<1>3. CASE ApplyEntry
  BY <1>3, ApplyEntryFacts DEF Sorted
<1>4. CASE list' = <<>> \/ list' = list
  <2>1. CASE list' = <<>>
    <3>1. list' \in Seq(Mappings) /\ Len(list') = 0
      BY <2>1, EmptySeq
    <3>2. DOMAIN list' = {}
      BY <3>1
    <3> QED
      BY <3>2 DEF Sorted
  <2>2. CASE list' = list
    BY <2>2
  <2> QED
    BY <1>4, <2>1, <2>2
<1> QED
  BY <1>2, <1>3, <1>4, ListSteps

LEMMA ConfigSteps ==
    ASSUME ConfigLine
    PROVE  \/ MapLine("MAP KEY", "KEY") \/ MapLine("MAP COMMAND", "COMMAND")
           \/ UnmapLine \/ list' = <<>> \/ list' = list
BY DEF ConfigLine, ClearLine, KeyLine, NopLine, BadLine

\* A sorted list only loses its order to a MAP line with fewer buttons than
\* all the entries that stay.
THEOREM OrderIsLostAtHead == Spec => OrderLostAtHead
<1>1. TypeOK /\ [Next]_vars =>
         [Sorted(list) /\ ~Sorted(list') =>
             \A i \in DOMAIN list' \ {1} : list'[1].bits < list'[i].bits]_vars
  <2> SUFFICES ASSUME TypeOK, [Next]_vars, Sorted(list), ~Sorted(list'),
                      NEW i \in DOMAIN list' \ {1}
               PROVE  list'[1].bits < list'[i].bits
    OBVIOUS
  <2>1. PICK op, type : /\ MapLine(op, type)
                        /\ \/ op = "MAP KEY" /\ type = "KEY"
                           \/ op = "MAP COMMAND" /\ type = "COMMAND"
    <3>1. MapLine("MAP KEY", "KEY") \/ MapLine("MAP COMMAND", "COMMAND")
      BY OtherStepSorts, ConfigSteps
    <3> QED
      BY <3>1
  <2> DEFINE m == NewMapping(Head(script).mask, Head(script).bits, type, Head(script).value)
  <2>2. /\ list' \in Seq(Mappings) /\ list'[1] = m
        /\ \A k \in 2..Len(list') : m.bits < list'[k].bits
    BY <2>1, MapLineSorts
  <2> HIDE DEF m
  <2>3. i \in 2..Len(list')
    BY <2>2
  <2> QED
    BY <2>2, <2>3
<1> QED
  BY <1>1, TypeCorrect, PTL DEF Spec, OrderLostAtHead

(***************************************************************************)
(* A configuration in the style of fkgpiod.conf, whose first MAP line, the *)
(* k-th line, maps one button: no line after it, of the file or of a       *)
(* script, has fewer buttons, maps or unmaps the buttons of the first one, *)
(* or clears the list.                                                     *)
(***************************************************************************)
MapOps == {"MAP KEY", "MAP COMMAND"}
Later(k) == {Boot[n] : n \in (k + 1)..Len(Boot)} \cup UNION {Range(s) : s \in Scripts}

FirstMapStays(k) ==
    /\ k \in DOMAIN Boot /\ Boot[k].op \in MapOps
    /\ \A n \in 1..(k - 1) : Boot[n].op \notin MapOps \cup {"UNMAP", "BAD"}
    /\ \A line \in Later(k) :
          /\ line.op # "CLEAR"
          /\ line.op \in MapOps => line.bits >= Boot[k].bits
          /\ line.op \in MapOps \cup {"UNMAP"} => line.mask # Boot[k].mask

IsFirst(k, e) == e.mask = Boot[k].mask /\ e.bits = Boot[k].bits

\* What is left of the file from line n on.
FileFrom(n) ==
    /\ Len(script) = Len(Boot) - n + 1
    /\ \A i \in 1..Len(script) : script[i] = Boot[n + i - 1]

\* The mapping of the first MAP line is in the list for ever, so that no other
\* has fewer buttons than every entry.
FirstInv(k) ==
    \/ pc = "boot" /\ list = <<>> /\ \E n \in 1..k : FileFrom(n)
    \/ /\ \A n \in DOMAIN script : script[n] \in Later(k)
       /\ Sorted(list)
       /\ \E i \in DOMAIN list : IsFirst(k, list[i])

\* The first MAP line of the file.
LEMMA FirstMapRuns ==
    ASSUME TypeOK, ConfigLine, list = <<>>,
           NEW k \in DOMAIN Boot, Head(script) = Boot[k], Boot[k].op \in MapOps
    PROVE  Sorted(list') /\ (\E i \in DOMAIN list' : IsFirst(k, list'[i]))
<1> DEFINE line == Head(script)
<1>1. Sorted(list)
  <2>1. list \in Seq(Mappings) /\ Len(list) = 0
    BY EmptySeq
  <2>2. DOMAIN list = {}
    BY <2>1
  <2> QED
    BY <2>2 DEF Sorted
<1>2. PICK op, type : /\ MapLine(op, type)
                      /\ \/ op = "MAP KEY" /\ type = "KEY"
                         \/ op = "MAP COMMAND" /\ type = "COMMAND"
  <2>1. Head(script).op \in {"MAP KEY", "MAP COMMAND"}
    BY DEF MapOps
  <2>2. MapLine("MAP KEY", "KEY") \/ MapLine("MAP COMMAND", "COMMAND")
    BY <2>1 DEF ConfigLine, UnmapLine, ClearLine, KeyLine, NopLine, BadLine, RunLine
  <2> QED
    BY <2>2
<1> DEFINE m == NewMapping(line.mask, line.bits, type, line.value)
<1>3. /\ m \in Mappings /\ list' = MapMapping(list, m) /\ list' \in Seq(Mappings)
      /\ \/ Sorted(list')
         \/ \A i \in 2..Len(list') : list'[i] \in ToSet(list)
  BY <1>1, <1>2, MapLineSorts
<1>4. IsFirst(k, m)
  BY DEF IsFirst, NewMapping
<1> HIDE DEF m
<1>5. m \in ToSet(list')
  <2>1. list \in Seq(Mappings)
    BY DEF TypeOK
  <2> QED
    BY <1>3, <2>1, MapMappingAdds
<1>6. PICK i \in DOMAIN list' : list'[i] = m
  BY <1>5 DEF ToSet
<1>7. Sorted(list')
  <2> SUFFICES ASSUME \A j \in 2..Len(list') : list'[j] \in ToSet(list)
               PROVE  Sorted(list')
    BY <1>3
  <2>1. ToSet(list) = {}
    BY EmptySeq DEF ToSet
  <2>2. \A j \in 2..Len(list') : FALSE
    BY <2>1
  <2>3. DOMAIN list' = 1..Len(list') /\ Len(list') \in Nat
    BY <1>3
  <2> QED
    BY <2>2, <2>3 DEF Sorted
<1> QED
  BY <1>4, <1>6, <1>7

\* A later line leaves the first mapping in the list, and its order.
LEMMA LaterLineRuns ==
    ASSUME NEW k, FirstMapStays(k), TypeOK, ConfigLine, script # <<>>, Head(script) \in Later(k),
           Sorted(list), NEW i \in DOMAIN list, IsFirst(k, list[i])
    PROVE  Sorted(list') /\ (\E j \in DOMAIN list' : IsFirst(k, list'[j]))
<1> DEFINE line == Head(script)
<1>1. list \in Seq(Mappings) /\ DOMAIN list = 1..Len(list) /\ i \in 1..Len(list)
  BY DEF TypeOK
<1>2. /\ line.op # "CLEAR"
      /\ line.op \in {"MAP KEY", "MAP COMMAND"} => line.bits >= list[i].bits
      /\ line.op \in {"MAP KEY", "MAP COMMAND", "UNMAP"} => line.mask # list[i].mask
  BY DEF FirstMapStays, MapOps, IsFirst
<1>3. ASSUME NEW op, NEW type, MapLine(op, type),
             \/ op = "MAP KEY" /\ type = "KEY"
             \/ op = "MAP COMMAND" /\ type = "COMMAND"
      PROVE  Sorted(list') /\ (\E j \in DOMAIN list' : IsFirst(k, list'[j]))
  <2> DEFINE m == NewMapping(line.mask, line.bits, type, line.value)
             new == MapMapping(list, m)
  <2>1. /\ m \in Mappings /\ list' = new /\ list' \in Seq(Mappings)
        /\ \/ Sorted(list')
           \/ list'[1] = m /\ \A n \in 2..Len(list') : m.bits < list'[n].bits
    BY <1>3, MapLineSorts
  <2>2. m.mask # list[i].mask /\ m.bits >= list[i].bits
    BY <1>2, <1>3 DEF NewMapping, MapLine, RunLine
  <2> HIDE DEF m, line
  <2>3. i # FindMapping(list, m.mask)
    BY <1>1, <2>2, FindMappingFacts
  <2>4. PICK j \in 1..Len(new) : new[j] = list[i]
    <3>1. m \in Mappings /\ list \in Seq(Mappings) /\ i \in 1..Len(list)
      BY <1>1, <2>1
    <3> QED
      BY <2>3, <3>1, MapMappingKeeps
  <2> HIDE DEF new
  <2>5. list'[j] = list[i] /\ j \in 1..Len(list') /\ DOMAIN list' = 1..Len(list')
    BY <2>1, <2>4
  <2>6. Sorted(list')
    <3> SUFFICES ASSUME list'[1] = m, \A n \in 2..Len(list') : m.bits < list'[n].bits
                 PROVE  FALSE
      BY <2>1
    <3>1. j # 1
      BY <2>2, <2>5
    <3>2. m.bits < list[i].bits
      BY <2>5, <3>1
    <3>3. m.bits \in Nat /\ list[i].bits \in Nat
      BY <1>1, <2>1, MappingBits
    <3> QED
      BY <2>2, <3>2, <3>3
  <2> QED
    BY <2>5, <2>6
<1>4. CASE UnmapLine
  <2> DEFINE old == FindMapping(list, line.mask)
  <2>1. old # 0 /\ list' = RemoveMapping(list, old) /\ line.op = "UNMAP"
    BY <1>4 DEF UnmapLine, RunLine
  <2>2. PICK p \in 1..Len(list) : p = old /\ list[p].mask = line.mask
    BY <1>1, <2>1, FindMappingFacts
  <2> HIDE DEF old
  <2>3. p # i
    BY <1>2, <2>1, <2>2
  <2> DEFINE new == RemoveMapping(list, p)
  <2>4. PICK j \in 1..Len(new) : new[j] = list[i]
    BY <1>1, <2>3, RemoveMappingKeeps
  <2>5. new \in Seq(Mappings) /\ Sorted(new)
    BY <1>1, RemoveMappingFacts, RemoveMappingSorts
  <2>6. list' = new
    BY <2>1, <2>2
  <2> HIDE DEF new
  <2>7. DOMAIN new = 1..Len(new)
    BY <2>5
  <2> QED
    BY <2>4, <2>5, <2>6, <2>7
<1>5. CASE list' = list
  BY <1>5
<1>6. \/ MapLine("MAP KEY", "KEY") \/ MapLine("MAP COMMAND", "COMMAND")
      \/ UnmapLine \/ list' = list
  BY <1>2 DEF ConfigLine, ClearLine, KeyLine, NopLine, BadLine, RunLine
<1> QED
  BY <1>3, <1>4, <1>5, <1>6

LEMMA FirstStep ==
    ASSUME NEW k, FirstMapStays(k), TypeOK, FirstInv(k), [Next]_vars
    PROVE  FirstInv(k)'
<1> DEFINE Rest(s) == \A n \in DOMAIN s : s[n] \in Later(k)
<1>1. script \in Seq(Lines) /\ DOMAIN script = 1..Len(script)
  BY DEF TypeOK
<1>2. k \in 1..Len(Boot) /\ Len(Boot) \in Nat
  BY LineAssumption DEF FirstMapStays
<1>3. ASSUME NEW n \in 1..k, FileFrom(n), list = <<>>, pc = "boot"
      PROVE  FirstInv(k)'
  <2>1. /\ Len(script) = Len(Boot) - n + 1 /\ script # <<>>
        /\ \A i \in 1..Len(script) : script[i] = Boot[n + i - 1]
        /\ Head(script) = Boot[n]
    <3>1. Len(script) = Len(Boot) - n + 1 /\ \A i \in 1..Len(script) : script[i] = Boot[n + i - 1]
      BY <1>3 DEF FileFrom
    <3>2. 1 \in 1..Len(script) /\ n + 1 - 1 = n
      BY <1>2, <3>1
    <3>3. script # <<>> /\ Head(script) = script[1]
      BY <1>1, <3>2
    <3> QED
      BY <3>1, <3>2, <3>3
  <2>2. CASE Environment \/ UNCHANGED vars
    <3>1. UNCHANGED <<script, list, pc>>
      BY <2>2 DEF Environment, MovePin, PressPek, daemonVars, vars
    <3>2. FileFrom(n)'
      BY <1>3, <3>1 DEF FileFrom
    <3> QED
      BY <1>3, <3>1, <3>2 DEF FirstInv
  <2>3. ASSUME ConfigLine, script' = Tail(script)
        PROVE  /\ Len(script') = Len(Boot) - n
               /\ \A i \in 1..Len(script') : script'[i] = Boot[n + i]
               /\ DOMAIN script' = 1..Len(script')
    <3>1. /\ Len(script') = Len(script) - 1 /\ DOMAIN script' = 1..Len(script')
          /\ \A i \in 1..Len(script') : script'[i] = script[i + 1]
      BY <1>1, <2>1, <2>3
    <3>2. ASSUME NEW i \in 1..Len(script') PROVE script'[i] = Boot[n + i]
      <4>1. i + 1 \in 1..Len(script) /\ n + (i + 1) - 1 = n + i
        BY <1>2, <2>1, <3>1
      <4> QED
        BY <2>1, <3>1, <4>1
    <3> QED
      BY <1>2, <2>1, <3>1, <3>2
  <2>4. CASE ConfigLine /\ n = k
    <3>1. k \in DOMAIN Boot /\ Head(script) = Boot[k] /\ Boot[k].op \in MapOps
      BY <2>1, <2>4 DEF FirstMapStays
    <3>2. Sorted(list') /\ (\E i \in DOMAIN list' : IsFirst(k, list'[i]))
      BY <1>3, <2>4, <3>1, FirstMapRuns
    <3>3. script' = Tail(script)
      BY <2>4, <3>1
         DEF MapOps, ConfigLine, MapLine, UnmapLine, ClearLine, KeyLine, NopLine, BadLine, RunLine
    <3>4. ASSUME NEW i \in DOMAIN script' PROVE script'[i] \in Later(k)
      <4>1. script'[i] = Boot[k + i] /\ k + i \in (k + 1)..Len(Boot)
        BY <1>2, <2>3, <2>4, <3>3
      <4> QED
        BY <4>1 DEF Later
    <3> QED
      BY <3>2, <3>4 DEF FirstInv
  <2>5. CASE ConfigLine /\ n # k
    <3>1. Head(script).op \notin {"MAP KEY", "MAP COMMAND", "UNMAP", "BAD"}
      <4>1. n \in 1..(k - 1)
        BY <1>2, <2>5
      <4> QED
        BY <2>1, <4>1 DEF FirstMapStays, MapOps
    <3>2. script' = Tail(script) /\ list' = <<>> /\ pc' = "boot"
      BY <1>3, <2>5, <3>1
         DEF ConfigLine, MapLine, UnmapLine, ClearLine, KeyLine, NopLine, BadLine, RunLine
    <3>3. n + 1 \in 1..k
      BY <1>2, <2>5
    <3>4. FileFrom(n + 1)'
      <4>1. ASSUME NEW i \in 1..Len(script') PROVE script'[i] = Boot[(n + 1) + i - 1]
        <5>1. (n + 1) + i - 1 = n + i
          BY <2>3, <2>5, <3>2, <1>2
        <5> QED
          BY <2>3, <2>5, <3>2, <5>1
      <4> QED
        BY <1>2, <2>3, <2>5, <3>2, <4>1 DEF FileFrom
    <3> QED
      BY <3>2, <3>3, <3>4 DEF FirstInv
  <2>6. ConfigLine \/ Environment \/ UNCHANGED vars
    BY <1>3, <2>1 DEF Next, Daemon, Config, BootDone, Boundary, Wait, SelectTimeout, SelectReady,
       SelectError, EnterHandle, ReadFds, ReadFdsError, PowerChip, AxpRead, AxpClear, Pek,
       Expander, Status, Input, Apply, ApplyEntry, ApplyDone
  <2> QED
    BY <2>2, <2>4, <2>5, <2>6
<1>4. ASSUME Rest(script), Sorted(list), NEW i \in DOMAIN list, IsFirst(k, list[i])
      PROVE  FirstInv(k)'
  <2>1. Rest(script')
    <3>1. CASE script # <<>> /\ script' = Tail(script)
      <4>1. Len(script') = Len(script) - 1 /\ \A n \in 1..Len(script') : script'[n] = script[n + 1]
        BY <1>1, <3>1
      <4>2. DOMAIN script' = 1..Len(script')
        BY <1>1, <3>1
      <4> QED
        BY <1>1, <1>4, <4>1, <4>2
    <3>2. CASE script' \in Scripts
      <4>1. \A n \in DOMAIN script' : script'[n] \in Range(script')
        BY DEF Range
      <4> QED
        BY <3>2, <4>1 DEF Later
    <3>3. CASE script' = <<>> \/ script' = script
      BY <1>4, <3>3
    <3> QED
      BY <3>1, <3>2, <3>3, ScriptSteps
  <2>2. Sorted(list') /\ (\E j \in DOMAIN list' : IsFirst(k, list'[j]))
    <3>1. CASE ConfigLine
      <4>1. script # <<>>
        BY <3>1 DEF ConfigLine, MapLine, UnmapLine, ClearLine, KeyLine, NopLine, BadLine, RunLine
      <4>2. 1 \in 1..Len(script) /\ Head(script) = script[1]
        BY <1>1, <4>1
      <4>3. Head(script) \in Later(k)
        BY <1>1, <1>4, <4>2
      <4> QED
        BY <1>4, <3>1, <4>1, <4>3, LaterLineRuns
    <3>2. CASE ApplyEntry
      <4>1. /\ DOMAIN list' = DOMAIN list
            /\ list'[i].mask = list[i].mask /\ list'[i].bits = list[i].bits
        BY <1>4, <3>2, ApplyEntryFacts
      <4>2. Sorted(list')
        BY <1>4, <3>2, ApplyEntryFacts DEF Sorted
      <4> QED
        BY <1>4, <4>1, <4>2 DEF IsFirst
    <3>3. CASE list' = list
      BY <1>4, <3>3
    <3> QED
      BY <3>1, <3>2, <3>3, ListSteps
  <2> QED
    BY <2>1, <2>2 DEF FirstInv
<1> QED
  BY <1>3, <1>4 DEF FirstInv

\* With a configuration in the style of fkgpiod.conf the biggest combination
\* wins, whatever else scripts map and unmap: it takes a file that maps a
\* combination before any single button to break the promise (run order).
THEOREM BiggestCombinationWins ==
    ASSUME NEW k, FirstMapStays(k)
    PROVE  Spec => []BiggestWins
<1>1. Init => FirstInv(k)
  <2> SUFFICES ASSUME Init PROVE FirstInv(k)
    OBVIOUS
  <2>1. 1 \in 1..k /\ Len(Boot) \in Nat
    BY LineAssumption DEF FirstMapStays
  <2>2. FileFrom(1)
    BY <2>1 DEF Init, FileFrom
  <2> QED
    BY <2>1, <2>2 DEF Init, FirstInv
<1>2. TypeOK /\ FirstInv(k) /\ [Next]_vars => FirstInv(k)'
  BY FirstStep
<1>3. FirstInv(k) /\ SortedWins => BiggestWins
  <2>1. CASE pc = "boot"
    BY <2>1 DEF BiggestWins
  <2> QED
    BY <2>1 DEF FirstInv, SortedWins
<1> QED
  BY <1>1, <1>2, <1>3, OrderIsEnough, TypeCorrect, PTL DEF Spec
=============================================================================
