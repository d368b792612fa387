---------------------------- MODULE GpioMapping ----------------------------
(***************************************************************************)
(* The main loop of fkgpiod: handle_gpio_mapping and apply_mapping         *)
(* (gpio_mapping.c), the mapping part of parse_config_line                 *)
(* (parse_config.c), and the two I2C chips, the button pins and the uinput *)
(* device as far as the daemon can tell.                                   *)
(*                                                                         *)
(* A gpio mask is the set of the bit numbers that are 1 in it.             *)
(***************************************************************************)
EXTENDS MappingList

CONSTANTS
    Gpio,         \* the bits of a gpio mask that the instance has
    Keys,         \* keycodes
    Commands,     \* shell commands
    PekPresses,   \* the power key presses that occur, of "short" and "long"
    Errnos,       \* the errno values an I2C transfer can fail with
    Boot,         \* the configuration file, a sequence of lines
    Scripts,      \* what one FIFO wake makes the daemon run: <<line>>, or the
                  \* lines of a file for a LOAD line
    MaxScripts,   \* bound on the FIFO wakes of a behaviour
    FaultKinds,   \* which system calls may fail
    MaxFaults     \* bound on the failures of a behaviour

MENU == 5         \* SHORT_PEK_PRESS_GPIO_MASK: a pseudo button, on no pin
NOE == 10         \* NOE_GPIO_MASK: the reed switch of the lid
Pins == Gpio \ {MENU}
IntMasked == {5, 8, 9}    \* PCAL6416A_INT_MASK, 0x0320

PCAL == "pcal6416a"
AXP == "axp209"
Chips == {PCAL, AXP}
AllFaults == {"select", "fifo", "fd", "axp", "status", "input"}

\* What a gpio mask of a configuration line can name: bits 8 to 10 have no
\* button name.
Buttons == Gpio \ {8, 9, NOE}

\* The masks of a combination: a MAP line names at least one button.
Combinations == (SUBSET Buttons) \ {{}}

\* A configuration line, as its effect on the list and on the keys.  BAD is a
\* line the parser rejects; SLEEP, TYPE, DUMP and SAVE are NOP here.
Line(ops, masks, values) ==
    [op : ops, mask : masks, bits : Nat, value : values]
Lines ==
    Line({"MAP KEY"}, Combinations, Keys)
        \cup Line({"MAP COMMAND"}, Combinations, Commands)
        \cup Line({"KEYDOWN", "KEYUP", "KEYPRESS"}, {{}}, Keys)
        \cup [op : {"UNMAP", "CLEAR", "NOP", "BAD"}, mask : SUBSET Buttons]

\* -errno in the low 16 bits of a mask.
ErrnoMask(errno) == {g \in Gpio : ((65536 - errno) \div (2 ^ g)) % 2 = 1}

ASSUME GpioAssumption == Gpio \subseteq 0..15 /\ NOE \in Gpio
ASSUME BoundAssumption == MaxScripts \in Nat /\ MaxFaults \in Nat
ASSUME FaultAssumption == FaultKinds \subseteq AllFaults
ASSUME PekAssumption == PekPresses \subseteq {"short", "long"}
ASSUME LineAssumption == Boot \in Seq(Lines) /\ Scripts \subseteq Seq(Lines)
\* Every errno of Linux is below 1024, so bit 10 of -errno is 1.
ASSUME ErrnoAssumption == \A errno \in Errnos : NOE \in ErrnoMask(errno)

VARIABLES
    list,       \* the mapping list
    monitored,  \* monitored_gpio_mask
    current,    \* current_gpio_mask
    previous,   \* previous_gpio_mask, a local of handle_gpio_mapping
    intr,       \* interrupt_mask, a local of handle_gpio_mapping
    due,        \* the chips whose interrupt this call has to process
    script,     \* the lines still to run
    cursor,     \* the entry apply_mapping looks at
    rest,       \* gpio_mask of apply_mapping: the buttons not yet used up
    pekSeen,    \* val_int_bank_3, a local of handle_gpio_mapping
    pc          \* where the daemon is

VARIABLES
    low,        \* the pins that are low: pressed buttons, and NOE lid open
    lastRead,   \* the pins that were low at the last read of the INPUT port
    edge,       \* the chips whose interrupt fd has an unread event
    pek,        \* latched power key presses in the AXP209 status register
    down,       \* the keys whose last event on the uinput device is "down"
    shutdown    \* the shutdown command was run

\* History: scripted holds the keys whose last event was sent for a KEY* line
\* or a power key press, not for a mapping; alarm says that the lid was seen
\* closed by the hardware or the power key held; faults and scripts count.
VARIABLES scripted, alarm, faults, scripts

daemonVars == <<list, monitored, current, previous, intr, due, script, cursor,
                rest, pekSeen, pc>>
deviceVars == <<low, lastRead, edge, pek>>
outputVars == <<down, scripted, shutdown>>
vars == <<daemonVars, deviceVars, outputVars, alarm, faults, scripts>>

Xor(a, b) == (a \ b) \cup (b \ a)

-----------------------------------------------------------------------------
(* The hardware.                                                           *)

\* The expander pulls its interrupt line while an unmasked pin differs from
\* the last value read; its inputs are not latched.
IntStatus(pins, read) == Xor(pins, read) \ IntMasked
IntAsserted(pins, read) == IntStatus(pins, read) # {}

\* The gpio file of the interrupt line reports both edges.
EdgeAfter(pins, read) ==
    IF IntAsserted(pins, read) # IntAsserted(low, lastRead)
    THEN edge \cup {PCAL} ELSE edge

\* A button is pressed or released, or the lid moves.
MovePin(g) ==
    /\ low' = Xor(low, {g})
    /\ edge' = EdgeAfter(low', lastRead)
    /\ alarm' = (alarm \/ NOE \notin low')
    /\ UNCHANGED <<daemonVars, outputVars, lastRead, pek, faults, scripts>>

\* The power key is pressed for a short or a long time.
PressPek(press) ==
    /\ pek' = pek \cup {press}
    /\ alarm' = (alarm \/ press = "long")
    /\ UNCHANGED <<daemonVars, outputVars, low, lastRead, edge, faults, scripts>>

-----------------------------------------------------------------------------
(* The uinput device: sendKey(key, 1) and sendKey(key, 0).                 *)

KeyDown(key, byScript) ==
    /\ down' = down \cup {key}
    /\ scripted' = IF byScript THEN scripted \cup {key} ELSE scripted \ {key}

KeyUp(keys, byScript) ==
    /\ down' = down \ keys
    /\ scripted' = IF byScript THEN scripted \cup keys ELSE scripted \ keys

-----------------------------------------------------------------------------
(* Configuration lines, from the file at boot and from the FIFO.           *)

Boundary(place) == pc = place /\ script = <<>>
RunLine(op) == pc \in {"boot", "script"} /\ script # <<>> /\ Head(script).op = op

\* Mutant of MapLine: the monitored buttons are those of the last line.
MapLineSetsMonitored(op, type) ==
    /\ RunLine(op)
    /\ LET line == Head(script)
           old == FindMapping(list, line.mask)
       IN  /\ list' = MapMapping(list, NewMapping(line.mask, line.bits, type, line.value))
           /\ KeyUp(IF old = 0 THEN {} ELSE KeysUp(list, {old}), FALSE)
           /\ monitored' = IF type = "KEY" THEN line.mask ELSE monitored
    /\ script' = Tail(script)

\* MAP <buttons> TO KEY and TO COMMAND: only a KEY line adds its buttons to
\* the monitored ones.
MapLine(op, type) ==
    /\ RunLine(op)
    /\ LET line == Head(script)
           old == FindMapping(list, line.mask)
       IN  /\ list' = MapMapping(list, NewMapping(line.mask, line.bits, type, line.value))
           /\ KeyUp(IF old = 0 THEN {} ELSE KeysUp(list, {old}), FALSE)
           /\ monitored' = IF type = "KEY" THEN monitored \cup line.mask ELSE monitored
    /\ script' = Tail(script)

UnmapLine ==
    /\ RunLine("UNMAP")
    /\ LET old == FindMapping(list, Head(script).mask)
       IN  /\ old # 0
           /\ list' = RemoveMapping(list, old)
           /\ KeyUp(KeysUp(list, {old}), FALSE)
    /\ script' = Tail(script)
    /\ UNCHANGED monitored

ClearLine ==
    /\ RunLine("CLEAR")
    /\ list' = <<>>
    /\ KeyUp(KeysUp(list, DOMAIN list), FALSE)
    /\ script' = Tail(script)
    /\ UNCHANGED monitored

\* KEYDOWN, KEYUP, KEYPRESS: a press is a down and 200 ms later an up.
KeyLine ==
    /\ \/ RunLine("KEYDOWN") /\ KeyDown(Head(script).value, TRUE)
       \/ RunLine("KEYUP") /\ KeyUp({Head(script).value}, TRUE)
       \/ RunLine("KEYPRESS") /\ KeyUp({Head(script).value}, TRUE)
    /\ script' = Tail(script)
    /\ UNCHANGED <<list, monitored>>

NopLine ==
    /\ RunLine("NOP")
    /\ script' = Tail(script)
    /\ UNCHANGED <<list, monitored, down, scripted>>

\* A rejected line ends the file it is in.
BadLine ==
    /\ \/ RunLine("BAD")
       \/ RunLine("UNMAP") /\ FindMapping(list, Head(script).mask) = 0
    /\ script' = <<>>
    /\ UNCHANGED <<list, monitored, down, scripted>>

ConfigLine ==
    /\ \/ MapLine("MAP KEY", "KEY") \/ MapLine("MAP COMMAND", "COMMAND")
       \/ UnmapLine \/ ClearLine \/ KeyLine \/ NopLine \/ BadLine
    /\ UNCHANGED <<current, previous, intr, due, cursor, rest, pekSeen, pc,
                   deviceVars, shutdown, alarm, faults, scripts>>

\* Mutant of BootDone: the lid is not monitored.
BootDoneWithoutNoe ==
    /\ Boundary("boot")
    /\ current' = {}
    /\ pc' = "select"
    /\ UNCHANGED <<list, monitored, previous, intr, due, script, cursor, rest,
                   pekSeen, deviceVars, outputVars, alarm, faults, scripts>>

\* init_gpio_mapping after the configuration file.
BootDone ==
    /\ Boundary("boot")
    /\ monitored' = monitored \cup {NOE}
    /\ current' = {}
    /\ pc' = "select"
    /\ UNCHANGED <<list, previous, intr, due, script, cursor, rest, pekSeen,
                   deviceVars, outputVars, alarm, faults, scripts>>

-----------------------------------------------------------------------------
(* handle_gpio_mapping, from select to the reads of the interrupt fds.     *)

Fail(kind) == kind \in FaultKinds /\ faults < MaxFaults /\ faults' = faults + 1

\* Mutant of ChipsPlace: without an interrupt the call returns at once.
ChipsPlaceReturns(c) == IF AXP \in c THEN "axp" ELSE IF PCAL \in c THEN "status" ELSE "select"

\* Where the call goes on to process the chips c.
ChipsPlace(c) == IF AXP \in c THEN "axp" ELSE IF PCAL \in c THEN "status" ELSE "apply"

\* The call goes on at place, with chips still to process.  Before it returns
\* it may call apply_mapping, for the buttons of mask.  A local that is not
\* read again is set back to its initial value.
GoTo(place, chips, mask) ==
    LET ends == place \in {"select", "apply"}
    IN  /\ pc' = place
        /\ due' = IF ends THEN {} ELSE chips
        /\ previous' = IF ends THEN {} ELSE previous
        /\ cursor' = 1
        /\ rest' = IF place = "apply" THEN mask ELSE {}

Return == GoTo("select", {}, {})

EnterHandle ==
    /\ pc = "select"
    /\ current' = {}
    /\ UNCHANGED <<list, monitored, intr, cursor, rest, pekSeen, deviceVars,
                   outputVars, alarm>>

\* Mutant of SelectTimeout: only the expander is processed.
SelectTimeoutExpander ==
    /\ EnterHandle
    /\ edge = {}
    /\ previous' = current
    /\ due' = {PCAL}
    /\ pc' = "status"
    /\ UNCHANGED <<script, faults, scripts>>

\* 30 ms without an event: both chips are processed, to be safe.
SelectTimeout ==
    /\ EnterHandle
    /\ edge = {}
    /\ previous' = current
    /\ due' = Chips
    /\ pc' = "axp"
    /\ UNCHANGED <<script, faults, scripts>>

\* The FIFO has the line or file s, or an interrupt fd has an event, or both.
SelectReady ==
    /\ EnterHandle
    /\ \/ edge # {} /\ UNCHANGED <<script, scripts>>
       \/ scripts < MaxScripts /\ scripts' = scripts + 1 /\ script' \in Scripts
    /\ previous' = current
    /\ due' = edge
    /\ pc' = "script"
    /\ UNCHANGED faults

\* select fails, or the FIFO cannot be read: the call returns.
SelectError ==
    /\ EnterHandle
    /\ Fail("select") \/ Fail("fifo")
    /\ UNCHANGED <<previous, due, script, pc, scripts>>

\* The lines are run; read each interrupt fd that select reported.
ReadFds ==
    /\ Boundary("script")
    /\ edge' = edge \ due
    /\ GoTo(ChipsPlace(due), due, current)
    /\ UNCHANGED <<list, monitored, current, intr, script, pekSeen, low,
                   lastRead, pek, outputVars, alarm, faults, scripts>>

\* The read of one of the fds fails: the fds after it are not looked at.  The
\* expander's fd was opened first, so it is the lower one.
ReadFdsError ==
    /\ Boundary("script")
    /\ Fail("fd")
    /\ \E read \in {{}, {PCAL}} :
          /\ read \subseteq due /\ read # due
          /\ edge' = edge \ read
          /\ GoTo(ChipsPlace(read), read, current)
    /\ UNCHANGED <<list, monitored, current, intr, script, pekSeen, low,
                   lastRead, pek, outputVars, alarm, scripts>>

-----------------------------------------------------------------------------
(* handle_gpio_mapping: the power management chip.                         *)

\* axp209_read_interrupt_bank_3 reads the status register...
AxpRead ==
    /\ pc = "axp"
    /\ \/ pekSeen' = pek /\ GoTo("clear", due, {}) /\ UNCHANGED faults
       \/ Fail("axp") /\ Return /\ UNCHANGED pekSeen
    /\ UNCHANGED <<list, monitored, current, intr, script, deviceVars, outputVars, alarm, scripts>>

\* ...then clears every bit of it, also the ones set since the read.
AxpClear ==
    /\ pc = "clear"
    /\ \/ pek' = {} /\ GoTo("pek", due, {}) /\ UNCHANGED <<pekSeen, faults>>
       \/ Fail("axp") /\ Return /\ pekSeen' = {} /\ UNCHANGED pek
    /\ UNCHANGED <<list, monitored, current, intr, script, low, lastRead, edge, outputVars, alarm, scripts>>

\* Mutant of Pek: where MENU has no mapping, the first one is taken for its.
PekFirst ==
    /\ pc = "pek"
    /\ LET found == FindMapping(list, {MENU})
           menu == IF found = 0 /\ list # <<>> THEN 1 ELSE found
       IN  IF "short" \in pekSeen /\ menu # 0 /\ list[menu].type = "KEY"
           THEN KeyUp({list[menu].value}, TRUE)
           ELSE UNCHANGED <<down, scripted>>
    /\ shutdown' = (shutdown \/ "long" \in pekSeen)
    /\ pekSeen' = {}
    /\ GoTo(ChipsPlace(due \ {AXP}), due \ {AXP}, current)
    /\ UNCHANGED <<list, monitored, current, intr, script, deviceVars, alarm, faults, scripts>>

\* The presses that were read: a short one taps the key of MENU, a long one
\* shuts the system down.
Pek ==
    /\ pc = "pek"
    /\ LET menu == FindMapping(list, {MENU})
       IN  IF "short" \in pekSeen /\ menu # 0 /\ list[menu].type = "KEY"
           THEN KeyUp({list[menu].value}, TRUE)
           ELSE UNCHANGED <<down, scripted>>
    /\ shutdown' = (shutdown \/ "long" \in pekSeen)
    /\ pekSeen' = {}
    /\ GoTo(ChipsPlace(due \ {AXP}), due \ {AXP}, current)
    /\ UNCHANGED <<list, monitored, current, intr, script, deviceVars, alarm, faults, scripts>>

-----------------------------------------------------------------------------
(* handle_gpio_mapping: the GPIO expander.                                 *)

Status ==
    /\ pc = "status"
    /\ \/ intr' = IntStatus(low, lastRead) /\ GoTo("input", due, {}) /\ UNCHANGED faults
       \/ Fail("status") /\ Return /\ UNCHANGED intr
    /\ UNCHANGED <<list, monitored, current, script, pekSeen, deviceVars, outputVars, alarm, scripts>>

\* Mutant of Sample: no sanity check, only the interrupt status counts.
SampleTrustsStatus(active) ==
    LET now == Xor(active \cap monitored, {NOE})
        changed == intr \cap monitored
    IN  /\ current' = now
        /\ shutdown' = (shutdown \/ NOE \in changed)
        /\ GoTo(IF changed = {} THEN "select" ELSE "apply", {}, now)
        /\ intr' = {}

\* What the call makes of the active GPIOs it read: NOE is inverted, a GPIO
\* that changed counts as interrupting, and a NOE interrupt shuts down.
Sample(active) ==
    LET now == Xor(active \cap monitored, {NOE})
        changed == (intr \cap monitored) \cup Xor(now, previous)
    IN  /\ current' = now
        /\ shutdown' = (shutdown \/ NOE \in changed)
        /\ GoTo(IF changed = {} THEN "select" ELSE "apply", {}, now)
        /\ intr' = {}

\* The read of the INPUT port, which also ends the interrupt.  A failed read
\* is not noticed: the mask is unsigned and its sign is what the code tests.
Input ==
    /\ pc = "input"
    /\ \/ /\ Sample(low)
          /\ lastRead' = low
          /\ edge' = EdgeAfter(low, low)
          /\ UNCHANGED faults
       \/ /\ Fail("input")
          /\ \E errno \in Errnos : Sample(ErrnoMask(errno))
          /\ UNCHANGED <<lastRead, edge>>
    /\ UNCHANGED <<list, monitored, script, pekSeen, low, pek, down,
                   scripted, alarm, scripts>>

-----------------------------------------------------------------------------
(* apply_mapping, one entry at a time.                                     *)

Entry == list[cursor]

\* Mutant of Matches: no other button may be pressed.
MatchesAlone == Entry.mask = rest

Matches == Entry.mask \subseteq rest

\* Mutants of Match: a command is sent as a key; the buttons stay available;
\* only a combination that becomes active takes its buttons.
MatchAnyType ==
    /\ Matches
    /\ list' = [list EXCEPT ![cursor].activated = TRUE]
    /\ rest' = Xor(rest, Entry.mask)
    /\ IF ~Entry.activated THEN KeyDown(Entry.value, FALSE) ELSE UNCHANGED <<down, scripted>>

MatchKeepsButtons ==
    /\ Matches
    /\ list' = [list EXCEPT ![cursor].activated = TRUE]
    /\ IF ~Entry.activated /\ Entry.type = "KEY"
       THEN KeyDown(Entry.value, FALSE)
       ELSE UNCHANGED <<down, scripted>>
    /\ UNCHANGED rest

MatchTakesOnce ==
    /\ Matches
    /\ list' = [list EXCEPT ![cursor].activated = TRUE]
    /\ rest' = IF Entry.activated THEN rest ELSE Xor(rest, Entry.mask)
    /\ IF ~Entry.activated /\ Entry.type = "KEY"
       THEN KeyDown(Entry.value, FALSE)
       ELSE UNCHANGED <<down, scripted>>

\* The combination is pressed: it takes its buttons, and if it was not active
\* its key goes down (or its command is run).
Match ==
    /\ Matches
    /\ list' = [list EXCEPT ![cursor].activated = TRUE]
    /\ rest' = Xor(rest, Entry.mask)
    /\ IF ~Entry.activated /\ Entry.type = "KEY"
       THEN KeyDown(Entry.value, FALSE)
       ELSE UNCHANGED <<down, scripted>>

\* The combination is no longer pressed: its key goes up.
Release ==
    /\ ~Matches
    /\ Entry.activated
    /\ list' = [list EXCEPT ![cursor].activated = FALSE]
    /\ IF Entry.type = "KEY"
       THEN KeyUp({Entry.value}, FALSE)
       ELSE UNCHANGED <<down, scripted>>
    /\ UNCHANGED rest

Skip ==
    /\ ~Matches
    /\ ~Entry.activated
    /\ UNCHANGED <<list, rest, down, scripted>>

ApplyEntry ==
    /\ pc = "apply"
    /\ cursor <= Len(list)
    /\ Match \/ Release \/ Skip
    /\ cursor' = cursor + 1
    /\ UNCHANGED <<monitored, current, previous, intr, due, script, pekSeen, pc,
                   deviceVars, shutdown, alarm, faults, scripts>>

ApplyDone ==
    /\ pc = "apply"
    /\ cursor > Len(list)
    /\ Return
    /\ UNCHANGED <<list, monitored, current, intr, script, pekSeen, deviceVars,
                   outputVars, alarm, faults, scripts>>

-----------------------------------------------------------------------------
Init ==
    /\ list = <<>>
    /\ monitored = {} /\ current = {} /\ previous = {} /\ intr = {}
    /\ due = {} /\ script = Boot /\ cursor = 1 /\ rest = {} /\ pekSeen = {}
    /\ pc = "boot"
    /\ low \in SUBSET Pins /\ lastRead \in SUBSET Pins
    /\ edge = Chips       \* a gpio file is readable once after it was opened
    /\ pek = {}
    /\ down = {} /\ scripted = {} /\ shutdown = FALSE
    /\ alarm = (NOE \notin low \cap lastRead)
    /\ faults = 0 /\ scripts = 0

Config == ConfigLine \/ BootDone
Wait == SelectTimeout \/ SelectReady \/ SelectError \/ ReadFds \/ ReadFdsError
PowerChip == AxpRead \/ AxpClear \/ Pek
Expander == Status \/ Input
Apply == ApplyEntry \/ ApplyDone

Daemon == Config \/ Wait \/ PowerChip \/ Expander \/ Apply
Environment == (\E g \in Pins : MovePin(g)) \/ (\E press \in PekPresses : PressPek(press))
Next == Daemon \/ Environment

Spec == Init /\ [][Next]_vars

\* The daemon is a process the kernel schedules; users do what they like.
FairSpec == Spec /\ WF_vars(Daemon)

-----------------------------------------------------------------------------
(* Properties.                                                             *)

Places == {"boot", "select", "script", "axp", "clear", "pek", "status", "input",
           "apply"}

Mapping(types, values) ==
    [mask : Combinations, bits : Nat, type : types, value : values,
     activated : BOOLEAN]
Mappings == Mapping({"KEY"}, Keys) \cup Mapping({"COMMAND"}, Commands)

\* Every variable of the loop keeps its type; in particular an entry holds a
\* key exactly when its type says so, and apply_mapping's cursor stays in
\* the list.
TypeOK ==
    /\ list \in Seq(Mappings)
    /\ monitored \in SUBSET Gpio
    /\ current \in SUBSET Gpio /\ previous \in SUBSET Gpio
    /\ intr \in SUBSET Gpio /\ rest \in SUBSET Gpio
    /\ due \in SUBSET Chips /\ edge \in SUBSET Chips
    /\ script \in Seq(Lines)
    /\ cursor \in 1..(IF pc = "apply" THEN Len(list) + 1 ELSE 1)
    /\ pek \in SUBSET PekPresses /\ pekSeen \in SUBSET PekPresses
    /\ pc \in Places
    /\ low \in SUBSET Pins /\ lastRead \in SUBSET Pins
    /\ down \in SUBSET Keys /\ scripted \in SUBSET Keys
    /\ shutdown \in BOOLEAN /\ alarm \in BOOLEAN
    /\ faults \in 0..MaxFaults /\ scripts \in 0..MaxScripts

\* The lines of a configuration, and that it maps no key to two combinations.
AllLines == UNION {Range(s) : s \in Scripts \cup {Boot}}

KeysMappedOnce ==
    \A l, m \in AllLines :
        l.op = "MAP KEY" /\ m.op = "MAP KEY" /\ l.value = m.value => l.mask = m.mask

HoldsKey(i, key) ==
    list[i].type = "KEY" /\ list[i].activated /\ list[i].value = key

\* No stuck key: a key that a mapping put down and that is still down belongs
\* to an active entry of the list.  Neither UNMAP, CLEAR, a MAP over the same
\* buttons nor a LOAD leaves a key down that nothing can release any more.
NoStuckKey ==
    \A key \in down \ scripted : \E i \in DOMAIN list : HoldsKey(i, key)

\* The converse: while a combination is active its key is down, unless the
\* last event of the key was a KEY* line's or the power key's.  This needs
\* KeysMappedOnce.
HeldKeyIsDown ==
    \A i \in DOMAIN list : \A key \in Keys :
        HoldsKey(i, key) => key \in down \cup scripted

\* A key is let go while a combination goes on holding it only by a KEYUP or
\* KEYPRESS line that names it, or when it is the key of MENU, which the power
\* key taps: no removal, no release of another mapping and no tap ever takes a
\* held key with it.  This needs KeysMappedOnce.
HeldKeyStaysDown ==
    [][\A key \in down \ down' : \A i \in DOMAIN list' :
          HoldsKey(i, key)' =>
              \/ RunLine("KEYUP") /\ Head(script).value = key
              \/ RunLine("KEYPRESS") /\ Head(script).value = key
              \/ pc = "pek" /\ list[i].mask = {MENU}]_vars

\* No two entries have the same mask: find_mapping by mask is unambiguous.
UniqueMasks == Unique(list)

\* A button drives at most one active mapping at a time (apply_mapping takes
\* the buttons of a match away from the mappings after it).
DisjointMappings ==
    pc # "apply" =>
        \A i, j \in DOMAIN list :
            i # j /\ list[i].activated /\ list[j].activated
                => list[i].mask \cap list[j].mask = {}

\* The buttons that the active entries before the i-th one use.
UsedBefore(i) ==
    UNION {list[j].mask : j \in {k \in DOMAIN list : k < i /\ list[k].activated}}

Follows(buttons) ==
    \A i \in DOMAIN list :
        list[i].activated <=> list[i].mask \subseteq buttons \ UsedBefore(i)

\* What the search is for: when it ends, an entry is active if and only if all
\* of its buttons are pressed and no active entry before it uses one of them.
SearchResult == pc = "apply" /\ cursor = Len(list) + 1 => Follows(current)

\* Between two calls the active entries are those of current_gpio_mask, on
\* which the next call relies to find what has changed.
InSync == pc = "select" => Follows(current)

\* The buttons of every key mapping are monitored.
KeysMonitored ==
    \A i \in DOMAIN list : list[i].type = "KEY" => list[i].mask \subseteq monitored

\* The system is only shut down if the lid was closed or the power key held,
\* also when reads of the expander fail.
NoFalseShutdown == shutdown => alarm

\* A mapping is only released when its buttons were not all pressed at the
\* last read, or an active entry before it has taken one of them.
ReleaseOnlyReleased ==
    [][\A i \in DOMAIN list :
          pc = "apply" /\ list[i].activated /\ ~list'[i].activated
             => \/ ~(list[i].mask \subseteq lastRead)
                \/ list[i].mask \cap UsedBefore(i) # {}]_vars

\* Once the buttons are left alone, the active mappings are for ever those of
\* the buttons that are pressed.
Settled == <>[][UNCHANGED low]_vars
Converges == Settled => <>[]Follows(low)

\* A short power key press that is latched when no clear is under way gets
\* through to the handler, if the buttons do not keep the loop busy.
PekServed ==
    Settled => ("short" \in pek /\ pc # "clear" ~> "short" \in pekSeen /\ pc = "pek")

\* A lid that stays closed shuts the system down, however the closing falls
\* between the two reads of the expander.
LidShutsDown == <>[](NOE \notin low) => <>shutdown

\* What the order "sorted by decreasing simultaneous GPIO number" is for: a
\* combination that is pressed is active, or loses a button to an active one
\* that has at least as many buttons.
BiggestWins ==
    pc = "apply" /\ cursor = Len(list) + 1 =>
        \A i \in DOMAIN list :
            list[i].mask \subseteq current /\ ~list[i].activated =>
                \E j \in DOMAIN list :
                    /\ list[j].activated
                    /\ list[j].bits >= list[i].bits
                    /\ list[j].mask \cap list[i].mask # {}

\* Where that order is kept, it does its work.
SortedWins == Sorted(list) => BiggestWins

\* There is one way to lose it: a MAP line with fewer buttons than every entry
\* that stays, whose mapping goes to the head.  No UNMAP or CLEAR, no longer
\* combination and no MAP over the same buttons ever disturbs the order.
OrderLostAtHead ==
    [][Sorted(list) /\ ~Sorted(list') =>
          \A i \in DOMAIN list' \ {1} : list'[1].bits < list'[i].bits]_vars
=============================================================================
