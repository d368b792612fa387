# fkgpiod in TLA+

fkgpiod is the GPIO daemon of the FunKey S: it turns the buttons behind an I2C
GPIO expander (PCAL6416A) and the power key behind the power management chip
(AXP209) into key events of a uinput device or into shell commands, as a list
of mappings says that a configuration file and the lines written to
`/tmp/fkgpiod.fifo` maintain. Closing the lid (the NOE reed switch) or holding
the power key shuts the system down.

## 1. The system

| Component | Source | State | Operations |
|---|---|---|---|
| Mapping list | `mapping_list.c` | circular list of mappings: mask, bit count, type, value, activated | insert, find, remove, clear, iterate, dump, save |
| GPIO mapping loop | `gpio_mapping.c` | monitored and current mask, FIFO buffer, the fds | `init_gpio_mapping`, `handle_gpio_mapping` (one wake), `apply_mapping` (the search) |
| Configuration and script lines | `parse_config.c` | `keyword`, `buffer` and `line` (static) | parse a line, parse a file (LOAD), key and button names |
| GPIO expander driver | `gpio_pcal6416a.c` | one fd; the chip's INPUT and INT_STATUS registers | init, read interrupts, read active GPIOs |
| Power management driver | `gpio_axp209.c` | one fd; the chip's status register | init, read and clear |
| Virtual keyboard | `uinput.c` | one fd; what the kernel holds as pressed | init, `sendKey`, close |
| Daemon life cycle | `daemon.c`, `main.c` | pid file, its lock, signal handlers | daemonize, kill, handler |
| Key table | `keydefs.c` | constant | read by index and by code |
| SysFS GPIO files | `gpio_utils.c` | the kernel's: exported GPIOs, edges | export, edge, open |
| SMBus, termfix | `smbus.c`, `termfix.c` | none | wrappers of one ioctl; a separate tool |

How they interact. `main` calls `handle_gpio_mapping` for ever. A call waits in
`select` (30 ms) for the FIFO and the two interrupt lines, runs one FIFO line
(which changes the list and sends keys), reads the chips that interrupted
(all of them after a timeout) and searches the list, which sends keys. All of
it is one thread: what is concurrent with it is the hardware (a pin moves or
the power key is pressed between any two I2C transfers), the writers of the
FIFO, and other fkgpiod processes, which share the pid file, the exported
GPIOs and the FIFO.

What is hard: a pin that moves between the two reads of the expander; a press
between the read and the clear of the power chip; FIFO lines that replace or
drop a mapping whose buttons are held; calls that return early on a failed
transfer and leave the state half-way; a mask that is really a `-errno`;
starts, kills, crashes and failed starts of several processes in any order;
files that LOAD each other through one static line buffer; a loop that frees the
list entry it stands on; lines that arrive in pieces, together or without an end.

What makes each component correct:

- mapping list: one entry per mask; most buttons first; an entry that is
  dropped while active sends its key up;
- loop: after each search the active entries are those of the pressed buttons;
  a button drives one mapping; no change of a button is lost; keys are neither
  stuck nor phantom; shutdown if and only if lid or power key ask for it;
- lines: what a KEY line maps is monitored; a line counts once, in the order in
  which it was written; what SAVE writes, LOAD restores;
- list pointers: one ring of the allocated entries, after every step;
- power chip: a press that is latched while the chip is not being cleared is
  served once the buttons are left alone, and takes no held key up;
- life cycle: one daemon, which a `-k` that finds its file ends; no pid file left
  behind; a start that only a living daemon refuses, and that works whatever is
  left of earlier ones.

## 2. The modules

| Module | What it is |
|---|---|
| `MappingList` | the list as operators on a sequence: `NewMapping`, `FindMapping`, `InsertMapping`, `RemoveMapping`, `KeysUp`, `MapMapping` |
| `GpioMapping` | the loop, the effects of the lines, the two chips, the pins and the keyboard, as a state machine |
| `Keymap` | abstract: what the loop promises to a user |
| `MappingStore` | abstract: what the list promises to the lines |
| `LineQueue` | abstract: what the FIFO promises to those who write lines |
| `KeyTable` | the key table and its lookups by name and by code |
| `LinkedList` | the circular doubly linked list, pointer by pointer |
| `ConfigStore` | files, lines and SAVE on the linked list, with malloc and crashes |
| `FifoBuffer` | the FIFO and its buffer, byte by byte |
| `PidFile` | several fkgpiod processes: pid file, initialisation, signals, kill |
| `GpioMappingKeymap` | the loop as an implementation of `Keymap`: the refinement mapping |
| `MCGpioMapping`, `MCConfigStore`, `MCFifoBuffer`, `MCPidFile` | instances for TLC |
| `SequenceFacts` | insertion, removal, concatenation and flattening of sequences, the least element of a set of numbers, induction over a set of numbers |
| `MappingList_proofs`, `LinkedList_proofs` | what the list operators return, preserve and drop; what the loops over a ring visit |
| `GpioMapping_proofs`, `ConfigStore_proofs`, `FifoBuffer_proofs`, `PidFile_proofs` | the theorems about each state machine |
| `GpioMappingRefinement` | the loop implements `MappingStore` and `Keymap` |

The loop, the files, the FIFO and the processes meet at narrow interfaces, and
each is a state machine of its own: composed, every interleaving of pins and
I2C transfers would be multiplied with every interleaving of bytes and of
starts. What one takes for granted of another is a property of that other:
`GpioMapping` runs whole lines in the order they were written (`FifoBuffer`'s
`LinesInOrder`, `QueueSpec`), runs the lines of a file once and in order (`EachLineOnce`) on a
list that is a sequence (`WellLinked`, `StoreSpec`), and is the only daemon
(`OneDaemon`). `MappingStore` is what `ConfigStore` and `GpioMapping` both
implement: the first with the pointers, the second with the keys.

### GpioMapping

A mask is the set of its 1 bits. `pc` is where the one thread is; every I2C
transfer, every file read, every line and every entry of the search is a step
of its own, so that pins and power key move in between:

```
boot --BootDone--> select --SelectTimeout--------------> axp
                     |  ^--SelectError                    |AxpRead
                     |SelectReady                        clear
                     v                                    |AxpClear
                   script --ReadFds/ReadFdsError--> ..   pek
                                                          |Pek
   select <--ApplyDone-- apply <--Input-- input <--Status-- status
```

A failed transfer returns to `select` (`Return`). The locals of the call
(`previous`, `intr`, `due`, `pekSeen`, and `rest`, `cursor` of the search) are
variables, set back to their initial value where the code does not read them
again. One action stands for a whole line of the parser: `MapLine` finds and
removes the entry with the same mask (sending its key up), inserts the new one
and monitors the buttons of a KEY line. LOAD is a script of several lines.

The environment is modelled from how the code uses it: an unlatched expander
asserts its interrupt while an unmasked pin differs from the last value read
(`IntStatus`, the mask 0x0320 is `IntMasked`), the gpio file reports both edges
of it and is readable once after it was opened, the power chip's interrupt has
no edge (`init_gpio_interrupt(..., "")`), the power chip latches presses until
they are cleared. `ErrnoMask` is the low 16 bits of `-errno`, which is what a
failed INPUT read becomes, because `current_gpio_mask < 0` is never true.

`scripted`, `alarm`, `faults` and `scripts` are history and bounds: keys last
sent by a KEY* line or the power key, whether the hardware has ever asked for a
shutdown, failures and FIFO wakes so far.

### ConfigStore, LinkedList, KeyTable

`links` has the `next` and `prev` of every node that malloc can return and of the
head, `entry` the mapping in an allocated node: `Nodes` is the heap, and a line
that finds it full is the line whose malloc fails. `stack` is the recursion of
`parse_config_file` through LOAD: for each open file the lines that are left,
and feof. `pc` is where the innermost call is:

```
idle --FifoLine--+              +--Load/SendKey/Accept/Reject--> read or idle
                 v              |
read --FgetsLine, FgetsEnd--> line --SaveStart--> save --SaveNext*, SaveEnd-->
     |                          find --RemoveFound, FindNothing--> insert --Insert-->
     +--FileEnd--> ..           clear --ClearNext*, ClearEnd-->
```

Each step of a loop over the list is a step, with the loop's cursors `cur` and
`nxt`. `Done` and `Failed` are the two results of `parse_config_line`: a failed
line ends its file, and the LOAD line that opened it does not notice, since
`parse_config_file` then returns true. All files share `line`, the static
buffer: `strtok_r` leaves its first word there (`Cut`), and at the end of a file
`fgets` fails, the buffer is as it was, and that word is run again
(`FgetsEnd`) - after an inner file the outer one's end meets the inner one's
last word. SAVE truncates the file when it opens it and writes when it closes
it: what it prints fits in the buffer of the stream. `Crash` is the end of the
process anywhere and its next start: the list is gone, the files are there.
Histories: `once` is the list as the lines that were read should have made it,
`saved` the list that each saved file stands for.

`KeyTable` has the 295 entries as ranges: `CodeOf` of an index. `LookupKey` is
`lookup_key`, which returns the index; `KeycodeName` is `keycode_name`, which
looks for the code.

### FifoBuffer

`pipe` holds what was written and not read, `buffer` is `fifo_buffer`, `total` is
`total_bytes`, a number modulo `WordSize`. `Read` is one turn of the read loop;
`Run` is its end at EWOULDBLOCK, where `strtok_r` looks for the end of a line in
the buffer, whatever older lines left behind the bytes read. How many blanks of
a line `parse_config_line` turns into NULs depends on the line: `Parsed` leaves
that open. When `total_bytes` wraps, `memmove` leaves the address space and the
process is `dead`.

### PidFile

`Open`, `Lock`, `Write` are daemonize from its `open` on; `InitMain` is the
initialisation in main, one action for each call that can fail: the keyboard
(`InitUinput`, whose failure main ignores), the configuration file, the probe
of the expander, the two interrupt GPIOs (`WatchPin`: export, edge, open, whose
failure is ignored too), the power chip and the FIFO. `CloseUinput` is the end
of a start that failed: the keyboard is destroyed, the pid file stays.
`Terminate` and `Unlink` are the two halves of the signal handler;
`OpenToKill`, `ReadPid`, `Kill` are `kill_daemon`. A file is named by the process
that created it; a lock belongs to the file and ends with its process. What
outlives a process is the pid file, the exported GPIOs and the FIFO. `faulty`
are the daemons that met an error of their own (`Error`), from `open` on.

### Keymap and MappingStore

`Keymap` has the list and the keys that are down. A search is one step: for
some set of pressed buttons, an entry becomes active exactly when its buttons
are pressed and no active entry before it uses one of them, and the keys of
those that change go down or up with it. Dropping an active mapping takes its
key up. `GpioMapping` implements it under the mapping `ListDone`, `DownDone` of
`GpioMappingKeymap`: a search that has looked at its first entry counts as done,
so that its first step is the abstract one and the others stutter. What it will
have done is `Winners`, the entries whose buttons are left over by the winners
before them. The abstract step says nothing of which buttons are pressed: that
they are the real ones is `Converges`.

`MappingStore` has only the list: a line adds a mapping (after the one with the
same buttons is dropped), drops one, or restarts with none. `ConfigStore`
implements it with the sequence that `list_for_each` visits (`StoreSpec`); a
CLEAR drops the entries one by one. `GpioMapping` implements it with the list
without its `activated` flags. The set of all mappings is infinite, as `bits` is
any number: the mapping that a line adds is therefore looked for in the new list.

`LineQueue` is a queue of the bytes that were written and not run: whole lines
are sent, and a run takes the bytes up to the first newline. `FifoBuffer`
implements it (`QueueSpec`) with the bytes in the buffer followed by those in the
FIFO (`Waiting`): reading moves bytes between the two and is a stutter. From the
first ragged write on (`broken`) the queue promises nothing. `LinesInOrder` says
of a state that nothing is lost; the queue says of a step that it runs one
line, and at the time all of it.

## 3. What is checked

Passing runs:

| Run | Question | Bounds |
|---|---|---|
| `safety` | list, active mappings and keys agree after every step, a held key goes up only by its own line or tap, the loop implements `Keymap`, and the order of the list does its work where it holds and is only lost at the head | FN, A, MENU and lid; the file of `MCBoot`; one FIFO wake out of nine scripts, one of which loses the order of the list twice (`MCUnordered`); one failure of select or INPUT |
| `shutdown` | shutdown only and always when asked for; the power key is served | A, MENU and lid; short and long presses; CLEAR from the FIFO; two failures of any of five kinds |
| `sync` | between calls the active mappings are those of the current mask, and they settle on the buttons | full buttons; one KEY*, TYPE-like or rejected line; one failure of an fd or of INPUT |
| `store` | the pointers stay one ring; each line counts once; SAVE and LOAD restore the list; every LOAD ends; the list implements `MappingStore` | three nodes, four files, two open at once (`MaxOpen`), three FIFO lines out of nine (`MaxLines`), one crash (`MaxCrashes`) |
| `fifo` | lines are neither lost, repeated nor joined; `total_bytes` wraps only after a blank or unended line; every wake runs a line; the buffer implements `LineQueue` | four writes out of five (`MaxWrites`), a buffer of 12 bytes, `size_t` modulo 64 |
| `life` | one daemon, that owns its file, ends when told to, refuses others only while it lives, and starts over whatever is left of the one before | two starts, one kill, one crash; any step of the start may fail |

Runs that show the code do what a comment or the documentation denies
(`findings` in `PROJECT.json`):

| Run | What happens |
|---|---|
| `order` | MAP FN+A, then MAP A: `insert_mapping` puts A at the head, and FN+A can never match |
| `command` | a button that only a COMMAND mapping uses is not monitored: the command never runs |
| `fifo_release` | any FIFO line releases what is held, because the call applies the mask 0 |
| `three` | a start that loses the lock unlinks the pid file of the running daemon; the start after it runs beside it |
| `keycode` | a key is sent with its index in the table for its code: KEY_UP (index 102) is sent as KEY_HOME; only the entries 0 to 83 and 122 to 152 have the code of their index |
| `stranded` | of two lines written together the second waits in the buffer until somebody writes again |

More defects show in the models and have no run of their own.

A failed status read, or any other early return, leaves 0 as the mask that the
next call compares with (gpio_mapping.c:310). A button that was held before it
and is released before the next INPUT read then seems not to have changed, and
if it is released between the two reads of that call it is in neither mask: its
mapping stays active and its key down until a monitored button moves, although
the sanity check is there "if we missed an interrupt for some reason"
(line 486). `Converges` fails so with one failure of kind `status`; `sync`
therefore has none that returns early. In the same way a failed INPUT read
(line 474), which is not noticed, `current_gpio_mask` being unsigned, presses the
buttons whose bit is 1 in `-errno` until the next read, and for longer if that
one's status read fails too. For the lid a lost mask only delays the shutdown:
`LidShutsDown` is checked with two failures of any kind (a failed read of the
FIFO is the same step as a failed `select`).

A press of the power key between the read and the clear of its register is
lost (gpio_axp209.c:115): `PekServed` is about the others. A daemon that locks
the file between the two halves of another's signal handler (daemon.c:55) loses
its path and is not found by a -k; a -k that reads the file before a starting
daemon has written it exits and ends nothing. SAVE truncates the file before it
writes it (mapping_list.c:368), and after a crash there the next start finds an
empty file, and no copy. A blank line, or a write that
does not end in a newline, makes `total_bytes` wrap (line 373; `NoWrap` says that
nothing else does). And an empty file runs the last command of the file before
it, which may be a CLEAR (`stale` in `ConfigStore`).

The bounds are enough for what the properties tell apart. Two overlapping
buttons with mappings for each and for both give every case of the search
(match, taken away, released, re-mapped). One FIFO wake falls between any two
calls, with any combination held, and carries up to four lines; the theorems
of section 4 hold for any number of wakes, the other properties are checked
for one. The script `MCUnordered` loses the order of the list, has it again when
the entry at the head is removed, and loses it a second time, with buttons held
before, between and after, so that `OrderLostAtHead` and `SortedWins` meet lists
of both kinds. Two
failures are needed, and enough, for a failure during the recovery from one.
Three processes are needed for the pid file to be created twice while a daemon
runs, two and a kill for every other question of `life`; the theorems hold for
any number, `OneOfTwoStarts` for two.

Three nodes are a first, a middle and a last mapping, and a fourth MAP line is
one without memory; three FIFO lines are enough to change the list, SAVE and
LOAD it. Two open files are a file that LOADs one, and one LOAD too deep. No
file has a SAVE line (`DiskAssumption`), so none is saved while it is being
read. The bytes
that wait in the FIFO and the buffer together are fewer than the buffer has
(`Write`): `read` is asked for `sizeof (fifo_buffer) - 1` bytes however many wait
in it already, and what lies behind the buffer is not modelled. Four short
writes can all wait at once, and are enough for stale bytes of an older line to
lie behind a newer one.

`InSync` and `Converges` do not hold for every script. A MAP line for a held
button that arrives together with an interrupt whose read shows no net change
is not applied until a button moves (`return` at gpio_mapping.c:507), so `sync`
takes only lines that leave the list alone. `HeldKeyIsDown` and
`HeldKeyStaysDown` need that no two combinations are mapped to one key, as in
the configuration files here; a key that a KEYDOWN line holds down is let go by
any mapping, or tap of MENU, that has the same key. `KillEnds` is about a -k that
has opened the file of a daemon that is up, and excuses a crash, which may be
that of the -k.
`LoadRestores` is about lists that are sorted, name no button twice and
have only keys whose index comes back from the code (`Restorable`): an unsorted
list is saved in an order that insertion does not keep, and the other keys
drift (`keycode`). `EachLineOnce` excludes the stale CLEAR above.
`SearchResult` says nothing about the order of the list; `BiggestWins` does, and
fails (`order`). What holds is that it follows from the order (`SortedWins`), and
that the order is only lost to a mapping with fewer buttons than every other,
which goes to the head (`OrderLostAtHead`).

Fairness. `FairSpec` has weak fairness on the daemon's steps together: it is a
process the kernel schedules, and `select` returns after 30 ms at the latest.
There is no fairness on pins, presses or FIFO. `Converges` and `PekServed` are
conditional on the buttons being left alone in the end (`Settled`): a button
that changes for ever can keep the loop busy, and then the power key, which is
only served at a timeout, waits. `PidFile` has weak fairness for each process,
`ConfigStore` and `FifoBuffer` for the daemon's steps while it has something to
do: there is none on writers and crashes, and `select` returns while the FIFO is
not empty. `EveryLineRuns` fails under that fairness: the daemon is not slow, it
is not woken.

Every property of a passing run has a mutant, an operator beside the one it
changes (`SampleTrustsStatus` is `Sample` without the sanity check, and so on).

## 4. What is proved

For every set of buttons and keys, every configuration file and script, every
number of failures, wakes and processes:

| Theorem | Statement |
|---|---|
| `TypeCorrect` (four) | type invariants of `GpioMapping`, `ConfigStore`, `FifoBuffer`, `PidFile` |
| `MasksUnique` | no two entries have the same mask |
| `KeysNeverStick` | a key a mapping holds down belongs to an active entry |
| `HeldKeysAreDown` | the key of an active entry is down, if no key is mapped twice |
| `HeldKeysStayDown` | a key that an entry goes on holding is taken up only by a line that names it or, for MENU, by the tap, if no key is mapped twice |
| `KeyButtonsMonitored` | the buttons of KEY mappings are monitored |
| `MappingsDisjoint` | after a search no two active entries share a button |
| `SearchIsRight` | at the end of a search an entry is active exactly when its buttons are pressed and no active entry before it uses one |
| `InSyncBetweenCalls` | between calls the active entries are those of the current mask, for quiet lines and failures that do not return early |
| `ShutdownIsRight` | shutdown only after the lid was closed or the power key held |
| `OrderIsEnough` | in a sorted list the biggest pressed combination wins |
| `OrderIsLostAtHead` | only a MAP with fewer buttons than all entries that stay ends the order |
| `LoopImplementsStore` | the loop implements `MappingStore` |
| `LoopImplementsKeymap` | the loop implements `Keymap`, if no key is mapped twice |
| `RingHolds`, `LinkedHolds`, `WellLinkedHolds` | the list is one ring of the head and the allocated mappings; each pointer has its way back; the loops visit each mapping once, in one order |
| `NoDanglingHolds` | no loop stands on a freed mapping |
| `EachLineOnceHolds` | between lines the list is what the lines that were read make, each run once |
| `RereadHarmlessHolds` | the line that the end of a file runs again does nothing |
| `LoadRestoresHolds` | SAVE and LOAD, or SAVE, crash and start, restore a sorted list |
| `ListedUnique` | no two mappings of the linked list have the same buttons, also in the middle of a line |
| `ImplementsStore` | the pointers implement `MappingStore` |
| `LinesStayInOrder` | of whole lines none is lost, repeated, joined or reordered |
| `WrapsOnlyWhenRagged` | `total_bytes` wraps only after a blank or unended line |
| `ImplementsLineQueue` | the FIFO buffer implements `LineQueue` |
| `OwnFile` | a daemon that came up has the lock of a file with its pid |
| `NoFileIsLeft` | clean ends leave no pid file, for any number of starts and kills |
| `OneOfTwoStarts` | of two starts at most one daemon runs |
| `OnlyTheLivingRefuse` | a start without an error of its own is stopped only by a living process that has its file locked |
| `RestartsWork` | what earlier daemons left behind stops no start |

And of what the violating runs refute, how far it goes:

| Theorem | Statement |
|---|---|
| `BiggestCombinationWins` (run `order`) | it holds if the first MAP line has the fewest buttons and its mapping is never removed, as with the shipped `fkgpiod.conf` |
| `ReleasedWhenRead` (run `fifo_release`) | a mapping is released while held only when the FIFO woke the loop alone, or an interrupt descriptor or the INPUT port could not be read |
| `TwoDaemonsNeedAnUnlink` (run `three`) | any number of starts makes one daemon while no process unlinks the path when another has, locks or waits to lock its file |
| `KeyAsAskedExactly` (run `keycode`) | a KEY line sends the key it names exactly for the entries 0 to 83 and 122 to 152 |
| `SavedKeysExactly` | SAVE and LOAD keep a key exactly for the entries 0 to 83 and 123 to 152 |

The loop. `MappingList_proofs` says once what `FindMapping`, `InsertPosition`,
`InsertMapping`, `RemoveMapping` and `MapMapping` do to the entries (keep all
but one, add at most one, in an unspecified place). `ConfigLineFacts` turns
that into one statement about any line, `ApplyEntryFacts` into one about a step
of the search, `ListSteps` and `SearchSteps` say that no other step touches
them, and the invariants are proved from these four.

`MasksUnique`, `KeysNeverStick` and `KeyButtonsMonitored` are inductive with the
types. `MappingsDisjoint` is not: in the middle of a search an entry that was
just activated may overlap one still active from the search before.
`DisjointInv` therefore compares only entries on the same side of the cursor,
and adds that the buttons left over are disjoint from those taken.
`SearchIsRight` needs the loop invariant `SearchInv`: `rest` is the current mask
without what the active entries before the cursor use. `ShutdownIsRight` needs
`ShutdownInv`: the lid is monitored from the end of the initialisation on, and
while it was never seen closed its bit is in no mask after the inversion.
It rests on `ErrnoAssumption`, that bit 10 of every `-errno` is 1, true of every
errno below 1024.

`HeldKeysAreDown` assumes `KeysMappedOnce`: of two combinations mapped to one
key, releasing the first takes the key of the second up. `HeldKeysStayDown`
assumes the same. The assumption is about
lines, the properties about entries: `OriginInv` says that every KEY entry has
the mask and the value of some line, so that with unique masks no two entries
have the same key (`KeyOfOneMask`). `InSyncBetweenCalls` assumes what the run `sync` has:
`ScriptsAreQuiet` (FIFO lines send keys, do nothing or are rejected) and
`NoEarlyReturn` (no failure of select, the FIFO or a status read), without which
it is false (section 3). `SyncInv` says which mask the active entries follow:
`current` in select; `previous` while the call reads and compares, since
`current_gpio_mask` is reset before the wait; `current` again when the search,
by `SearchInv`, has come to its end or was not needed.

The order. `InsertMappingSorts`, `RemoveMappingSorts` and `MapMappingSorts` say
that each operator keeps a sorted list sorted, or puts the new mapping at the
head before entries with more buttons. `OrderIsEnough` follows from
`SearchResult`: the active entry that took a button comes before, so it has as
many buttons. `BiggestCombinationWins` assumes `FirstMapStays` of the k-th line
of the configuration file: it is the first MAP line, later ones have as many
buttons, and no later line clears the list, unmaps those buttons or maps them
again. `FirstInv` then says that its entry is in the list and the list sorted,
so that an insertion always finds a place.

Held buttons. `ReleasedWhenRead` needs `FreshInv`: an active entry has only
monitored buttons, and during a search `current` is what the last read of the
INPUT port gave, since every way into the search but those that it excludes
passes through that read. It holds with failures of select, the FIFO, the power
chip and the status read.

The pointers. `RingHolds` is the inductive invariant of `ConfigStore`. That
pointers lead back (`Linked`) is not inductive: two rings would satisfy it, and
a deletion in the one does not show in the other. `IsRing` therefore has a
witness, the sequence of the nodes in their order, each once; `RingDelete` and
`RingAdd` give the sequence after a deletion and an insertion between
neighbours, and `RingSteps` what a loop finds at the next place. `NoDangling` is
then inductive with it. `VisitIs` says that a loop along the pointers visits that
very sequence, by induction on the places left; `RingDeleteAt` and
`RingAddAt` that deletion and insertion do to it what `RemoveAt` and `InsertAt`
do to a sequence. So the model's list is a function of the pointers, and
`WellLinkedHolds` and `ImplementsStore` are about it. `LoopInv` says which
entries a loop has passed: none with the mask that is looked for, or with as
few buttons as the new one, so that find and insert end where `FindMapping` and
`InsertPosition` are.

The lines. `EachLineOnce` holds between lines; in the middle of one the list is
half-way. `Outcome` is the list as it will be when the line under way is
done (a mapping that is still to be removed or inserted, a CLEAR that is under
way), and `OnceInv`, that it is `once`, is inductive with `RereadInv`: what is left
in the static buffer is a word that `Cut` left, and when the end of a file runs
it again it is a line that does nothing, but for the CLEAR of `stale`.
`LoadRestores` needs the stages of a file: `Saving`, that after k entries
SAVE has printed the CLEAR and the last k entries; `SavedFiles`, that the file
of a saved list has exactly its lines, back to front; and, while that file is
read on an otherwise empty stack, `LoadInv`, that after k lines the list is the
last k - 1 mappings of the saved one. Each MAP line then inserts at the head, for
the list is sorted and an entry with as many buttons goes before those there.

The FIFO. `LinesInOrder` alone is not inductive. `InOrder` adds that the bytes
that wait, in the buffer and in the pipe, are whole lines (`Whole`): then the
first token ends where its newline is, `total_bytes` covers it, and what
`memmove` leaves are whole lines again. `Fits`, that the waiting bytes are
fewer than the buffer has, keeps the last NUL where `strtok_r` needs it; it
is the bound of the writes, not a promise of the code (section 3).
`ImplementsLineQueue` needs the same: the bytes that `Run` takes are those of
`Waiting` up to its first newline, whether the rest is in the buffer or in the
FIFO.

The processes. `OwnFile` needs `LockInv`: from `lockf` to the handler a process
has the lock, so no other can write its file. `NoFileIsLeft` needs `FileInv`:
while the path names a file and nobody died uncleanly, some process is between
its open and its unlink. `OneOfTwoStarts` needs `OneFile`: of two starts (`Two`),
while one has its file open and the other has still to open it, the path names
that file, so that both compete for one lock. With more starts that is false
(`three`), and `TwoDaemonsNeedAnUnlink` says why: while `NobodyTakesThePath`, every
process from its `open` on has the file of the path (`OnPath`).
`OnlyTheLivingRefuse` needs `LivingInv`: a lock belongs to a process that has
taken it and has not ended, so not to one that is still to lock. `RestartsWork` needs `StartInv`:
how far a daemon without an error has got says what it has by then.

The refinements. `LoopImplementsStore` needs that the list operators do not look
at the flags: `ContentsFind`, `ContentsInsert`, `ContentsRemove` and
`ContentsMap` say that each commutes with `Contents`, which drops them, and
`ContentsActivated` that a search changes nothing else. `LoopImplementsKeymap`
needs that there is exactly one set of winners: `WinnersExist`, by
induction on the entries, and `WinnersAgree`. While the search runs, the entries
before the cursor are active exactly if they win (`WinnersSoFar`, from
`SearchInv`), so a step changes the list towards `Searched` and leaves that as
it is. The keys need `KeysMappedOnce` again: with one key for two entries, the
order of the entries decides which event is the last, and one step that takes
all keys of the losers up and all of the winners down is not what the loop does.

The other assumptions are that the constants have their types
(`GpioAssumption`, `LineAssumption`, `DiskAssumption`, ...), that a MAP line
names a button (otherwise the parser stops at its TO), that the heap and the
named buttons are finite (`NodeAssumption`, `ButtonAssumption`), that the head
is no node (`HeadAssumption`), that the end of a line is not the end of a
string (`ByteAssumption`), that `size_t` holds twice the size of the buffer
(`SizeAssumption`) and that processes have names (`ProcAssumption`).

The keys. `EventInv` says that a key event has the index of its key, which is
the code in two ranges of the table (`OwnCodes`). Of the names with one code SAVE
writes the first (`FirstName`), and 122 is the second name of its code.

Only model-checked: all liveness (`LidShutsDown`, `Converges`, `PekServed`,
`KillEnds`, `SignalEnds`, `StartEnds`, `LinesEnd`, `AWriteIsHeard`), which the prover does not
treat, and so the fairness it needs. Every invariant and every other
property of a passing run is a theorem.

## 5. What is not modelled

- The tokens of a line: `ConfigStore` has the line that is accepted, or rejected,
  and its first word; that MAP ... TO KEY without a key is accepted as key 0 and
  that lines and tokens have a greatest length is left out. `system` and its
  commands: a command's run is the activation of its entry.
- `strdup` is taken to succeed, and so are the writes of events to the uinput
  device, whose results nobody looks at; the 200 ms of a KEYPRESS.
- DUMP, TYPE and SLEEP change no state.
- An I/O error in the middle of a regular file (parse_config.c:491), which ends
  the file as a rejected line does and leaves the static buffer undefined. For a
  LOAD that cannot read at all, of a directory, the result is that of a file
  that does not exist.
- In `FifoBuffer`, a read of the FIFO that fails with another error than
  EWOULDBLOCK (gpio_mapping.c:379), after which the call returns and the buffer
  keeps what was read; `GpioMapping` has it as the failure `fifo`.
- `syslog` and `exit` in the signal handler are not async-signal-safe: a signal
  that comes inside them, or inside `malloc`, may block the process; `Terminate`
  takes them to return.
- The loop after an interrupt GPIO could not be opened, and the events of a
  daemon without a keyboard: where descriptor 0 leads then is not known.
- The writes that configure the two chips: their effect is in the environment of
  `GpioMapping`, and their failure is not noticed.
- Option parsing, beyond the choice of -d or -k; a daemon started by init, which
  returns before it touches the pid file; the reuse of a pid.
- `smbus.c` wraps one ioctl and keeps no state, `uinput_linux.h` is a header of
  the kernel, `termfix.c` a separate tool of two ioctls.

## 6. What is left

1. A composition of `FifoBuffer` and `ConfigStore`, with lines that are cut by
   `strtok_r` where they are.
2. Failures of the uinput writes, with a keyboard that keeps a key down.
