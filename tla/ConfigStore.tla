---------------------------- MODULE ConfigStore ----------------------------
(***************************************************************************)
(* Configuration files and lines (parse_config.c) and the mapping list     *)
(* they build (mapping_list.c), down to its pointers: files that LOAD      *)
(* other files, the static line buffer that all of them share, SAVE, a     *)
(* heap that may be full, and a daemon that may crash and read its         *)
(* configuration file again.                                               *)
(*                                                                         *)
(* What the mappings do to keys, and the monitored mask, are in            *)
(* GpioMapping; here no mapping is ever active.                            *)
(***************************************************************************)
EXTENDS KeyTable, LinkedList, MappingList

CONSTANTS
    FileNames,    \* files
    NoFile,       \* the empty file name
    Boot,         \* the file that the daemon reads at its start
    Disk,         \* what is in the files at first
    FifoLines,    \* the lines that come from the FIFO
    Buttons,      \* the GPIOs that have names
    Commands,     \* shell commands
    MaxOpen,      \* how many files can be open at once
    MaxLines,     \* bound on the lines from the FIFO
    MaxCrashes    \* bound on the crashes

\* A line, or as much of it as the parser heeds.  KEY is KEYUP, KEYDOWN and
\* KEYPRESS, COMMENT starts with "#", NOP is TYPE, DUMP, SLEEP and a blank
\* line, BAD starts with a word that is no command.  bits is how many buttons
\* the line names, value the name of the key or the command.
Ops == {"MAP KEY", "MAP COMMAND", "UNMAP", "CLEAR", "LOAD", "SAVE", "KEY",
        "COMMENT", "NOP", "BAD"}
Text(op) == [op |-> op, mask |-> {}, bits |-> 0, value |-> NoKey, file |-> NoFile]

\* MAP without a button is not accepted as far as "TO".
Masks == SUBSET Buttons
Values == KeyNames \cup {NoKey} \cup Commands
Texts ==
    {t \in [op : Ops, mask : Masks, bits : Nat, value : Values, file : FileNames \cup {NoFile}] :
        /\ t.op \in {"MAP KEY", "MAP COMMAND"} => t.mask # {}
        /\ t.op = "MAP COMMAND" => t.value \in Commands}
Files == [texts : Seq(Texts), ended : BOOLEAN]
Mappings ==
    {m \in [mask : Masks \ {{}}, bits : Nat, type : {"KEY", "COMMAND"}, value : Values,
            activated : {FALSE}] :
        m.value \in IF m.type = "KEY" THEN KeyNames ELSE Commands}

ASSUME ButtonAssumption == IsFiniteSet(Buttons)

\* No file has a SAVE line; SAVE comes from the FIFO.  This leaves out the file
\* that is saved while it is being read.
ASSUME DiskAssumption ==
    /\ NoFile \notin FileNames /\ Boot \in DOMAIN Disk /\ DOMAIN Disk \subseteq FileNames
    /\ FifoLines \subseteq Texts
    /\ \A f \in DOMAIN Disk :
          /\ Disk[f] \in Files
          /\ \A i \in DOMAIN Disk[f].texts : Disk[f].texts[i].op # "SAVE"
ASSUME BoundAssumption == MaxOpen \in Nat \ {0} /\ MaxLines \in Nat /\ MaxCrashes \in Nat

VARIABLES
    links,      \* the pointers of the list
    entry,      \* the mappings in the allocated nodes
    cur, nxt,   \* where a loop over the list is, and n of list_for_each_safe
    files,      \* the lines of the files, and whether the last one is ended
    stack,      \* the files being read, the innermost first: the lines that
                \* are left, whether the last one is ended, and feof
    line,       \* the static buffer, as parse_config_line leaves it
    todo,       \* the line being run
    again,      \* it is what is left in the buffer after the last line
    out,        \* the lines that SAVE has printed and the stream holds
    event,      \* the last key event: the key in the line and the code sent
    pc

\* Histories: the list as the lines that were read should have made it; a
\* stale CLEAR was run; the list that is in each saved file; the file that
\* was read last, unless something else came after it.
VARIABLES once, stale, saved, last, lines, crashes

heap == <<links, entry>>
reader == <<files, stack, line>>
history == <<once, stale, saved, last, lines, crashes>>
vars == <<links, entry, cur, nxt, files, stack, line, todo, again, out, event, pc,
          once, stale, saved, last, lines, crashes>>

used == DOMAIN entry
NoEvent == <<>>

\* The list as the sequence of its mappings.
ListOf(visited) == [i \in DOMAIN visited |-> entry[visited[i]]]
Listed == ListOf(ForEach(links))

Opened(file) == [rest |-> file.texts, ended |-> file.ended, eof |-> FALSE]

\* What a line is when strtok_r has cut it behind its first word: MAP, SLEEP
\* and TYPE alone do nothing, SAVE alone prints to stdout, UNMAP alone names
\* no mapping, LOAD no file, and KEYUP etc. without a key are rejected.
Cut(text) ==
    CASE text.op \in {"MAP KEY", "MAP COMMAND", "SAVE", "NOP"} -> Text("NOP")
      [] text.op \in {"UNMAP", "CLEAR", "LOAD"} -> Text(text.op)
      [] text.op \in {"KEY", "BAD"} -> Text("BAD")
      [] text.op = "COMMENT" -> text

\* The entry that a MAP line makes.
EntryOf(text) ==
    IF text.op = "MAP KEY"
    THEN NewMapping(text.mask, text.bits, "KEY", LookupKey(text.value))
    ELSE NewMapping(text.mask, text.bits, "COMMAND", text.value)

Maps(text) ==
    \/ text.op = "MAP KEY" /\ LookupKey(text.value) # NoKey
    \/ text.op = "MAP COMMAND"

\* What a line that is run once makes of a list: a MAP line for which there is
\* no memory has dropped the mapping with the same buttons.
Effect(list, text) ==
    LET i == FindMapping(list, text.mask)
        without == IF i = 0 THEN list ELSE RemoveMapping(list, i)
    IN  CASE Maps(text) -> IF Len(without) = Cardinality(Nodes) THEN without
                           ELSE MapMapping(list, EntryOf(text))
          [] text.op = "UNMAP" -> without
          [] text.op = "CLEAR" -> <<>>
          [] OTHER -> list

-----------------------------------------------------------------------------
(* parse_config_file: the reader goes on, or the file is given up, which   *)
(* the line that LOADs it does not notice.                                 *)

Done == /\ pc' = IF stack = <<>> THEN "idle" ELSE "read"
        /\ stack' = stack

\* Mutant of Failed: the reader goes on although no file is left.
FailedStillReads ==
    /\ stack' = IF stack = <<>> THEN <<>> ELSE Tail(stack)
    /\ pc' = "read"

Failed ==
    /\ stack' = IF stack = <<>> THEN <<>> ELSE Tail(stack)
    /\ pc' = IF Len(stack) <= 1 THEN "idle" ELSE "read"

\* How parse_config_line starts on a line.
RunText(text) ==
    /\ todo' = text
    /\ cur' = links.next[head]
    /\ nxt' = links.next[links.next[head]]
    /\ pc' = CASE Maps(text) \/ text.op = "UNMAP" -> "find"
               [] text.op = "CLEAR" -> "clear"
               [] OTHER -> "line"

FgetsLine ==
    LET file == Head(stack)
        text == Head(file.rest)
        eof == Len(file.rest) = 1 /\ ~file.ended
    IN  /\ pc = "read" /\ file.rest # <<>> /\ ~file.eof
        /\ stack' = <<[file EXCEPT !.rest = Tail(@), !.eof = eof]>> \o Tail(stack)
        /\ line' = Cut(text)
        /\ IF text.op = "COMMENT" THEN UNCHANGED <<todo, cur, nxt, pc>> ELSE RunText(text)
        /\ again' = FALSE
        /\ once' = Effect(once, text)
        /\ UNCHANGED <<heap, files, out, event, stale, saved, last, lines, crashes>>

\* Mutant of FgetsEnd: the whole last line is run again.
FgetsEndWhole ==
    LET file == Head(stack)
    IN  /\ pc = "read" /\ file.rest = <<>> /\ ~file.eof
        /\ stack' = <<[file EXCEPT !.eof = TRUE]>> \o Tail(stack)
        /\ RunText(todo)
        /\ again' = TRUE
        /\ UNCHANGED <<heap, files, line, out, event, history>>

\* Mutant of FgetsEnd: the end of the file is not noticed.
FgetsEndUnnoticed ==
    /\ pc = "read" /\ Head(stack).rest = <<>> /\ ~Head(stack).eof
    /\ IF line.op = "COMMENT" THEN UNCHANGED <<todo, cur, nxt, pc>> ELSE RunText(line)
    /\ again' = TRUE
    /\ UNCHANGED <<heap, reader, out, event, history>>

\* At the end of file fgets leaves the buffer as it is, and its first word is
\* run: of the last line of the file, and when the file is empty, of the line
\* that was read before.
FgetsEnd ==
    LET file == Head(stack)
    IN  /\ pc = "read" /\ file.rest = <<>> /\ ~file.eof
        /\ stack' = <<[file EXCEPT !.eof = TRUE]>> \o Tail(stack)
        /\ IF line.op = "COMMENT" THEN UNCHANGED <<todo, cur, nxt, pc>> ELSE RunText(line)
        /\ again' = TRUE
        /\ stale' = (stale \/ (line.op = "CLEAR" /\ once # <<>>))
        /\ UNCHANGED <<heap, files, line, out, event, once, saved, last, lines, crashes>>

FileEnd ==
    /\ pc = "read" /\ Head(stack).eof
    /\ stack' = Tail(stack)
    /\ pc' = IF Len(stack) = 1 THEN "idle" ELSE "read"
    /\ UNCHANGED <<heap, cur, nxt, files, line, todo, again, out, event, history>>

-----------------------------------------------------------------------------
(* parse_config_line: LOAD, KEY and the lines that leave the list alone.   *)

Load ==
    /\ pc = "line" /\ todo.op = "LOAD"
    /\ IF todo.file \in DOMAIN files /\ Len(stack) < MaxOpen
       THEN stack' = <<Opened(files[todo.file])>> \o stack /\ pc' = "read"
       ELSE Failed
    /\ UNCHANGED <<heap, cur, nxt, files, line, todo, again, out, event, history>>

SendKey ==
    /\ pc = "line" /\ todo.op = "KEY" /\ LookupKey(todo.value) # NoKey
    /\ event' = [asked |-> todo.value, sent |-> LookupKey(todo.value)]
    /\ Done
    /\ UNCHANGED <<heap, cur, nxt, files, line, todo, again, out, history>>

Accept ==
    /\ pc = "line"
    /\ todo.op = "NOP" \/ (todo.op = "SAVE" /\ todo.file = NoFile)
    /\ Done
    /\ UNCHANGED <<heap, cur, nxt, files, line, todo, again, out, event, history>>

\* A key that is not in the table, or a word that is no command, which "#" is
\* in a line from the FIFO: only the reader of a file skips comments.
Reject ==
    /\ pc = "line"
    /\ \/ todo.op \in {"BAD", "COMMENT"}
       \/ todo.op \in {"MAP KEY", "KEY"} /\ LookupKey(todo.value) = NoKey
    /\ Failed
    /\ UNCHANGED <<heap, cur, nxt, files, line, todo, again, out, event, history>>

-----------------------------------------------------------------------------
(* The loops over the list, one node at a step.                            *)

matched == pc = "find" /\ cur # head /\ entry[cur].mask = todo.mask

FindNext ==
    /\ pc = "find" /\ cur # head /\ ~matched
    /\ cur' = links.next[cur]
    /\ UNCHANGED <<heap, nxt, reader, todo, again, out, event, pc, history>>

FindNothing ==
    /\ pc = "find" /\ cur = head
    /\ cur' = links.next[head]
    /\ IF Maps(todo) THEN pc' = "insert" /\ UNCHANGED stack ELSE Failed
    /\ UNCHANGED <<heap, nxt, files, line, todo, again, out, event, history>>

\* Mutant of RemoveFound: the search for the place goes on from the freed node.
RemoveAndStay ==
    /\ matched
    /\ links' = ListDelete(links, cur)
    /\ entry' = [n \in used \ {cur} |-> entry[n]]
    /\ IF Maps(todo) THEN pc' = "insert" /\ UNCHANGED stack ELSE Done
    /\ UNCHANGED <<cur, nxt, files, line, todo, again, out, event, history>>

\* remove_mapping
RemoveFound ==
    /\ matched
    /\ links' = ListDelete(links, cur)
    /\ entry' = [n \in used \ {cur} |-> entry[n]]
    /\ cur' = links'.next[head]
    /\ IF Maps(todo) THEN pc' = "insert" /\ UNCHANGED stack ELSE Done
    /\ UNCHANGED <<nxt, files, line, todo, again, out, event, history>>

\* malloc comes before the loop; whether it fails does not change in the loop.
InsertFails ==
    /\ pc = "insert" /\ used = Nodes
    /\ Failed
    /\ UNCHANGED <<heap, cur, nxt, files, line, todo, again, out, event, history>>

InsertNext ==
    /\ pc = "insert" /\ used # Nodes /\ cur # head
    /\ entry[cur].bits > todo.bits
    /\ cur' = links.next[cur]
    /\ UNCHANGED <<heap, nxt, reader, todo, again, out, event, pc, history>>

\* Mutant of Insert: the list is not kept in order.
InsertAnywhere(new) ==
    /\ pc = "insert" /\ new \notin used
    /\ links' = ListAdd(links, new)
    /\ entry' = [n \in used \cup {new} |-> IF n = new THEN EntryOf(todo) ELSE entry[n]]
    /\ Done
    /\ UNCHANGED <<cur, nxt, files, line, todo, again, out, event, history>>

Insert(new) ==
    /\ pc = "insert" /\ new \notin used
    /\ cur # head => entry[cur].bits <= todo.bits
    /\ links' = IF cur = head THEN ListAdd(links, new)
                ELSE ListAddBetween(links, new, links.prev[cur], cur)
    /\ entry' = [n \in used \cup {new} |-> IF n = new THEN EntryOf(todo) ELSE entry[n]]
    /\ Done
    /\ UNCHANGED <<cur, nxt, files, line, todo, again, out, event, history>>

\* Mutant of ClearNext: the loop stops one short.
ClearNextKeepsLast ==
    /\ pc = "clear" /\ cur # head
    /\ IF nxt = head THEN Done /\ UNCHANGED <<links, entry, cur, nxt>>
       ELSE /\ links' = ListDelete(links, cur)
            /\ entry' = [n \in used \ {cur} |-> entry[n]]
            /\ cur' = nxt
            /\ nxt' = links'.next[nxt]
            /\ UNCHANGED <<stack, pc>>
    /\ UNCHANGED <<files, line, todo, again, out, event, history>>

\* clear_mapping_list
ClearNext ==
    /\ pc = "clear" /\ cur # head
    /\ links' = ListDelete(links, cur)
    /\ entry' = [n \in used \ {cur} |-> entry[n]]
    /\ cur' = nxt
    /\ nxt' = links'.next[nxt]
    /\ UNCHANGED <<reader, todo, again, out, event, pc, history>>

ClearEnd ==
    /\ pc = "clear" /\ cur = head
    /\ Done
    /\ UNCHANGED <<heap, cur, nxt, files, line, todo, again, out, event, history>>

-----------------------------------------------------------------------------
(* save_mapping_list.  What it prints stays in the buffer of the stream    *)
(* until it is closed.                                                     *)

SavedText(mapping) ==
    [op |-> IF mapping.type = "KEY" THEN "MAP KEY" ELSE "MAP COMMAND",
     mask |-> mapping.mask,
     bits |-> Cardinality(mapping.mask),
     value |-> IF mapping.type = "KEY" THEN KeycodeName(mapping.value) ELSE mapping.value,
     file |-> NoFile]

SaveStart ==
    /\ pc = "line" /\ todo.op = "SAVE" /\ todo.file # NoFile
    /\ \/ /\ files' = [f \in DOMAIN files \cup {todo.file} |->
                         IF f = todo.file THEN [texts |-> <<>>, ended |-> TRUE] ELSE files[f]]
          /\ out' = <<Text("CLEAR")>>
          /\ cur' = links.prev[head]
          /\ saved' = [f \in DOMAIN saved \ {todo.file} |-> saved[f]]
          /\ pc' = "save"
          /\ UNCHANGED stack
       \/ Failed /\ UNCHANGED <<files, out, cur, saved>>
    /\ UNCHANGED <<heap, nxt, line, todo, again, event, once, stale, last, lines, crashes>>

\* Mutant of SaveNext: the first mapping is saved first.
SaveNextForward ==
    /\ pc = "save" /\ cur # head
    /\ out' = <<Head(out), SavedText(entry[cur])>> \o Tail(out)
    /\ cur' = links.prev[cur]
    /\ UNCHANGED <<heap, nxt, reader, todo, again, event, pc, history>>

SaveNext ==
    /\ pc = "save" /\ cur # head
    /\ out' = Append(out, SavedText(entry[cur]))
    /\ cur' = links.prev[cur]
    /\ UNCHANGED <<heap, nxt, reader, todo, again, event, pc, history>>

SaveEnd ==
    /\ pc = "save" /\ cur = head
    /\ \/ /\ files' = [files EXCEPT ![todo.file] = [texts |-> out, ended |-> TRUE]]
          /\ saved' = [f \in DOMAIN saved \cup {todo.file} |->
                         IF f = todo.file THEN Listed ELSE saved[f]]
          /\ Done
       \/ Failed /\ UNCHANGED <<files, saved>>
    /\ out' = <<>>
    /\ UNCHANGED <<heap, cur, nxt, line, todo, again, event, once, stale, last, lines, crashes>>

-----------------------------------------------------------------------------
(* The daemon between the lines of the FIFO, and its start.                *)

FifoLine(text) ==
    /\ pc = "idle" /\ lines < MaxLines
    /\ RunText(text)
    /\ again' = FALSE
    /\ once' = Effect(once, text)
    /\ last' = IF text.op = "LOAD" THEN text.file ELSE NoFile
    /\ lines' = lines + 1
    /\ UNCHANGED <<heap, reader, out, event, stale, saved, crashes>>

Init ==
    /\ links = InitList /\ entry = <<>>
    /\ cur = head /\ nxt = head
    /\ files = Disk
    /\ stack = <<Opened(files[Boot])>>
    /\ line = Text("NOP") /\ todo = Text("NOP") /\ again = FALSE
    /\ out = <<>> /\ event = NoEvent /\ pc = "read"
    /\ once = <<>> /\ stale = FALSE /\ last = Boot
    /\ saved = <<>> /\ lines = 0 /\ crashes = 0

\* The process dies anywhere, and the daemon is started again: all is as at
\* first, but for the files.
Crash ==
    /\ crashes < MaxCrashes
    /\ crashes' = crashes + 1
    /\ links' = InitList /\ entry' = <<>>
    /\ cur' = head /\ nxt' = head
    /\ stack' = <<Opened(files[Boot])>>
    /\ line' = Text("NOP") /\ todo' = Text("NOP") /\ again' = FALSE
    /\ out' = <<>> /\ event' = NoEvent /\ pc' = "read"
    /\ once' = <<>> /\ stale' = FALSE /\ last' = Boot
    /\ UNCHANGED <<files, saved, lines>>

Find == FindNext \/ FindNothing \/ RemoveFound
Place == InsertFails \/ InsertNext \/ (\E new \in Nodes : Insert(new))
Clear == ClearNext \/ ClearEnd
Save == SaveStart \/ SaveNext \/ SaveEnd
Read == FgetsLine \/ FgetsEnd \/ FileEnd
Step == Read \/ Load \/ SendKey \/ Accept \/ Reject \/ Find \/ Place \/ Clear \/ Save

Next == Step \/ (\E text \in FifoLines : FifoLine(text)) \/ Crash

Spec == Init /\ [][Next]_vars

\* The daemon goes on while it has something to do.
FairSpec == Spec /\ WF_vars(Step)

-----------------------------------------------------------------------------
(* Properties.                                                             *)

\* The pointers lead to nodes or the head, and every step finds a line, files
\* and a mapping of the form that it works on.
TypeOK ==
    /\ links \in Links /\ cur \in Places /\ nxt \in Places
    /\ used \subseteq Nodes /\ \A n \in used : entry[n] \in Mappings
    /\ DOMAIN files \subseteq FileNames /\ Boot \in DOMAIN files
    /\ \A f \in DOMAIN files : files[f] \in Files
    /\ stack \in Seq([rest : Seq(Texts), ended : BOOLEAN, eof : BOOLEAN])
    /\ Len(stack) <= MaxOpen
    /\ line \in Texts /\ todo \in Texts /\ again \in BOOLEAN /\ out \in Seq(Texts)
    /\ pc \in {"idle", "read", "line", "find", "insert", "clear", "save"}
    /\ pc = "read" => stack # <<>>

\* After every step the allocated mappings are a ring with the head: each
\* loop macro visits all of them and ends, forward (apply_mapping's own loop
\* by next_mapping and last_mapping too) and backward in the reverse order.
\* A freed mapping is in none of them.
WellLinked ==
    LET forward == ForEach(links)
    IN  /\ Linked(links, used)
        /\ ToSet(forward) = used /\ Len(forward) = Cardinality(used)
        /\ ForEachPrev(links) = Reverse(forward)
        /\ ForEachMapping(links) = forward

\* A loop never stands on a freed mapping, although remove_mapping and
\* clear_mapping_list free the one they are at: list_for_each_safe has gone on
\* to the next one before.
NoDangling ==
    /\ pc \in {"find", "insert", "clear", "save"} => cur \in used \cup {head}
    /\ pc = "clear" => nxt = links.next[cur]

\* Between lines the list is what the lines make that were read, each run
\* once: whatever file LOADs which, whatever the shared buffer held, whether
\* there was memory, and although the end of each file runs a line again.  (An
\* empty file may run the CLEAR of another file.)
EachLineOnce == pc \in {"idle", "read"} /\ ~stale => Listed = once

\* The line that is left in the buffer at the end of a file changes no mapping
\* and sends no key when it is run again.
RereadHarmless == [][again /\ again' /\ ~stale => UNCHANGED <<entry, event>>]_vars

\* Saved as lines, the mapping is read back as it was.
Restorable(list) ==
    /\ Sorted(list)
    /\ \A i \in DOMAIN list :
          /\ list[i].bits = Cardinality(list[i].mask)
          /\ list[i].type = "KEY" => SavedKey(list[i].value) = list[i].value

\* A file that SAVE wrote to its end and that is then read, by LOAD or by the
\* start after a crash, makes the list that was saved, in the same order.
LoadRestores ==
    pc = "idle" /\ last \in DOMAIN saved /\ Restorable(saved[last]) => Listed = saved[last]

\* The pointers, the loops over them and the heap are a list that changes by
\* whole mappings only.
Store == INSTANCE MappingStore WITH list <- Listed, Entries <- Mappings
StoreSpec == Store!Spec

\* Every line comes to an end, also one that LOADs a file that LOADs itself.
LinesEnd == pc # "idle" ~> pc = "idle"

\* A key event has the code of the key in the line ("Send a key down event
\* with the given keycode", "Lookup a key code from a token").
KeyAsAsked == event # NoEvent => event.sent = CodeOf(event.asked)
=============================================================================
