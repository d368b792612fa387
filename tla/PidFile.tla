------------------------------ MODULE PidFile ------------------------------
(***************************************************************************)
(* The life cycle of the fkgpiod processes (main.c, daemon.c): several are *)
(* started with -d or with -k, and share one pid file, the exported GPIOs  *)
(* and the FIFO, which all outlive the process that made them.             *)
(*                                                                         *)
(* A process is a daemon from the second fork of daemonize on; its pid is  *)
(* its name.  Every process opens the file at most once, so the file it    *)
(* may create carries its name too.  A lockf lock belongs to a file, not   *)
(* to a path, and ends when its process closes the file or ends.           *)
(***************************************************************************)
EXTENDS Naturals, FiniteSets

CONSTANTS
    Daemons,      \* the processes started with -d
    Killers,      \* the processes started with -k
    None,         \* no file, no process
    MaxCrashes    \* bound on the processes that die at any point

ASSUME ProcAssumption == Daemons \cap Killers = {} /\ None \notin Daemons \cup Killers
ASSUME CrashAssumption == MaxCrashes \in Nat

VARIABLES
    path,       \* the file that the path of the pid file names
    holder,     \* the process that has the lock of a file
    content,    \* the pid in a file
    fd,         \* pid_fd: the file a process has open
    pc,         \* where a process is
    victim,     \* pid of kill_daemon: what a -k process has read
    pending,    \* the processes with a pending SIGTERM
    unclean,    \* a daemon died without its handler: a crash, a failed init
    crashes,
    exported,   \* the GPIOs that are exported: nobody takes that back
    fifo,       \* the FIFO exists: nobody removes it
    keyboards,  \* the processes that have a uinput device
    watched,    \* the GPIOs a process has open: fd_pcal6416a, fd_axp209
    faulty      \* the processes that met an error while they initialised

files == <<path, holder, content>>
history == <<unclean, crashes>>
startup == <<exported, fifo, keyboards, watched, faulty>>
vars == <<files, fd, pc, victim, pending, history, startup>>

\* GPIO_PIN_I2C_EXPANDER_INTERRUPT and GPIO_PIN_AXP209_INTERRUPT.
Pins == {"expander", "axp209"}

Procs == Daemons \cup Killers
Move(p, place) == pc' = [pc EXCEPT ![p] = place]

\* A step of a start that works, or that meets an error of the system.
Works(p, to) == Move(p, to) /\ UNCHANGED faulty
Error(p, to) == Move(p, to) /\ faulty' = faulty \cup {p}
NotStarted == <<exported, fifo, keyboards, watched>>

\* The kernel releases the lock of a process that closes its file or ends.
Unlocked(p) == [f \in Procs |-> IF holder[f] = p THEN None ELSE holder[f]]

-----------------------------------------------------------------------------
(* A process started with -d.                                              *)

\* Mutant of Open: with O_EXCL, a file that is there stops the start.
OpenNew(p) ==
    /\ pc[p] = "open"
    /\ IF path = None
       THEN /\ path' = p
            /\ fd' = [fd EXCEPT ![p] = p]
            /\ Move(p, "lock")
       ELSE UNCHANGED <<path, fd>> /\ Move(p, "exit")
    /\ UNCHANGED <<holder, content, victim, pending, history, startup>>

\* open(pidfile, O_RDWR | O_CREAT): the file that is there, or a new one.
Open(p) ==
    /\ pc[p] = "open"
    /\ IF path = None
       THEN /\ path' = p
            /\ fd' = [fd EXCEPT ![p] = p]
       ELSE /\ fd' = [fd EXCEPT ![p] = path]
            /\ UNCHANGED path
    /\ Move(p, "lock")
    /\ UNCHANGED <<holder, content, victim, pending, history, startup>>

OpenError(p) ==
    /\ pc[p] = "open"
    /\ Error(p, "exit")
    /\ UNCHANGED <<files, fd, victim, pending, history, NotStarted>>

\* Mutant of Lock: the result of lockf is not looked at.
LockAnyway(p) ==
    /\ pc[p] = "lock"
    /\ Move(p, "write")
    /\ holder' = IF holder[fd[p]] = None THEN [holder EXCEPT ![fd[p]] = p] ELSE holder
    /\ UNCHANGED <<path, content, fd, victim, pending, history, startup>>

\* Mutant of Lock: F_LOCK waits for the lock.
LockWaits(p) ==
    /\ pc[p] = "lock"
    /\ holder[fd[p]] = None
    /\ holder' = [holder EXCEPT ![fd[p]] = p]
    /\ Move(p, "write")
    /\ UNCHANGED <<path, content, fd, victim, pending, history, startup>>

\* lockf(pid_fd, F_TLOCK): a daemon that does not get the lock unlinks the
\* path, whatever it names now, and exits.
Lock(p) ==
    /\ pc[p] = "lock"
    /\ IF holder[fd[p]] = None
       THEN holder' = [holder EXCEPT ![fd[p]] = p] /\ Move(p, "write")
       ELSE UNCHANGED holder /\ Move(p, "unlink")
    /\ UNCHANGED <<path, content, fd, victim, pending, history, startup>>

\* Mutant of Write: the pid is not written.
WriteNothing(p) ==
    /\ pc[p] = "write"
    /\ Move(p, "uinput")
    /\ UNCHANGED <<files, fd, victim, pending, history, startup>>

\* The pid is written, or that fails and the path is unlinked.
Write(p) ==
    /\ pc[p] = "write"
    /\ \/ content' = [content EXCEPT ![fd[p]] = p] /\ Works(p, "uinput")
       \/ UNCHANGED content /\ Error(p, "unlink")
    /\ UNCHANGED <<path, holder, fd, victim, pending, history, NotStarted>>

-----------------------------------------------------------------------------
(* init_uinput and init_gpio_mapping: each step works, or meets an error.  *)

\* The places of a daemon that has got through daemonize.
Initialising == {"uinput", "config", "probe", "watch_expander", "power",
                 "watch_axp209", "mkfifo", "fifo"}
UpPlaces == Initialising \cup {"run", "close"}

NotFiles == <<files, fd, victim, pending, history>>

\* init_uinput: main does not look at its result.
InitUinput(p) ==
    /\ pc[p] = "uinput"
    /\ \/ Works(p, "config") /\ keyboards' = keyboards \cup {p}
       \/ Error(p, "config") /\ UNCHANGED keyboards
    /\ UNCHANGED <<NotFiles, exported, fifo, watched>>

\* What only works or fails: the configuration file, the probe of the two
\* addresses of the expander, the bus access of the AXP209.
Attempt(p, from, to) ==
    /\ pc[p] = from
    /\ Works(p, to) \/ Error(p, "close")
    /\ UNCHANGED <<NotFiles, exported, fifo, keyboards, watched>>

ReadConfig(p) == Attempt(p, "config", "probe")
ProbeExpander(p) == Attempt(p, "probe", "watch_expander")
InitAxp(p) == Attempt(p, "power", "watch_axp209")

\* gpio_export: it does not look at the result of its write, which fails if
\* the GPIO is exported already.
Export(pin) == exported' = exported \cup {pin}

\* gpio_fd_open
OpenPin(p, pin) == watched' = [watched EXCEPT ![p] = @ \cup {pin}]

\* Mutant of WatchPin: the export of an exported GPIO, EBUSY, is an error.
WatchPinOnce(p, pin, from, to) ==
    /\ pc[p] = from
    /\ Export(pin)
    /\ IF pin \in exported THEN UNCHANGED watched ELSE OpenPin(p, pin)
    /\ Works(p, to)
    /\ UNCHANGED <<NotFiles, fifo, keyboards>>

\* init_gpio_interrupt: export, edge, open.  init_gpio_mapping does not look
\* at the result.
WatchPin(p, pin, from, to) ==
    /\ pc[p] = from
    /\ \/ Export(pin) /\ OpenPin(p, pin) /\ Works(p, to)
       \/ /\ UNCHANGED exported \/ Export(pin)
          /\ UNCHANGED watched
          /\ Error(p, to)
    /\ UNCHANGED <<NotFiles, fifo, keyboards>>

\* Mutant of MakeFifo: EEXIST is an error.
MakeFifoOnce(p) ==
    /\ pc[p] = "mkfifo"
    /\ Works(p, IF fifo THEN "close" ELSE "fifo")
    /\ fifo' = TRUE
    /\ UNCHANGED <<NotFiles, exported, keyboards, watched>>

\* mkfifo: a FIFO that exists is as good as a new one.
MakeFifo(p) ==
    /\ pc[p] = "mkfifo"
    /\ \/ Works(p, "fifo") /\ fifo' = TRUE
       \/ ~fifo /\ Error(p, "close") /\ UNCHANGED fifo
    /\ UNCHANGED <<NotFiles, exported, keyboards, watched>>

OpenFifo(p) == Attempt(p, "fifo", "run")

\* main gives up: the uinput device is destroyed, the pid file stays.
CloseUinput(p) ==
    /\ pc[p] = "close"
    /\ keyboards' = keyboards \ {p}
    /\ unclean' = TRUE
    /\ Move(p, "exit")
    /\ UNCHANGED <<files, fd, victim, pending, crashes, exported, fifo, watched, faulty>>

InitMain(p) ==
    \/ InitUinput(p) \/ ReadConfig(p) \/ ProbeExpander(p)
    \/ WatchPin(p, "expander", "watch_expander", "power")
    \/ InitAxp(p)
    \/ WatchPin(p, "axp209", "watch_axp209", "mkfifo")
    \/ MakeFifo(p) \/ OpenFifo(p) \/ CloseUinput(p)

-----------------------------------------------------------------------------
(* The signal handler.                                                     *)

\* Mutant of Terminate: the handler does not unlink.
TerminateKeepsFile(p) ==
    /\ p \in pending
    /\ pc[p] \in UpPlaces
    /\ pending' = pending \ {p}
    /\ holder' = Unlocked(p)
    /\ Move(p, "exit")
    /\ UNCHANGED <<path, content, fd, victim, history, startup>>

\* Mutant of Terminate: the handler does nothing.
TerminateIgnored(p) ==
    /\ p \in pending
    /\ pc[p] \in UpPlaces
    /\ pending' = pending \ {p}
    /\ UNCHANGED <<files, fd, pc, victim, history, startup>>

\* The SIGTERM handler closes the file, which ends the lock...
Terminate(p) ==
    /\ p \in pending
    /\ pc[p] \in UpPlaces
    /\ pending' = pending \ {p}
    /\ holder' = Unlocked(p)
    /\ Move(p, "unlink")
    /\ UNCHANGED <<path, content, fd, victim, history, startup>>

\* ...then unlinks the path, whatever file it names by now, and exits.
Unlink(p) ==
    /\ pc[p] = "unlink"
    /\ path' = None
    /\ Move(p, "exit")
    /\ UNCHANGED <<holder, content, fd, victim, pending, history, startup>>

-----------------------------------------------------------------------------
(* A process started with -k: kill_daemon.                                 *)

\* Mutant of OpenToKill: the result of open is not looked at.
OpenToKillUnchecked(p) ==
    /\ pc[p] = "kopen"
    /\ fd' = [fd EXCEPT ![p] = path]
    /\ Move(p, "kread")
    /\ UNCHANGED <<files, victim, pending, history, startup>>

OpenToKill(p) ==
    /\ pc[p] = "kopen"
    /\ fd' = [fd EXCEPT ![p] = path]
    /\ Move(p, IF path = None THEN "exit" ELSE "kread")
    /\ UNCHANGED <<files, victim, pending, history, startup>>

ReadPid(p) ==
    /\ pc[p] = "kread"
    /\ victim' = [victim EXCEPT ![p] = content[fd[p]]]
    /\ Move(p, IF content[fd[p]] = None THEN "exit" ELSE "kill")
    /\ UNCHANGED <<files, fd, pending, history, startup>>

\* Mutant of Kill: SIGHUP, which the handler only logs.
KillHup(p) ==
    /\ pc[p] = "kill"
    /\ Move(p, "exit")
    /\ UNCHANGED <<files, fd, victim, pending, history, startup>>

\* kill(pid, SIGTERM) fails if no process has that pid.
Kill(p) ==
    /\ pc[p] = "kill"
    /\ pending' = IF pc[victim[p]] = "dead" THEN pending ELSE pending \cup {victim[p]}
    /\ Move(p, "exit")
    /\ UNCHANGED <<files, fd, victim, history, startup>>

-----------------------------------------------------------------------------
(* The kernel.                                                             *)

\* What ends with a process: its descriptors, its lock, its device, its signals.
Gone(p) ==
    /\ holder' = Unlocked(p)
    /\ fd' = [fd EXCEPT ![p] = None]
    /\ watched' = [watched EXCEPT ![p] = {}]
    /\ keyboards' = keyboards \ {p}
    /\ pending' = pending \ {p}
    /\ faulty' = faulty \ {p}
    /\ Move(p, "dead")
    /\ UNCHANGED <<path, content, victim, exported, fifo>>

Exit(p) ==
    /\ pc[p] = "exit"
    /\ Gone(p)
    /\ UNCHANGED history

Start(p) ==
    /\ pc[p] = "idle"
    /\ Move(p, IF p \in Daemons THEN "open" ELSE "kopen")
    /\ UNCHANGED <<files, fd, victim, pending, history, startup>>

\* A process dies by a signal that it does not handle.
Crash(p) ==
    /\ pc[p] \notin {"idle", "dead"}
    /\ crashes < MaxCrashes
    /\ crashes' = crashes + 1
    /\ unclean' = TRUE
    /\ Gone(p)

-----------------------------------------------------------------------------
Init ==
    /\ path = None
    /\ holder = [f \in Procs |-> None]
    /\ content = [f \in Procs |-> None]
    /\ fd = [p \in Procs |-> None]
    /\ pc = [p \in Procs |-> "idle"]
    /\ victim = [p \in Procs |-> None]
    /\ pending = {}
    /\ unclean = FALSE /\ crashes = 0
    /\ exported = {} /\ fifo = FALSE
    /\ keyboards = {} /\ faulty = {}
    /\ watched = [p \in Procs |-> {}]

Daemonize(p) == Open(p) \/ OpenError(p) \/ Lock(p) \/ Write(p)
Handler(p) == Terminate(p) \/ Unlink(p)
KillDaemon(p) == OpenToKill(p) \/ ReadPid(p) \/ Kill(p)
Step(p) == Daemonize(p) \/ InitMain(p) \/ Handler(p) \/ KillDaemon(p) \/ Exit(p)
Kernel(p) == Start(p) \/ Crash(p)

Next == \E p \in Procs : Step(p) \/ Kernel(p)

Spec == Init /\ [][Next]_vars

\* A process that can take a step is scheduled, and signals are delivered.
FairSpec == Spec /\ \A p \in Procs : WF_vars(Step(p))

-----------------------------------------------------------------------------
(* Properties.                                                             *)

Places == UpPlaces \cup {"idle", "open", "lock", "write", "unlink", "exit",
                         "dead", "kopen", "kread", "kill"}
Opened == UpPlaces \cup {"lock", "write", "kread"}

\* Every variable keeps its type; a process between its open and its exit
\* has a file, and one about to kill has a pid.
TypeOK ==
    /\ path \in Procs \cup {None}
    /\ holder \in [Procs -> Procs \cup {None}]
    /\ content \in [Procs -> Procs \cup {None}]
    /\ fd \in [Procs -> Procs \cup {None}]
    /\ pc \in [Procs -> Places]
    /\ victim \in [Procs -> Procs \cup {None}]
    /\ pending \in SUBSET Procs
    /\ unclean \in BOOLEAN
    /\ crashes \in 0..MaxCrashes
    /\ exported \in SUBSET Pins
    /\ fifo \in BOOLEAN
    /\ keyboards \in SUBSET Procs
    /\ watched \in [Procs -> SUBSET Pins]
    /\ faulty \in SUBSET Procs
    /\ \A p \in Procs : pc[p] \in Opened => fd[p] # None
    /\ \A p \in Procs : pc[p] = "kill" => victim[p] # None

Up == {p \in Daemons : pc[p] \in UpPlaces}

\* A daemon that has got through daemonize holds the lock of its file, and
\* that file has its pid and no other: who finds the file finds the daemon.
OwnsItsFile == \A p \in Up : holder[fd[p]] = p /\ content[fd[p]] = p

\* Only one daemon runs at a time.
OneDaemon == \A p, q \in Up : p = q

\* When all processes have ended and each daemon that came up was terminated
\* by its handler, no pid file is left behind.
NoStaleFile ==
    (\A p \in Procs : pc[p] \in {"idle", "dead"}) /\ ~unclean => path = None

\* What earlier daemons left behind, exported GPIOs and the FIFO, stops no
\* start: a daemon that meets no error of its own does not give up, and when
\* it runs it has its keyboard and watches both interrupts.
RestartWorks ==
    \A p \in Up \ faulty :
        /\ pc[p] # "close"
        /\ pc[p] = "run" => p \in keyboards /\ watched[p] = Pins

\* A start that does not come up has met an error of its own or a file that a
\* living process has locked: the file of a daemon that crashed or gave up, with
\* its dead pid in it, stops nobody.
RefusedByTheLiving ==
    [][\A p \in Daemons :
          pc[p] \in {"open", "lock", "write"} /\ pc'[p] \in {"exit", "unlink"} =>
              \/ p \in faulty'
              \/ /\ pc[p] = "lock"
                 /\ \E q \in Procs \ {p} :
                       holder[fd[p]] = q /\ pc[q] \notin {"idle", "dead"}]_vars

\* A -k that has opened the file of a daemon that is up ends this daemon, unless
\* a process crashes meanwhile.
KillEnds ==
    \A k \in Killers, p \in Daemons, c \in 0..MaxCrashes :
        pc[k] = "kread" /\ p \in Up /\ fd[k] = fd[p] /\ crashes = c
            ~> pc[p] = "dead" \/ crashes > c

\* A daemon that is sent a SIGTERM ends, and no start waits for ever.
SignalEnds == \A p \in Procs : p \in pending ~> pc[p] = "dead"
StartEnds == \A p \in Procs : pc[p] # "idle" ~> pc[p] \in {"run", "dead"}
=============================================================================
