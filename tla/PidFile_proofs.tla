--------------------------- MODULE PidFile_proofs ---------------------------
(***************************************************************************)
(* Proofs about PidFile, for any number of daemons and kill commands.      *)
(***************************************************************************)
EXTENDS PidFile, TLAPS

(***************************************************************************)
(* The steps of the initialisation: they leave the pid file alone, and move*)
(* a daemon that is up to another place of a daemon that is up, until it   *)
(* gives up.                                                               *)
(***************************************************************************)
LEMMA InitMove ==
    ASSUME NEW p \in Procs, InitMain(p)
    PROVE  /\ pc[p] \in UpPlaces
           /\ \E to \in UpPlaces \cup {"exit"} : pc' = [pc EXCEPT ![p] = to]
<1> USE DEF UpPlaces, Initialising, Move, Works, Error
<1>1. CASE InitUinput(p)
  BY <1>1 DEF InitUinput
<1>2. CASE ReadConfig(p) \/ ProbeExpander(p) \/ InitAxp(p) \/ OpenFifo(p)
  BY <1>2 DEF ReadConfig, ProbeExpander, InitAxp, OpenFifo, Attempt
<1>3. CASE WatchPin(p, "expander", "watch_expander", "power")
  BY <1>3 DEF WatchPin
<1>4. CASE WatchPin(p, "axp209", "watch_axp209", "mkfifo")
  BY <1>4 DEF WatchPin
<1>5. CASE MakeFifo(p)
  BY <1>5 DEF MakeFifo
<1>6. CASE CloseUinput(p)
  BY <1>6 DEF CloseUinput
<1> QED
  BY <1>1, <1>2, <1>3, <1>4, <1>5, <1>6 DEF InitMain

LEMMA InitFrame ==
    ASSUME TypeOK, NEW p \in Procs, InitMain(p)
    PROVE  /\ UNCHANGED <<files, fd, victim, pending, crashes>>
           /\ unclean' \in BOOLEAN /\ fifo' \in BOOLEAN
           /\ exported' \in SUBSET Pins /\ keyboards' \in SUBSET Procs
           /\ watched' \in [Procs -> SUBSET Pins] /\ faulty' \in SUBSET Procs
<1> USE DEF TypeOK, NotFiles, history, Works, Error
<1>1. CASE InitUinput(p)
  BY <1>1 DEF InitUinput
<1>2. CASE ReadConfig(p) \/ ProbeExpander(p) \/ InitAxp(p) \/ OpenFifo(p)
  BY <1>2 DEF ReadConfig, ProbeExpander, InitAxp, OpenFifo, Attempt
<1>3. ASSUME NEW pin \in Pins, NEW from, NEW to, WatchPin(p, pin, from, to)
      PROVE  /\ UNCHANGED <<files, fd, victim, pending, unclean, crashes, fifo, keyboards>>
             /\ exported' \in SUBSET Pins /\ faulty' \in SUBSET Procs
             /\ watched' \in [Procs -> SUBSET Pins]
  <2>1. UNCHANGED <<files, fd, victim, pending, unclean, crashes, fifo, keyboards>>
    BY <1>3 DEF WatchPin, Export, OpenPin
  <2>2. exported' \in SUBSET Pins /\ faulty' \in SUBSET Procs
    BY <1>3 DEF WatchPin, Export, OpenPin
  <2>3. watched' = watched \/ watched' = [watched EXCEPT ![p] = @ \cup {pin}]
    BY <1>3 DEF WatchPin, Export, OpenPin
  <2>4. watched' \in [Procs -> SUBSET Pins]
    BY <2>3
  <2> QED
    BY <2>1, <2>2, <2>4
<1>5. CASE MakeFifo(p)
  BY <1>5 DEF MakeFifo
<1>6. CASE CloseUinput(p)
  BY <1>6 DEF CloseUinput
<1> QED
  BY <1>1, <1>2, <1>3, <1>5, <1>6 DEF InitMain, Pins

LEMMA InitPlaces ==
    ASSUME TypeOK, NEW p \in Procs, InitMain(p)
    PROVE  /\ pc' \in [Procs -> Places]
           /\ \A q \in Procs : pc'[q] \in Opened => fd[q] # None
           /\ \A q \in Procs : pc'[q] = "kill" => victim[q] # None
<1>1. pc \in [Procs -> Places] /\ pc[p] \in UpPlaces
  BY InitMove DEF TypeOK
<1>2. PICK to \in UpPlaces \cup {"exit"} : pc' = [pc EXCEPT ![p] = to]
  BY InitMove
<1>3. to # "kill" /\ (to \in Opened => pc[p] \in Opened)
  BY <1>1 DEF UpPlaces, Initialising, Opened
<1> QED
  BY <1>1, <1>2, <1>3 DEF TypeOK, Places

(***************************************************************************)
(* The type invariant is inductive on its own: the only actions that use a *)
(* file are those of a process that has opened it (daemonize, kill_daemon).*)
(***************************************************************************)
LEMMA TypeStep == TypeOK /\ [Next]_vars => TypeOK'
<1> SUFFICES ASSUME TypeOK, [Next]_vars PROVE TypeOK'
  OBVIOUS
<1> USE ProcAssumption, CrashAssumption
        DEF TypeOK, Places, UpPlaces, Initialising, Opened, Procs, Move, files, history, startup
<1>1. CASE \E p \in Procs : Daemonize(p)
  <2> PICK p \in Procs : Daemonize(p)
    BY <1>1
  <2>1. CASE Open(p)
    BY <2>1 DEF Open
  <2>2. CASE OpenError(p)
    BY <2>2 DEF OpenError, Error, NotStarted
  <2>3. CASE Lock(p)
    BY <2>3 DEF Lock
  <2>4. CASE Write(p)
    BY <2>4 DEF Write, Works, Error, NotStarted
  <2> QED
    BY <2>1, <2>2, <2>3, <2>4 DEF Daemonize
<1>2. CASE \E p \in Procs : InitMain(p)
  <2> PICK p \in Procs : InitMain(p)
    BY <1>2
  <2>1. /\ UNCHANGED <<files, fd, victim, pending, crashes>>
        /\ unclean' \in BOOLEAN /\ fifo' \in BOOLEAN
        /\ exported' \in SUBSET Pins /\ keyboards' \in SUBSET Procs
        /\ watched' \in [Procs -> SUBSET Pins] /\ faulty' \in SUBSET Procs
    BY InitFrame
  <2>2. /\ pc' \in [Procs -> Places]
        /\ \A q \in Procs : pc'[q] \in Opened => fd[q] # None
        /\ \A q \in Procs : pc'[q] = "kill" => victim[q] # None
    BY InitPlaces
  <2> QED
    BY <2>1, <2>2
<1>3. CASE \E p \in Procs : Handler(p)
  BY <1>3 DEF Handler, Terminate, Unlink, Unlocked
<1>4. CASE \E p \in Procs : KillDaemon(p)
  <2> PICK p \in Procs : KillDaemon(p)
    BY <1>4
  <2>1. CASE OpenToKill(p)
    BY <2>1 DEF OpenToKill
  <2>2. CASE ReadPid(p)
    BY <2>2 DEF ReadPid
  <2>3. CASE Kill(p)
    BY <2>3 DEF Kill
  <2> QED
    BY <2>1, <2>2, <2>3 DEF KillDaemon
<1>5. CASE \E p \in Procs : Exit(p)
  BY <1>5 DEF Exit, Gone, Unlocked
<1>6. CASE \E p \in Procs : Kernel(p)
  <2> PICK p \in Procs : Kernel(p)
    BY <1>6
  <2>1. CASE Start(p)
    BY <2>1 DEF Start
  <2>2. CASE Crash(p)
    BY <2>2 DEF Crash, Gone, Unlocked
  <2> QED
    BY <2>1, <2>2 DEF Kernel
<1>7. CASE UNCHANGED vars
  BY <1>7 DEF vars
<1> QED
  BY <1>1, <1>2, <1>3, <1>4, <1>5, <1>6, <1>7 DEF Next, Step

\* Every process keeps to its places, with a file from its open on.
THEOREM TypeCorrect == Spec => []TypeOK
<1>1. Init => TypeOK
  <2> SUFFICES ASSUME Init PROVE TypeOK
    OBVIOUS
  <2>1. unclean \in BOOLEAN /\ fifo \in BOOLEAN
    BY DEF Init
  <2> QED
    BY <2>1, ProcAssumption, CrashAssumption
       DEF Init, TypeOK, Places, UpPlaces, Initialising, Opened, Procs
<1> QED
  BY <1>1, TypeStep, PTL DEF Spec

-----------------------------------------------------------------------------
(***************************************************************************)
(* The inductive form of OwnsItsFile: a process has the lock of its file   *)
(* from lockf on until its handler, and its pid in it from the write on.   *)
(* A file that is locked can be locked and written by nobody else.         *)
(***************************************************************************)
LockInv ==
    \A p \in Procs :
        /\ pc[p] \in UpPlaces \cup {"write"} => holder[fd[p]] = p
        /\ pc[p] \in UpPlaces => content[fd[p]] = p

LEMMA LockStep == TypeOK /\ LockInv /\ [Next]_vars => LockInv'
<1> SUFFICES ASSUME TypeOK, LockInv, [Next]_vars, NEW q \in Procs
             PROVE  /\ pc'[q] \in UpPlaces \cup {"write"} => holder'[fd'[q]] = q
                    /\ pc'[q] \in UpPlaces => content'[fd'[q]] = q
  BY DEF LockInv
<1> USE ProcAssumption DEF TypeOK, LockInv, Opened, Procs, Move, files, history, startup
<1>1. CASE \E p \in Procs : Daemonize(p)
  <2> PICK p \in Procs : Daemonize(p)
    BY <1>1
  <2> USE DEF UpPlaces, Initialising
  <2>1. CASE Open(p)
    BY <2>1 DEF Open
  <2>2. CASE OpenError(p)
    BY <2>2 DEF OpenError, Error, NotStarted
  <2>3. CASE Lock(p)
    BY <2>3 DEF Lock
  <2>4. CASE Write(p)
    BY <2>4 DEF Write, Works, Error, NotStarted
  <2> QED
    BY <2>1, <2>2, <2>3, <2>4 DEF Daemonize
<1>2. CASE \E p \in Procs : InitMain(p)
  <2> PICK p \in Procs : InitMain(p)
    BY <1>2
  <2>1. UNCHANGED <<holder, content, fd>>
    BY InitFrame
  <2>2. pc[p] \in UpPlaces /\ \E to \in UpPlaces \cup {"exit"} : pc' = [pc EXCEPT ![p] = to]
    BY InitMove
  <2> QED
    BY <2>1, <2>2
<1>3. CASE \E p \in Procs : Handler(p)
  BY <1>3 DEF Handler, Terminate, Unlink, Unlocked, UpPlaces, Initialising
<1>4. CASE \E p \in Procs : KillDaemon(p)
  BY <1>4 DEF KillDaemon, OpenToKill, ReadPid, Kill, UpPlaces, Initialising
<1>5. CASE \E p \in Procs : Exit(p)
  BY <1>5 DEF Exit, Gone, Unlocked, UpPlaces, Initialising
<1>6. CASE \E p \in Procs : Kernel(p)
  BY <1>6 DEF Kernel, Start, Crash, Gone, Unlocked, UpPlaces, Initialising
<1>7. CASE UNCHANGED vars
  BY <1>7 DEF vars
<1> QED
  BY <1>1, <1>2, <1>3, <1>4, <1>5, <1>6, <1>7 DEF Next, Step

\* A daemon that came up has the lock of a file with its pid, however many
\* others are started, killed and crash meanwhile: two daemons that run at
\* the same time have two different files.
THEOREM OwnFile == Spec => []OwnsItsFile
<1>1. Init => LockInv
  BY DEF Init, LockInv, UpPlaces, Initialising
<1>2. LockInv => OwnsItsFile
  BY DEF LockInv, OwnsItsFile, Up, Procs
<1> QED
  BY <1>1, <1>2, LockStep, TypeCorrect, PTL DEF Spec

-----------------------------------------------------------------------------
(***************************************************************************)
(* The inductive form of NoStaleFile: while nobody died without cleaning   *)
(* up, a pid file that is there has a process on its way to unlink it.     *)
(***************************************************************************)
Unlinkers == {p \in Procs : pc[p] \in UpPlaces \cup {"lock", "write", "unlink"}}
FileInv == path # None /\ ~unclean => Unlinkers # {}

LEMMA FileStep == TypeOK /\ FileInv /\ [Next]_vars => FileInv'
<1> SUFFICES ASSUME TypeOK, FileInv, [Next]_vars, path' # None, ~unclean'
             PROVE  \E q \in Procs : pc'[q] \in UpPlaces \cup {"lock", "write", "unlink"}
  BY DEF FileInv, Unlinkers
<1> DEFINE Busy == UpPlaces \cup {"lock", "write", "unlink"}
<1> USE DEF TypeOK, FileInv, Unlinkers, Move, files, history, startup
<1>0. path # None /\ ~unclean => \E q \in Procs : pc[q] \in Busy
  OBVIOUS
<1>1. CASE \E p \in Procs : Daemonize(p)
  <2> PICK p \in Procs : Daemonize(p)
    BY <1>1
  <2>1. CASE Open(p)
    BY <2>1 DEF Open
  <2>2. CASE OpenError(p)
    BY <2>2, <1>0 DEF OpenError, Error, NotStarted, UpPlaces, Initialising
  <2>3. CASE Lock(p)
    BY <2>3 DEF Lock
  <2>4. CASE Write(p)
    BY <2>4 DEF Write, Works, Error, NotStarted, UpPlaces, Initialising
  <2> QED
    BY <2>1, <2>2, <2>3, <2>4 DEF Daemonize
<1>2. CASE \E p \in Procs : InitMain(p)
  <2> PICK p \in Procs : InitMain(p)
    BY <1>2
  <2>1. CASE CloseUinput(p)
    BY <2>1 DEF CloseUinput
  <2>2. CASE ~CloseUinput(p)
    <3>1. PICK to \in UpPlaces : pc' = [pc EXCEPT ![p] = to]
      BY <2>2 DEF InitMain, InitUinput, ReadConfig, ProbeExpander, InitAxp, OpenFifo, Attempt,
                  WatchPin, MakeFifo, Works, Error, UpPlaces, Initialising
    <3> QED
      BY <3>1
  <2> QED
    BY <2>1, <2>2
<1>3. CASE \E p \in Procs : Handler(p)
  BY <1>3 DEF Handler, Terminate, Unlink
<1>4. CASE \E p \in Procs : KillDaemon(p)
  <2>1. path # None /\ ~unclean
    BY <1>4 DEF KillDaemon, OpenToKill, ReadPid, Kill
  <2>2. PICK q \in Procs : pc[q] \in Busy
    BY <2>1, <1>0
  <2> QED
    BY <1>4, <2>2 DEF KillDaemon, OpenToKill, ReadPid, Kill, UpPlaces, Initialising
<1>5. CASE \E p \in Procs : Exit(p)
  BY <1>5, <1>0 DEF Exit, Gone, UpPlaces, Initialising
<1>6. CASE \E p \in Procs : Kernel(p)
  <2> PICK p \in Procs : Kernel(p)
    BY <1>6
  <2>1. CASE Start(p)
    BY <2>1, <1>0 DEF Start, UpPlaces, Initialising
  <2>2. CASE Crash(p)
    BY <2>2 DEF Crash
  <2> QED
    BY <2>1, <2>2 DEF Kernel
<1>7. CASE UNCHANGED vars
  BY <1>7, <1>0 DEF vars
<1> QED
  BY <1>1, <1>2, <1>3, <1>4, <1>5, <1>6, <1>7 DEF Next, Step

\* When all have ended and none died without its handler, the path is free:
\* of however many starts, each that may have made the file unlinks the path.
THEOREM NoFileIsLeft == Spec => []NoStaleFile
<1>1. Init => FileInv
  BY DEF Init, FileInv
<1>2. FileInv => NoStaleFile
  BY DEF FileInv, Unlinkers, NoStaleFile, UpPlaces, Initialising
<1> QED
  BY <1>1, <1>2, FileStep, TypeCorrect, PTL DEF Spec

-----------------------------------------------------------------------------
(***************************************************************************)
(* With two starts, whoever unlinks the path is one of the two, so that    *)
(* the other one never meets a new file while a daemon has the old one.    *)
(***************************************************************************)
HasFile == UpPlaces \cup {"lock", "write"}
Two == \A p, q, r \in Daemons : p = q \/ q = r \/ p = r

OneFile ==
    /\ \A p \in Procs : pc[p] \in HasFile \cup {"open", "unlink"} => p \in Daemons
    /\ \A p, q \in Daemons :
        p # q /\ pc[p] \in HasFile =>
            /\ pc[q] \in {"idle", "open"} => path = fd[p]
            /\ pc[q] \in HasFile => fd[q] = fd[p]

LEMMA OneFileStep == Two /\ TypeOK /\ OneFile /\ [Next]_vars => OneFile'
<1> SUFFICES ASSUME Two, TypeOK, OneFile, [Next]_vars
             PROVE  OneFile'
  OBVIOUS
<1> USE DEF TypeOK, OneFile, HasFile, Opened, Move, files, history, startup
<1>1. CASE \E p \in Procs : Daemonize(p)
  <2> PICK p \in Procs : Daemonize(p)
    BY <1>1
  <2> USE DEF UpPlaces, Initialising, Procs
  <2>1. CASE Open(p)
    BY <2>1, ProcAssumption DEF Open
  <2>2. CASE OpenError(p)
    BY <2>2 DEF OpenError, Error, NotStarted
  <2>3. CASE Lock(p)
    BY <2>3 DEF Lock
  <2>4. CASE Write(p)
    BY <2>4 DEF Write, Works, Error, NotStarted
  <2> QED
    BY <2>1, <2>2, <2>3, <2>4 DEF Daemonize
<1>2. CASE \E p \in Procs : InitMain(p)
  <2> PICK p \in Procs : InitMain(p)
    BY <1>2
  <2>1. UNCHANGED <<path, fd>>
    BY InitFrame
  <2>2. pc[p] \in UpPlaces /\ \E to \in UpPlaces \cup {"exit"} : pc' = [pc EXCEPT ![p] = to]
    BY InitMove
  <2> QED
    BY <2>1, <2>2 DEF UpPlaces, Initialising, Procs
<1>3. CASE \E p \in Procs : Handler(p)
  <2> PICK p \in Procs : Handler(p)
    BY <1>3
  <2> USE DEF UpPlaces, Initialising, Procs
  <2>1. CASE Terminate(p)
    BY <2>1 DEF Terminate
  <2>2. CASE Unlink(p)
    BY <2>2 DEF Unlink, Two
  <2> QED
    BY <2>1, <2>2 DEF Handler
<1>4. CASE \E p \in Procs : KillDaemon(p)
  BY <1>4, ProcAssumption DEF KillDaemon, OpenToKill, ReadPid, Kill, UpPlaces, Initialising, Procs
<1>5. CASE \E p \in Procs : Exit(p)
  BY <1>5 DEF Exit, Gone, UpPlaces, Initialising, Procs
<1>6. CASE \E p \in Procs : Kernel(p)
  BY <1>6 DEF Kernel, Start, Crash, Gone, UpPlaces, Initialising, Procs
<1>7. CASE UNCHANGED vars
  BY <1>7 DEF vars
<1> QED
  BY <1>1, <1>2, <1>3, <1>4, <1>5, <1>6, <1>7 DEF Next, Step

\* The pid file does its work for two starts, with any number of kills and
\* crashes: no two daemons are up at a time.  It takes a third start to break
\* it (run three).
THEOREM OneOfTwoStarts == Two => (Spec => []OneDaemon)
<1> SUFFICES ASSUME Two PROVE Spec => []OneDaemon
  OBVIOUS
<1>1. Init => OneFile
  BY DEF Init, OneFile, HasFile, UpPlaces, Initialising, Procs
<1>2. TypeOK /\ OneFile /\ [Next]_vars => OneFile'
  BY OneFileStep
<1>3. OneFile /\ OwnsItsFile => OneDaemon
  BY DEF OneFile, HasFile, OwnsItsFile, OneDaemon, Up
<1> QED
  BY <1>1, <1>2, <1>3, OwnFile, TypeCorrect, PTL DEF Spec

-----------------------------------------------------------------------------
(***************************************************************************)
(* With any number of starts.  A process that unlinks the path takes it    *)
(* away from the others if one of them has, locks or waits to lock the     *)
(* file it names.  While that does not happen, every such process has the  *)
(* file of the path, and its lock keeps the second daemon out.             *)
(***************************************************************************)
Takes(p) ==
    \E q \in Procs \ {p} : pc[q] \in HasFile /\ fd[q] = path

NobodyTakesThePath == [][\A p \in Procs : Unlink(p) => ~Takes(p)]_vars

OnPath == \A q \in Procs : pc[q] \in HasFile => fd[q] = path

LEMMA OnPathStep ==
    ASSUME TypeOK, OnPath, [Next]_vars,
           [\A p \in Procs : Unlink(p) => ~Takes(p)]_vars
    PROVE  OnPath'
<1> USE DEF TypeOK, OnPath, HasFile, Opened, Move, files, history, startup
<1>1. CASE \E p \in Procs : Daemonize(p)
  <2> PICK p \in Procs : Daemonize(p)
    BY <1>1
  <2>1. CASE Open(p)
    BY <2>1 DEF Open
  <2>2. CASE OpenError(p)
    BY <2>2 DEF OpenError, Error, NotStarted, UpPlaces, Initialising
  <2>3. CASE Lock(p)
    BY <2>3 DEF Lock, UpPlaces, Initialising
  <2>4. CASE Write(p)
    BY <2>4 DEF Write, Works, Error, NotStarted, UpPlaces, Initialising
  <2> QED
    BY <2>1, <2>2, <2>3, <2>4 DEF Daemonize
<1>2. CASE \E p \in Procs : InitMain(p)
  <2> PICK p \in Procs : InitMain(p)
    BY <1>2
  <2>1. UNCHANGED <<path, fd>>
    BY InitFrame
  <2>2. pc[p] \in UpPlaces /\ \E to \in UpPlaces \cup {"exit"} : pc' = [pc EXCEPT ![p] = to]
    BY InitMove
  <2> QED
    BY <2>1, <2>2 DEF UpPlaces, Initialising
<1>3. CASE \E p \in Procs : Handler(p)
  <2> PICK p \in Procs : Handler(p)
    BY <1>3
  <2>1. CASE Terminate(p)
    BY <2>1 DEF Terminate, UpPlaces, Initialising
  <2>2. CASE Unlink(p)
    <3>1. ~Takes(p)
      BY <2>2 DEF vars, Unlink
    <3> QED
      BY <2>2, <3>1 DEF Unlink, Takes, UpPlaces, Initialising
  <2> QED
    BY <2>1, <2>2 DEF Handler
<1>4. CASE \E p \in Procs : KillDaemon(p)
  BY <1>4 DEF KillDaemon, OpenToKill, ReadPid, Kill, UpPlaces, Initialising
<1>5. CASE \E p \in Procs : Exit(p)
  BY <1>5 DEF Exit, Gone, UpPlaces, Initialising
<1>6. CASE \E p \in Procs : Kernel(p)
  BY <1>6 DEF Kernel, Start, Crash, Gone, UpPlaces, Initialising
<1>7. CASE UNCHANGED vars
  BY <1>7 DEF vars
<1> QED
  BY <1>1, <1>2, <1>3, <1>4, <1>5, <1>6, <1>7 DEF Next, Step

\* The only way to two daemons, with any number of starts, kills and crashes,
\* is an unlink of the path while another process has its file open: the one
\* that a start that does not get the lock makes, or one that comes late.
THEOREM TwoDaemonsNeedAnUnlink == Spec /\ NobodyTakesThePath => []OneDaemon
<1>1. Init => OnPath
  BY DEF Init, OnPath, HasFile, UpPlaces, Initialising
<1>2. TypeOK /\ OnPath /\ [Next]_vars /\ [\A p \in Procs : Unlink(p) => ~Takes(p)]_vars => OnPath'
  BY OnPathStep
<1>3. OnPath /\ OwnsItsFile => OneDaemon
  BY DEF OnPath, HasFile, OwnsItsFile, OneDaemon, Up, Procs
<1> QED
  BY <1>1, <1>2, <1>3, OwnFile, TypeCorrect, PTL DEF Spec, NobodyTakesThePath

-----------------------------------------------------------------------------
(***************************************************************************)
(* The inductive form of RestartWorks: what a daemon that met no error has *)
(* at each place of its initialisation.                                    *)
(***************************************************************************)
Watching(p) == (IF pc[p] \in {"power", "watch_axp209", "mkfifo", "fifo", "run"} THEN {"expander"} ELSE {})
          \cup (IF pc[p] \in {"mkfifo", "fifo", "run"} THEN {"axp209"} ELSE {})

StartInv ==
    \A p \in Procs : p \notin faulty =>
        /\ pc[p] # "close"
        /\ pc[p] \in UpPlaces \ {"uinput"} => p \in keyboards
        /\ Watching(p) \subseteq watched[p]

LEMMA StartStep == TypeOK /\ StartInv /\ [Next]_vars => StartInv'
<1> SUFFICES ASSUME TypeOK, StartInv, [Next]_vars, NEW q \in Procs, q \notin faulty'
             PROVE  /\ pc'[q] # "close"
                    /\ pc'[q] \in UpPlaces \ {"uinput"} => q \in keyboards'
                    /\ Watching(q)' \subseteq watched'[q]
  BY DEF StartInv
<1> USE DEF TypeOK, StartInv, Watching, Move, files, history, startup, UpPlaces, Initialising
<1>1. CASE \E p \in Procs : Daemonize(p)
  BY <1>1 DEF Daemonize, Open, OpenError, Lock, Write, Works, Error, NotStarted
<1>2. CASE \E p \in Procs : InitMain(p)
  <2> PICK p \in Procs : InitMain(p)
    BY <1>2
  <2> USE DEF Works, Error
  <2>1. CASE InitUinput(p)
    BY <2>1 DEF InitUinput
  <2>2. CASE ReadConfig(p) \/ ProbeExpander(p) \/ InitAxp(p) \/ OpenFifo(p)
    BY <2>2 DEF ReadConfig, ProbeExpander, InitAxp, OpenFifo, Attempt
  <2>3. CASE WatchPin(p, "expander", "watch_expander", "power")
    BY <2>3 DEF WatchPin, Export, OpenPin
  <2>4. CASE WatchPin(p, "axp209", "watch_axp209", "mkfifo")
    BY <2>4 DEF WatchPin, Export, OpenPin
  <2>5. CASE MakeFifo(p)
    BY <2>5 DEF MakeFifo
  <2>6. CASE CloseUinput(p)
    BY <2>6 DEF CloseUinput
  <2> QED
    BY <2>1, <2>2, <2>3, <2>4, <2>5, <2>6 DEF InitMain
<1>3. CASE \E p \in Procs : Handler(p)
  BY <1>3 DEF Handler, Terminate, Unlink
<1>4. CASE \E p \in Procs : KillDaemon(p)
  BY <1>4 DEF KillDaemon, OpenToKill, ReadPid, Kill
<1>5. CASE \E p \in Procs : Exit(p)
  BY <1>5 DEF Exit, Gone
<1>6. CASE \E p \in Procs : Kernel(p)
  BY <1>6 DEF Kernel, Start, Crash, Gone
<1>7. CASE UNCHANGED vars
  BY <1>7 DEF vars
<1> QED
  BY <1>1, <1>2, <1>3, <1>4, <1>5, <1>6, <1>7 DEF Next, Step

\* Whatever number of daemons have been started, terminated and have crashed
\* before: a daemon that meets no error itself never gives up and runs with
\* its keyboard and both interrupts.
THEOREM RestartsWork == Spec => []RestartWorks
<1>1. Init => StartInv
  BY DEF Init, StartInv, Watching, UpPlaces, Initialising
<1>2. TypeOK /\ StartInv => RestartWorks
  BY DEF TypeOK, StartInv, RestartWorks, Watching, Up, Procs, Pins, UpPlaces, Initialising
<1> QED
  BY <1>1, <1>2, StartStep, TypeCorrect, PTL DEF Spec
-----------------------------------------------------------------------------
(***************************************************************************)
(* The inductive form of RefusedByTheLiving: a lock belongs to a process   *)
(* that has taken it and has not ended, so a start that is still to lock   *)
(* its file has none.                                                      *)
(***************************************************************************)
Lockers == UpPlaces \cup {"write", "unlink", "exit"}
LivingInv == \A f \in Procs : holder[f] # None => pc[holder[f]] \in Lockers

LEMMA LivingStep == TypeOK /\ LivingInv /\ [Next]_vars => LivingInv'
<1> SUFFICES ASSUME TypeOK, LivingInv, [Next]_vars, NEW f \in Procs, holder'[f] # None
             PROVE  pc'[holder'[f]] \in Lockers
  BY DEF LivingInv
<1> USE ProcAssumption
        DEF TypeOK, LivingInv, Lockers, Opened, Procs, Move, Unlocked, files, history, startup,
            UpPlaces, Initialising
<1>1. CASE \E p \in Procs : Daemonize(p)
  <2> PICK p \in Procs : Daemonize(p)
    BY <1>1
  <2>1. CASE Open(p)
    BY <2>1 DEF Open
  <2>2. CASE OpenError(p)
    BY <2>2 DEF OpenError, Error, NotStarted
  <2>3. CASE Lock(p)
    BY <2>3 DEF Lock
  <2>4. CASE Write(p)
    BY <2>4 DEF Write, Works, Error, NotStarted
  <2> QED
    BY <2>1, <2>2, <2>3, <2>4 DEF Daemonize
<1>2. CASE \E p \in Procs : InitMain(p)
  <2> PICK p \in Procs : InitMain(p)
    BY <1>2
  <2>1. UNCHANGED holder
    BY InitFrame
  <2>2. \E to \in UpPlaces \cup {"exit"} : pc' = [pc EXCEPT ![p] = to]
    BY InitMove
  <2> QED
    BY <2>1, <2>2
<1>3. CASE \E p \in Procs : Handler(p)
  BY <1>3 DEF Handler, Terminate, Unlink
<1>4. CASE \E p \in Procs : KillDaemon(p)
  BY <1>4 DEF KillDaemon, OpenToKill, ReadPid, Kill
<1>5. CASE \E p \in Procs : Exit(p)
  BY <1>5 DEF Exit, Gone
<1>6. CASE \E p \in Procs : Kernel(p)
  BY <1>6 DEF Kernel, Start, Crash, Gone
<1>7. CASE UNCHANGED vars
  BY <1>7 DEF vars
<1> QED
  BY <1>1, <1>2, <1>3, <1>4, <1>5, <1>6, <1>7 DEF Next, Step

LEMMA RefusedStep ==
    ASSUME TypeOK, LivingInv, [Next]_vars, NEW q \in Daemons,
           pc[q] \in {"open", "lock", "write"}, pc'[q] \in {"exit", "unlink"}
    PROVE  \/ q \in faulty'
           \/ /\ pc[q] = "lock"
              /\ \E r \in Procs \ {q} :
                    holder[fd[q]] = r /\ pc[r] \notin {"idle", "dead"}
<1> USE ProcAssumption
        DEF TypeOK, Opened, Procs, Move, files, history, startup, UpPlaces, Initialising
<1>1. CASE \E p \in Procs : Daemonize(p)
  <2> PICK p \in Procs : Daemonize(p)
    BY <1>1
  <2>1. CASE Open(p)
    BY <2>1 DEF Open
  <2>2. CASE OpenError(p)
    BY <2>2 DEF OpenError, Error, NotStarted
  <2>3. CASE Lock(p)
    <3>1. p = q /\ holder[fd[q]] # None
      BY <2>3 DEF Lock
    <3>2. fd[q] \in Procs /\ holder[fd[q]] \in Procs
      BY <2>3, <3>1 DEF Lock
    <3>3. pc[holder[fd[q]]] \in Lockers
      BY <3>1, <3>2 DEF LivingInv
    <3>4. pc[q] = "lock"
      BY <2>3, <3>1 DEF Lock
    <3> QED
      BY <3>2, <3>3, <3>4 DEF Lockers
  <2>4. CASE Write(p)
    BY <2>4 DEF Write, Works, Error, NotStarted
  <2> QED
    BY <2>1, <2>2, <2>3, <2>4 DEF Daemonize
<1>2. CASE \E p \in Procs : InitMain(p)
  <2> PICK p \in Procs : InitMain(p)
    BY <1>2
  <2>1. pc[p] \in UpPlaces /\ \E to \in UpPlaces \cup {"exit"} : pc' = [pc EXCEPT ![p] = to]
    BY InitMove
  <2> QED
    BY <2>1
<1>3. CASE \E p \in Procs : Handler(p)
  BY <1>3 DEF Handler, Terminate, Unlink
<1>4. CASE \E p \in Procs : KillDaemon(p)
  BY <1>4 DEF KillDaemon, OpenToKill, ReadPid, Kill
<1>5. CASE \E p \in Procs : Exit(p)
  BY <1>5 DEF Exit, Gone
<1>6. CASE \E p \in Procs : Kernel(p)
  BY <1>6 DEF Kernel, Start, Crash, Gone
<1>7. CASE UNCHANGED vars
  BY <1>7 DEF vars
<1> QED
  BY <1>1, <1>2, <1>3, <1>4, <1>5, <1>6, <1>7 DEF Next, Step

\* A start that meets no error of its own is only stopped by a living process
\* that has its file locked: what crashed daemons leave behind stops nobody.
THEOREM OnlyTheLivingRefuse == Spec => RefusedByTheLiving
<1>1. Init => LivingInv
  BY DEF Init, LivingInv
<1>2. TypeOK /\ LivingInv /\ [Next]_vars =>
         [\A p \in Daemons :
             pc[p] \in {"open", "lock", "write"} /\ pc'[p] \in {"exit", "unlink"} =>
                 \/ p \in faulty'
                 \/ /\ pc[p] = "lock"
                    /\ \E q \in Procs \ {p} :
                          holder[fd[p]] = q /\ pc[q] \notin {"idle", "dead"}]_vars
  BY RefusedStep
<1> QED
  BY <1>1, <1>2, LivingStep, TypeCorrect, PTL DEF Spec, RefusedByTheLiving
=============================================================================
