-------------------------------- MODULE Service -------------------------------
(***************************************************************************)
(* crates/vqtrs-cli/src/service.rs: `vqtrs service start / stop / restart` *)
(* manage the server vqtrs-api through a PID file and a port file in the   *)
(* state directory; and, of the server, what they and its clients meet:    *)
(* loading, the Unix socket of crates/vqtrs-api/src/socket.rs, the TCP     *)
(* port, the end.  Servers are also run without the manager (vqtrs service *)
(* run, systemd, vqtrs-api itself), and the number of a process that has   *)
(* gone may be that of some other program later.                           *)
(*                                                                         *)
(* Each look at the file system, the process table or the port is a step,  *)
(* so that servers come and go between two of them.                        *)
(***************************************************************************)
EXTENDS Naturals, FiniteSets

CONSTANTS
  Command,    \* vqtrs invocations that may run at the same time
  NoCommand,  \* parent of a process that no invocation has to wait for
  Port,       \* TCP ports
  NoPort,     \* the port file does not exist
  MaxPid,     \* bound: servers in a behaviour
  Attempts    \* rounds of wait_for_port (100) and of stop (50)

ASSUME ServiceAssumption ==
  /\ NoCommand \notin Command
  /\ NoPort \notin Port
  /\ MaxPid \in Nat /\ Attempts \in Nat

VARIABLES
  platform,  \* "unix" or "windows"
  pidFile,   \* contents of vqtrs-api.pid, 0 = no file
  portFile,  \* contents of vqtrs-api.port
  proc,      \* processes: unused, loading, bound (to the socket), serving,
             \* zombie (ended, not reaped by its parent), gone, or foreign:
             \* gone, and the number used again by another program
  parent,    \* the invocation a process is a child of
  port,      \* the port it was told to serve
  managed,   \* processes spawned by start
  cut,       \* those whose start was cut short before both files were written
  signal,    \* told to end: not, "sent", or "outlived" the wait of stop
  socket,    \* the live process that the socket path leads to, 0 = nobody
  pc,        \* where each invocation is
  mode,      \* what it was asked to do
  arg,       \* its port argument
  mine,      \* the process it is about
  tries,     \* rounds left of its loop
  outcome    \* how the last invocation ended

vars == <<platform, pidFile, portFile, proc, parent, port, managed, cut, signal,
          socket, pc, mode, arg, mine, tries, outcome>>

files     == <<pidFile, portFile>>
processes == <<proc, parent, port, managed, cut, signal>>
locals    == <<mode, arg, mine, tries>>
command   == <<pc, locals, outcome>>

Pid   == 1 .. MaxPid
Live  == {p \in Pid : proc[p] \in {"loading", "bound", "serving"}}

(* process_exists: the process table of Unix lists zombies too.            *)
Listed(p) ==
  /\ p # 0
  /\ \/ p \in Live \/ proc[p] = "foreign"
     \/ proc[p] = "zombie" /\ platform = "unix"

Init ==
  /\ platform \in {"unix", "windows"}
  /\ pidFile = 0
  /\ portFile = NoPort
  /\ proc = [p \in Pid |-> "unused"]
  /\ parent = [p \in Pid |-> NoCommand]
  /\ port = [p \in Pid |-> NoPort]
  /\ managed = {}
  /\ cut = {}
  /\ signal = [p \in Pid |-> "none"]
  /\ socket = 0
  /\ pc = [c \in Command |-> "idle"]
  /\ mode = [c \in Command |-> "stop"]
  /\ arg = [c \in Command |-> NoPort]
  /\ mine = [c \in Command |-> 0]
  /\ tries = [c \in Command |-> 0]
  /\ outcome = [c \in Command |-> "none"]

-------------------------------------------------------------------------------
(* The server.                                                             *)

End(p) ==
  /\ proc' = [proc EXCEPT ![p] = IF parent[p] = NoCommand THEN "gone" ELSE "zombie"]
  /\ port' = [port EXCEPT ![p] = NoPort]
  /\ signal' = [signal EXCEPT ![p] = "none"]
  /\ socket' = IF socket = p THEN 0 ELSE socket

Fresh(p) == proc[p] = "unused" /\ \A q \in 1 .. p - 1 : proc[q] # "unused"

(* A server run without the manager.                                       *)
RunServer(p, n) ==
  /\ Fresh(p)
  /\ proc' = [proc EXCEPT ![p] = "loading"]
  /\ port' = [port EXCEPT ![p] = n]
  /\ UNCHANGED <<platform, files, parent, managed, cut, signal, socket, command>>

(* The models are loaded; socket::serve removes whatever is at the socket  *)
(* path and listens there, before the port is bound.                       *)
BindSocket(p) ==
  /\ proc[p] = "loading"
  /\ proc' = [proc EXCEPT ![p] = "bound"]
  /\ socket' = IF platform = "unix" THEN p ELSE socket
  /\ UNCHANGED <<platform, files, parent, port, managed, cut, signal, command>>

(* TcpListener::bind fails when the port is taken, and main returns.       *)
BindPort(p) ==
  /\ proc[p] = "bound"
  /\ IF \E q \in Pid : proc[q] = "serving" /\ port[q] = port[p]
     THEN End(p)
     ELSE proc' = [proc EXCEPT ![p] = "serving"] /\ UNCHANGED <<port, signal, socket>>
  /\ UNCHANGED <<platform, files, parent, managed, cut, command>>

(* A model that does not load, a crash, a signal from elsewhere.           *)
Die(p) ==
  /\ p \in Live
  /\ End(p)
  /\ UNCHANGED <<platform, files, parent, managed, cut, command>>

(* SIGTERM has its default effect on vqtrs-api, which handles no signal,   *)
(* and taskkill leaves it no choice either; but a server that is stopped,  *)
(* or waits in a driver or for a file system, ends later or not at all,    *)
(* and goes on as it was until then.                                       *)
Terminate(p) ==
  /\ p \in Live
  /\ signal[p] # "none"
  /\ End(p)
  /\ UNCHANGED <<platform, files, parent, managed, cut, command>>

(* Another program gets the number of a process that has gone, and ends;   *)
(* only numbers that someone still has are looked up.                      *)
Reuse(p) ==
  /\ proc[p] = "gone"
  /\ p = pidFile \/ \E c \in Command : p = mine[c]
  /\ proc' = [proc EXCEPT ![p] = "foreign"]
  /\ UNCHANGED <<platform, files, parent, port, managed, cut, signal, socket, command>>

ForeignEnds(p) ==
  /\ proc[p] = "foreign"
  /\ proc' = [proc EXCEPT ![p] = "gone"]
  /\ UNCHANGED <<platform, files, parent, port, managed, cut, signal, socket, command>>

-------------------------------------------------------------------------------
(* An invocation goes on to its next stage or ends; with the process that  *)
(* ran it, its children are handed to init, which reaps them.              *)
Goto(c, stage) ==
  /\ pc' = [pc EXCEPT ![c] = stage]
  /\ UNCHANGED <<mode, arg, outcome>>

Finish(c, how) ==
  /\ pc' = [pc EXCEPT ![c] = "idle"]
  /\ mode' = [mode EXCEPT ![c] = "stop"]
  /\ arg' = [arg EXCEPT ![c] = NoPort]
  /\ mine' = [mine EXCEPT ![c] = 0]
  /\ tries' = [tries EXCEPT ![c] = 0]
  /\ outcome' = [outcome EXCEPT ![c] = how]
  /\ proc' = [p \in Pid |-> IF parent[p] = c /\ proc[p] = "zombie" THEN "gone" ELSE proc[p]]
  /\ parent' = [p \in Pid |-> IF parent[p] = c THEN NoCommand ELSE parent[p]]

RemoveFiles == pidFile' = 0 /\ portFile' = NoPort

Invoke(c, what, n) ==
  /\ pc[c] = "idle"
  /\ pc' = [pc EXCEPT ![c] = CASE what = "start" -> "clean" [] what = "stop" -> "read"
                                [] what = "restart" -> "running"]
  /\ mode' = [mode EXCEPT ![c] = what]
  /\ arg' = [arg EXCEPT ![c] = n]
  /\ outcome' = [outcome EXCEPT ![c] = "none"]
  /\ UNCHANGED <<platform, files, processes, socket, mine, tries>>

(* restart: stop first when a server is running.                           *)
RestartCheck(c) ==
  /\ pc[c] = "running"
  /\ Goto(c, IF Listed(pidFile) THEN "read" ELSE "clean")
  /\ UNCHANGED <<platform, files, processes, socket, mine, tries>>

-------------------------------------------------------------------------------
(* start.                                                                  *)

(* Mutant: the files are removed unseen.                                   *)
CleanAlways(c) ==
  /\ pc[c] = "clean"
  /\ RemoveFiles
  /\ Goto(c, "check")
  /\ UNCHANGED <<platform, processes, socket, mine, tries>>

(* clean_stale.                                                            *)
CleanStale(c) ==
  /\ pc[c] = "clean"
  /\ IF pidFile # 0 /\ ~ Listed(pidFile) THEN RemoveFiles ELSE UNCHANGED files
  /\ Goto(c, "check")
  /\ UNCHANGED <<platform, processes, socket, mine, tries>>

(* Mutant: a server is spawned next to a running one.                      *)
CheckNothing(c) ==
  /\ pc[c] = "check"
  /\ Goto(c, "spawn")
  /\ UNCHANGED <<platform, files, processes, socket, mine, tries>>

CheckRunning(c) ==
  /\ pc[c] = "check"
  /\ IF Listed(pidFile)
     THEN Finish(c, "error")
     ELSE Goto(c, "spawn") /\ UNCHANGED <<proc, parent, mine, tries>>
  /\ UNCHANGED <<platform, files, port, managed, cut, signal, socket>>

(* The server is spawned, or its binary or log file cannot be opened.      *)
Spawn(c, p) ==
  /\ pc[c] = "spawn"
  /\ Fresh(p)
  /\ proc' = [proc EXCEPT ![p] = "loading"]
  /\ parent' = [parent EXCEPT ![p] = c]
  /\ port' = [port EXCEPT ![p] = arg[c]]
  /\ managed' = managed \cup {p}
  /\ mine' = [mine EXCEPT ![c] = p]
  /\ Goto(c, "write pid")
  /\ UNCHANGED <<platform, files, cut, signal, socket, tries>>

SpawnFails(c) ==
  /\ pc[c] = "spawn"
  /\ Finish(c, "error")
  /\ UNCHANGED <<platform, files, port, managed, cut, signal, socket>>

WritePid(c) ==
  /\ pc[c] = "write pid"
  /\ pidFile' = mine[c]
  /\ Goto(c, "write port")
  /\ UNCHANGED <<platform, portFile, processes, socket, mine, tries>>

WritePort(c) ==
  /\ pc[c] = "write port"
  /\ portFile' = arg[c]
  /\ Goto(c, "grace")
  /\ UNCHANGED <<platform, pidFile, processes, socket, mine, tries>>

(* A file cannot be written: start returns, the server stays.              *)
WriteFails(c) ==
  /\ pc[c] \in {"write pid", "write port"}
  /\ Finish(c, "error")
  /\ cut' = cut \cup {mine[c]}
  /\ UNCHANGED <<platform, files, port, managed, signal, socket>>

(* Half a second later, and once more when the port has not opened: is the *)
(* process still listed?                                                   *)
Grace(c) ==
  /\ pc[c] = "grace"
  /\ IF Listed(mine[c])
     THEN /\ Goto(c, "probe")
          /\ tries' = [tries EXCEPT ![c] = Attempts]
          /\ UNCHANGED <<files, proc, parent, mine>>
     ELSE RemoveFiles /\ Finish(c, "error")
  /\ UNCHANGED <<platform, port, managed, cut, signal, socket>>

(* Mutant: the port is tried for ever.                                     *)
ProbeForEver(c) ==
  /\ pc[c] = "probe"
  /\ \/ /\ \E q \in Pid : proc[q] = "serving" /\ port[q] = arg[c]
        /\ Finish(c, "ready")
     \/ /\ ~ \E q \in Pid : proc[q] = "serving" /\ port[q] = arg[c]
        /\ UNCHANGED <<command, proc, parent>>
  /\ UNCHANGED <<platform, files, port, managed, cut, signal, socket>>

(* wait_for_port connects to the port, whoever serves it.                  *)
Probe(c) ==
  /\ pc[c] = "probe"
  /\ \/ /\ \E q \in Pid : proc[q] = "serving" /\ port[q] = arg[c]
        /\ Finish(c, "ready")
     \/ /\ ~ \E q \in Pid : proc[q] = "serving" /\ port[q] = arg[c]
        /\ IF tries[c] > 0
           THEN tries' = [tries EXCEPT ![c] = @ - 1] /\ UNCHANGED <<pc, mode, arg, outcome>>
           ELSE Goto(c, "late") /\ UNCHANGED tries
        /\ UNCHANGED <<proc, parent, mine>>
  /\ UNCHANGED <<platform, files, port, managed, cut, signal, socket>>

Late(c) ==
  /\ pc[c] = "late"
  /\ IF Listed(mine[c])
     THEN Finish(c, "initializing") /\ UNCHANGED files
     ELSE Finish(c, "error") /\ RemoveFiles
  /\ UNCHANGED <<platform, port, managed, cut, signal, socket>>

-------------------------------------------------------------------------------
(* stop.                                                                   *)

ReadPid(c) ==
  /\ pc[c] = "read"
  /\ IF Listed(pidFile)
     THEN /\ mine' = [mine EXCEPT ![c] = pidFile]
          /\ Goto(c, "kill")
          /\ UNCHANGED <<files, proc, parent, tries>>
     ELSE RemoveFiles /\ Finish(c, "error")
  /\ UNCHANGED <<platform, port, managed, cut, signal, socket>>

(* The signal reaches what has the number: a server, a zombie that nothing *)
(* can be done to any more, or another program.                            *)
Send(p) ==
  signal' = [signal EXCEPT ![p] = IF p \in Live /\ @ = "none" THEN "sent" ELSE @]

(* Mutant: whether the kill command succeeds is not looked at.             *)
KillUnchecked(c) ==
  /\ pc[c] = "kill"
  /\ Send(mine[c]) \/ UNCHANGED signal
  /\ Goto(c, "poll")
  /\ tries' = [tries EXCEPT ![c] = Attempts]
  /\ UNCHANGED <<platform, files, proc, parent, port, managed, cut, socket, mine>>

(* The kill command fails when the process has gone meanwhile, belongs to  *)
(* somebody else, or the command cannot be run.                            *)
Kill(c) ==
  /\ pc[c] = "kill"
  /\ \/ /\ Listed(mine[c])
        /\ Send(mine[c])
        /\ Goto(c, "poll")
        /\ tries' = [tries EXCEPT ![c] = Attempts]
        /\ UNCHANGED <<proc, parent, mine>>
     \/ Finish(c, "error") /\ UNCHANGED signal
  /\ UNCHANGED <<platform, files, port, managed, cut, socket>>

(* Five seconds, and nothing looks at how they ended: a server that is     *)
(* still there has outlived them.                                          *)
Poll(c) ==
  /\ pc[c] = "poll"
  /\ IF tries[c] > 0 /\ Listed(mine[c])
     THEN tries' = [tries EXCEPT ![c] = @ - 1] /\ UNCHANGED <<pc, mode, arg, outcome, signal>>
     ELSE /\ signal' = [signal EXCEPT ![mine[c]] = IF @ = "sent" THEN "outlived" ELSE @]
          /\ Goto(c, "remove")
          /\ UNCHANGED tries
  /\ UNCHANGED <<platform, files, proc, parent, port, managed, cut, socket, mine>>

(* stop has succeeded; restart goes on to start.                           *)
Remove(c) ==
  /\ pc[c] = "remove"
  /\ RemoveFiles
  /\ IF mode[c] = "restart"
     THEN Goto(c, "clean") /\ UNCHANGED <<proc, parent, mine, tries>>
     ELSE Finish(c, "stopped")
  /\ UNCHANGED <<platform, port, managed, cut, signal, socket>>

-------------------------------------------------------------------------------
(* status looks at the same files, and changes nothing.                    *)
Status ==
  CASE pidFile = 0                      -> [kind |-> "stopped"]
    [] pidFile # 0 /\ Listed(pidFile)   -> [kind |-> "running", pid |-> pidFile, port |-> portFile]
    [] pidFile # 0 /\ ~ Listed(pidFile) -> [kind |-> "dead", pid |-> pidFile]

(* The user interrupts an invocation; a server it has spawned is in a      *)
(* process group of its own and goes on.                                   *)
Interrupt(c) ==
  /\ pc[c] # "idle"
  /\ Finish(c, "error")
  /\ cut' = IF pc[c] \in {"write pid", "write port"} THEN cut \cup {mine[c]} ELSE cut
  /\ UNCHANGED <<platform, files, port, managed, signal, socket>>

Step(c) ==
  \/ RestartCheck(c) \/ CleanStale(c) \/ CheckRunning(c)
  \/ (\E p \in Pid : Spawn(c, p)) \/ SpawnFails(c)
  \/ WritePid(c) \/ WritePort(c) \/ WriteFails(c) \/ Grace(c) \/ Probe(c) \/ Late(c)
  \/ ReadPid(c) \/ Kill(c) \/ Poll(c) \/ Remove(c)

Next ==
  \/ \E c \in Command, n \in Port, what \in {"start", "stop", "restart"} : Invoke(c, what, n)
  \/ \E c \in Command : Step(c) \/ Interrupt(c)
  \/ \E p \in Pid, n \in Port : RunServer(p, n)
  \/ \E p \in Pid : BindSocket(p) \/ BindPort(p) \/ Die(p) \/ Terminate(p) \/ Reuse(p) \/ ForeignEnds(p)

(* Invocations run on; nothing is assumed of servers.                      *)
Spec == Init /\ [][Next]_vars /\ \A c \in Command : WF_vars(Step(c))
-------------------------------------------------------------------------------
(* Properties.                                                             *)

(* Servers that the manager has started and should know of: not one that  *)
(* a stop has signalled and waited for in vain, as stop then removes the   *)
(* files and returns Ok all the same (service.rs lines 185 to 195).        *)
Ours == {p \in (Live \cap managed) \ cut : signal[p] # "outlived"}

(* One administrator at a time never has two servers of his own running:   *)
(* start refuses while the recorded one lives, restart signals it and      *)
(* waits for it first.                                                     *)
OneServer == Cardinality(Ours) <= 1

(* A server that start has finished with is found again: between           *)
(* invocations status names it and the port it was given, however other    *)
(* servers, crashes, interrupted invocations, signals that take their time *)
(* and programs with the number of an earlier server have come between.    *)
Recorded ==
  (\A c \in Command : pc[c] = "idle") =>
    \A p \in Ours : Status = [kind |-> "running", pid |-> p, port |-> port[p]]

(* When stop returns Ok, the manager's servers have ended, but for one     *)
(* that was told to and did not within the time that stop gives it.  No    *)
(* way leads there past the signal or the wait, through stale files or     *)
(* numbers that other programs have.                                       *)
StopStops ==
  [][\A c \in Command : outcome[c] = "none" /\ outcome'[c] = "stopped" => Ours' = {}]_vars

(* Every invocation ends by itself: the loops that wait for the port or    *)
(* for the process give up.                                                *)
CommandsEnd == \A c \in Command : pc[c] # "idle" ~> pc[c] = "idle"

(* service.rs lines 107-113 and 234-247: start returns Ok once its server  *)
(* accepts connections or is confirmed alive, and "an error if [...] the   *)
(* process exits during startup".                                          *)
StartedIsAlive ==
  [][\A c \in Command :
       outcome[c] = "none" /\ outcome'[c] \in {"ready", "initializing"} => mine[c] \in Live]_vars

(* README line 110: the server serves every route over the Unix socket     *)
(* too; while some server serves, the socket path leads to a live one.     *)
SocketReachable ==
  platform = "unix" /\ (\E p \in Pid : proc[p] = "serving") => socket \in Live
===============================================================================
