----------------------------- MODULE ServiceProofs -----------------------------
(***************************************************************************)
(* Proofs about vqtrs-cli: Service with one administrator, for every set   *)
(* of ports, number of processes and number of attempts; then Routing, for *)
(* any number of invocations.                                              *)
(***************************************************************************)
EXTENDS Service, Routing, FiniteSetTheorems, TLAPS

-------------------------------------------------------------------------------
(* The inductive invariant.                                                *)

Stage == {"idle", "running", "clean", "check", "spawn", "write pid", "write port", "grace",
          "probe", "late", "read", "kill", "poll", "remove"}

TypeOK ==
  /\ pidFile \in Pid \cup {0}
  /\ portFile \in Port \cup {NoPort}
  /\ proc \in [Pid -> {"unused", "loading", "bound", "serving", "zombie", "gone", "foreign"}]
  /\ parent \in [Pid -> Command \cup {NoCommand}]
  /\ port \in [Pid -> Port \cup {NoPort}]
  /\ signal \in [Pid -> {"none", "sent", "outlived"}]
  /\ pc \in [Command -> Stage]
  /\ mode \in [Command -> {"start", "stop", "restart"}]
  /\ arg \in [Command -> Port \cup {NoPort}]
  /\ mine \in [Command -> Pid \cup {0}]
  /\ tries \in [Command -> Nat]
  /\ outcome \in [Command -> {"none", "error", "ready", "initializing", "stopped"}]

(* Only processes that exist or did are the manager's.                     *)
Used == \A p \in managed : p \in Pid /\ proc[p] # "unused"

(* What the files say of the manager's servers.                            *)
Filed == \A p \in Ours : pidFile = p /\ portFile = port[p]

(* A server that stop waits for has been told to end.                      *)
Told == \A p \in Ours : signal[p] = "sent"

(* What they say follows from how far the invocation has come.  From the   *)
(* spawn to the files the server is known to nobody but the invocation;    *)
(* when the files are removed there is none but what has outlived a wait.  *)
Place(c) ==
  /\ pc[c] \in {"idle", "running", "clean", "check", "read", "kill", "poll"} => Filed
  /\ pc[c] \in {"spawn", "remove"} => Ours = {}
  /\ pc[c] = "poll" => Told
  /\ pc[c] \in {"write pid", "write port", "grace", "probe", "late"} =>
       /\ mine[c] \in Pid
       /\ \A p \in Ours : p = mine[c] /\ port[p] = arg[c]
  /\ pc[c] \in {"write port", "grace", "probe", "late", "kill", "poll"} => pidFile = mine[c]
  /\ pc[c] \in {"grace", "probe", "late"} => portFile = arg[c]
  /\ pc[c] \in {"kill", "poll"} => mine[c] \in Pid

IInv == TypeOK /\ Used /\ \A c \in Command : Place(c)

-------------------------------------------------------------------------------
(* What happens to servers by themselves.                                  *)

(* A step that leaves the files and the invocation alone, and neither      *)
(* makes a server the manager's nor moves one, keeps what is known.        *)
LEMMA PlaceKept ==
  ASSUME NEW c \in Command, Place(c), UNCHANGED <<files, command>>,
         Ours' \subseteq Ours, \A p \in Ours' : port'[p] = port[p] /\ signal'[p] = signal[p]
  PROVE  Place(c)'
BY DEF Place, Filed, Told, files, command, locals

(* The end of a process takes it from the living and moves no other.       *)
LEMMA EndOurs ==
  ASSUME TypeOK, NEW p \in Pid, End(p), UNCHANGED <<managed, cut>>
  PROVE  /\ Live' = Live \ {p}
         /\ Ours' = Ours \ {p}
         /\ \A q \in Pid \ {p} : port'[q] = port[q] /\ signal'[q] = signal[q]
<1>1. Live' = Live \ {p}
  BY DEF Live, End, TypeOK
<1>2. Ours' = Ours \ {p}
  BY <1>1 DEF Ours, Live, End, TypeOK
<1> QED BY <1>1, <1>2 DEF End, TypeOK

LEMMA RunServerIInv ==
  ASSUME IInv, NEW p \in Pid, NEW n \in Port, RunServer(p, n)
  PROVE  IInv'
<1> USE DEF IInv
<1>1. p \notin managed
  BY DEF Used, RunServer, Fresh
<1>2. TypeOK'
  BY DEF TypeOK, RunServer, files, command, locals
<1>3. Used'
  BY DEF Used, RunServer, TypeOK
<1>4. Ours' \subseteq Ours /\ \A q \in Ours' : port'[q] = port[q] /\ signal'[q] = signal[q]
  BY <1>1 DEF Ours, Live, RunServer, TypeOK
<1> QED BY <1>2, <1>3, <1>4, PlaceKept DEF RunServer

(* The socket and the port are bound, or the port is taken.                *)
LEMMA BindIInv ==
  ASSUME IInv, NEW p \in Pid, BindSocket(p) \/ BindPort(p) \/ Die(p) \/ Terminate(p)
  PROVE  IInv'
<1> USE DEF IInv
<1>1. CASE End(p) /\ p \in Live /\ UNCHANGED <<platform, files, parent, managed, cut, command>>
  <2>1. TypeOK' /\ Used'
    BY <1>1 DEF TypeOK, Used, End, files, command, locals
  <2>2. Ours' \subseteq Ours /\ \A q \in Ours' : port'[q] = port[q] /\ signal'[q] = signal[q]
    BY <1>1, EndOurs DEF Ours, Live
  <2> QED BY <1>1, <2>1, <2>2, PlaceKept
<1>2. CASE /\ proc[p] \in {"loading", "bound"}
           /\ \E s \in {"bound", "serving"} : proc' = [proc EXCEPT ![p] = s]
           /\ UNCHANGED <<files, parent, port, managed, cut, signal, command>>
  <2>1. TypeOK' /\ Used'
    BY <1>2 DEF TypeOK, Used, files, command, locals
  <2>2. Live' = Live
    BY <1>2 DEF Live, TypeOK
  <2>3. Ours' = Ours
    BY <1>2, <2>2 DEF Ours
  <2> QED BY <1>2, <2>1, <2>3, PlaceKept
<1> QED BY <1>1, <1>2 DEF BindSocket, BindPort, Die, Terminate, Live

(* Other programs are no servers.                                          *)
LEMMA ForeignIInv ==
  ASSUME IInv, NEW p \in Pid, Reuse(p) \/ ForeignEnds(p)
  PROVE  IInv'
<1> USE DEF IInv
<1>1. TypeOK' /\ Used'
  BY DEF TypeOK, Used, Reuse, ForeignEnds, files, command, locals
<1>2. Live' = Live
  BY DEF Live, Reuse, ForeignEnds, TypeOK
<1>3. Ours' = Ours /\ port' = port /\ signal' = signal
  BY <1>2 DEF Ours, Reuse, ForeignEnds
<1> QED BY <1>1, <1>3, PlaceKept DEF Reuse, ForeignEnds

-------------------------------------------------------------------------------
(* The steps of an invocation.                                             *)

(* A process that is reaped was dead before.                               *)
LEMMA FinishOurs ==
  ASSUME TypeOK, NEW c \in Command, NEW how, Finish(c, how)
  PROVE  Live' = Live
BY DEF Live, Finish, TypeOK

(* An invocation may end wherever the files are right, or where nothing of *)
(* the manager's runs.                                                     *)
LEMMA FinishIInv ==
  ASSUME IInv, NEW c, Command = {c},
         NEW how \in {"error", "ready", "initializing", "stopped"}, Finish(c, how),
         UNCHANGED <<port, managed, signal>>,
         pidFile' \in Pid \cup {0}, portFile' \in Port \cup {NoPort},
         \A p \in Live \cap managed :
           \/ p \in cut' \/ signal[p] = "outlived"
           \/ p \in Ours /\ pidFile' = p /\ portFile' = port[p]
  PROVE  IInv'
<1> USE DEF IInv
<1>1. Live' = Live
  BY FinishOurs
<1>2. TypeOK'
  BY DEF TypeOK, Finish, Stage
<1>3. Used'
  BY DEF Used, Finish, TypeOK
<1>4. Filed'
  BY <1>1 DEF Filed, Ours
<1>5. pc'[c] = "idle"
  BY DEF Finish, TypeOK
<1> QED BY <1>2, <1>3, <1>4, <1>5 DEF Place

(* Going on to another stage leaves the servers alone.                     *)
LEMMA GotoIInv ==
  ASSUME IInv, NEW c, Command = {c}, NEW stage \in Stage, Goto(c, stage), UNCHANGED processes,
         pidFile' \in Pid \cup {0}, portFile' \in Port \cup {NoPort},
         mine' \in [Command -> Pid \cup {0}], tries' \in [Command -> Nat],
         Place(c)'
  PROVE  IInv'
<1> USE DEF IInv
<1>1. TypeOK'
  BY DEF TypeOK, Goto, processes
<1>2. Used'
  BY DEF Used, processes
<1> QED BY <1>1, <1>2

LEMMA SameOurs ==
  ASSUME UNCHANGED processes
  PROVE  Ours' = Ours /\ port' = port /\ signal' = signal
BY DEF processes, Ours, Live

LEMMA InvokeIInv ==
  ASSUME IInv, NEW c, Command = {c}, NEW what \in {"start", "stop", "restart"}, NEW n \in Port,
         Invoke(c, what, n)
  PROVE  IInv'
<1> USE DEF IInv
<1>1. TypeOK'
  BY DEF TypeOK, Invoke, Stage, files, processes
<1>2. Used'
  BY DEF Used, Invoke, processes
<1>3. Ours' = Ours /\ port' = port
  BY SameOurs DEF Invoke
<1>4. Filed'
  BY <1>3 DEF Filed, Place, Invoke, files
<1>5. pc'[c] \in {"running", "clean", "read"}
  BY DEF Invoke, TypeOK
<1> QED BY <1>1, <1>2, <1>4, <1>5 DEF Place

(* RestartCheck, CleanStale, WritePid, WritePort: to another stage.        *)
LEMMA PassIInv ==
  ASSUME IInv, NEW c, Command = {c},
         RestartCheck(c) \/ CleanStale(c) \/ WritePid(c) \/ WritePort(c)
  PROVE  IInv'
<1> USE DEF IInv
<1>0. Ours' = Ours /\ port' = port
  BY SameOurs DEF RestartCheck, CleanStale, WritePid, WritePort
<1>1. CASE RestartCheck(c)
  <2>1. Filed' /\ pc'[c] \in {"read", "clean"}
    BY <1>0, <1>1 DEF RestartCheck, Goto, Filed, Place, files, TypeOK
  <2>2. Place(c)'
    BY <2>1 DEF Place
  <2> QED BY <1>1, <2>2, GotoIInv DEF RestartCheck, TypeOK, files, Stage
<1>2. CASE CleanStale(c)
  <2>1. pc'[c] = "check"
    BY <1>2 DEF CleanStale, Goto, TypeOK
  <2>2. Filed'
    <3>1. CASE pidFile # 0 /\ ~ Listed(pidFile)
      <4>1. Ours = {}
        BY <1>2, <3>1 DEF CleanStale, Place, Filed, Listed, Ours, Live
      <4> QED BY <1>0, <4>1 DEF Filed
    <3>2. CASE ~ (pidFile # 0 /\ ~ Listed(pidFile))
      BY <1>0, <1>2, <3>2 DEF CleanStale, Place, Filed, files
    <3> QED BY <3>1, <3>2
  <2>3. Place(c)'
    BY <2>1, <2>2 DEF Place
  <2> QED BY <1>2, <2>3, GotoIInv DEF CleanStale, TypeOK, files, RemoveFiles, Stage
<1>3. CASE WritePid(c)
  <2>1. Place(c)'
    BY <1>0, <1>3 DEF WritePid, Goto, Place, TypeOK
  <2> QED BY <1>3, <2>1, GotoIInv DEF WritePid, TypeOK, Stage
<1>4. CASE WritePort(c)
  <2>1. Place(c)'
    BY <1>0, <1>4 DEF WritePort, Goto, Place, TypeOK
  <2> QED BY <1>4, <2>1, GotoIInv DEF WritePort, TypeOK, Stage
<1> QED BY <1>1, <1>2, <1>3, <1>4

(* start refuses, or goes on where none of the manager's servers is left.  *)
LEMMA CheckRunningIInv ==
  ASSUME IInv, NEW c, Command = {c}, CheckRunning(c)
  PROVE  IInv'
<1> USE DEF IInv
<1>1. CASE Listed(pidFile)
  <2>1. Finish(c, "error") /\ UNCHANGED <<pidFile, portFile, port, managed, cut, signal>> /\ Filed
    BY <1>1 DEF CheckRunning, Place, files
  <2>2. ASSUME NEW p \in Live \cap managed
        PROVE  \/ p \in cut' \/ signal[p] = "outlived"
               \/ p \in Ours /\ pidFile' = p /\ portFile' = port[p]
    BY <2>1 DEF Filed, Ours
  <2> QED BY <2>1, <2>2, FinishIInv DEF TypeOK
<1>2. CASE ~ Listed(pidFile)
  <2>1. Ours = {}
    <3> SUFFICES ASSUME NEW p \in Ours PROVE FALSE
      OBVIOUS
    <3>1. pidFile = p
      BY DEF CheckRunning, Place, Filed
    <3> QED BY <1>2, <3>1 DEF Listed, Ours, Live, Pid
  <2>2. Goto(c, "spawn") /\ UNCHANGED <<processes, files, mine, tries>>
    BY <1>2 DEF CheckRunning, processes
  <2>3. Place(c)'
    BY <2>1, <2>2, SameOurs DEF Goto, Place, TypeOK
  <2> QED BY <2>2, <2>3, GotoIInv DEF TypeOK, files, Stage
<1> QED BY <1>1, <1>2

LEMMA SpawnIInv ==
  ASSUME IInv, NEW c, Command = {c}, NEW p \in Pid, Spawn(c, p)
  PROVE  IInv'
<1> USE DEF IInv
<1>1. Ours' \subseteq {p}
  BY DEF Spawn, Place, Ours, Live, TypeOK
<1>2. TypeOK'
  BY DEF TypeOK, Spawn, Goto, Stage, files
<1>3. Used'
  BY DEF Used, Spawn, TypeOK
<1>4. pc'[c] = "write pid" /\ mine'[c] = p /\ port'[p] = arg'[c]
  BY DEF Spawn, Goto, TypeOK
<1> QED BY <1>1, <1>2, <1>3, <1>4 DEF Place

(* Wherever an invocation may stop, what runs is recorded, or cut short.   *)
LEMMA InterruptIInv ==
  ASSUME IInv, NEW c, Command = {c}, Interrupt(c) \/ SpawnFails(c) \/ WriteFails(c)
  PROVE  IInv'
<1> USE DEF IInv
<1>1. /\ Finish(c, "error") /\ UNCHANGED <<files, port, managed, signal>>
      /\ pc[c] \in Stage
      /\ cut' = IF pc[c] \in {"write pid", "write port"} THEN cut \cup {mine[c]} ELSE cut
  BY DEF Interrupt, SpawnFails, WriteFails, TypeOK
<1>2. ASSUME NEW p \in Live \cap managed
      PROVE  \/ p \in cut' \/ signal[p] = "outlived"
             \/ p \in Ours /\ pidFile' = p /\ portFile' = port[p]
  <2>1. CASE p \in cut \/ signal[p] = "outlived"
    BY <1>1, <2>1
  <2>2. CASE p \in Ours
    <3>1. pidFile' = pidFile /\ portFile' = portFile
      BY <1>1 DEF files
    <3>2. CASE pc[c] \in {"write pid", "write port"}
      BY <1>1, <2>2, <3>2 DEF Place
    <3>3. CASE pc[c] \in {"grace", "probe", "late"}
      BY <2>2, <3>1, <3>3 DEF Place
    <3>4. CASE pc[c] \in {"spawn", "remove"}
      BY <2>2, <3>4 DEF Place
    <3>5. CASE pc[c] \in {"idle", "running", "clean", "check", "read", "kill", "poll"}
      BY <2>2, <3>1, <3>5 DEF Place, Filed
    <3> QED BY <1>1, <3>2, <3>3, <3>4, <3>5 DEF Stage
  <2> QED BY <1>2, <2>1, <2>2 DEF Ours
<1> QED BY <1>1, <1>2, FinishIInv DEF files, TypeOK

(* Grace, Probe and Late end with the server recorded, or gone.            *)
LEMMA WaitIInv ==
  ASSUME IInv, NEW c, Command = {c}, Grace(c) \/ Probe(c) \/ Late(c)
  PROVE  IInv'
<1> USE DEF IInv
<1>1. /\ UNCHANGED <<port, managed, cut, signal>>
      /\ pc[c] \in {"grace", "probe", "late"}
  BY DEF Grace, Probe, Late
<1>2. /\ mine[c] \in Pid
      /\ \A p \in Ours : p = mine[c] /\ port[p] = arg[c] /\ pidFile = p /\ portFile = arg[c]
  BY <1>1 DEF Place
<1>3. ASSUME NEW how \in {"error", "ready", "initializing"}, Finish(c, how),
             UNCHANGED files \/ (RemoveFiles /\ ~ Listed(mine[c]))
      PROVE  IInv'
  <2>1. CASE UNCHANGED files
    BY <1>1, <1>2, <1>3, <2>1, FinishIInv DEF files, TypeOK, Ours
  <2>2. CASE RemoveFiles /\ ~ Listed(mine[c])
    <3>1. Ours = {}
      BY <1>2, <2>2 DEF Listed, Ours, Live, Pid
    <3>2. \A p \in Live \cap managed : p \in cut' \/ signal[p] = "outlived"
      BY <1>1, <3>1 DEF Ours
    <3>3. pidFile' = 0 /\ portFile' = NoPort
      BY <2>2 DEF RemoveFiles
    <3> QED BY <1>1, <1>3, <3>2, <3>3, FinishIInv
  <2> QED BY <1>3, <2>1, <2>2
<1>4. ASSUME NEW stage \in {"probe", "late"}, Goto(c, stage), UNCHANGED <<files, proc, parent, mine>>,
             tries' \in [Command -> Nat]
      PROVE  IInv'
  <2>1. UNCHANGED processes
    BY <1>1, <1>4 DEF processes
  <2>2. Place(c)'
    BY <1>1, <1>4, <2>1, SameOurs DEF Goto, Place, TypeOK, files
  <2> QED BY <1>4, <2>1, <2>2, GotoIInv DEF TypeOK, files, Stage
<1>5. CASE Grace(c)
  BY <1>3, <1>4, <1>5, ServiceAssumption DEF Grace, TypeOK
<1>6. CASE Late(c)
  BY <1>3, <1>6 DEF Late
<1>7. CASE Probe(c)
  <2>1. CASE tries[c] > 0 /\ tries' = [tries EXCEPT ![c] = @ - 1] /\ UNCHANGED <<pc, mode, arg, outcome, proc, parent, mine, files>>
    <3>1. TypeOK' /\ Used'
      BY <1>1, <2>1 DEF TypeOK, Used, files
    <3>2. Place(c)'
      BY <1>1, <2>1 DEF Place, Ours, Live, files
    <3> QED BY <3>1, <3>2
  <2>2. CASE Finish(c, "ready")
    BY <1>3, <1>7, <2>2 DEF Probe
  <2>3. CASE Goto(c, "late") /\ UNCHANGED <<tries, proc, parent, mine>>
    BY <1>4, <1>7, <2>3 DEF Probe, TypeOK
  <2> QED BY <1>7, <2>1, <2>2, <2>3 DEF Probe
<1> QED BY <1>5, <1>6, <1>7

LEMMA ReadPidIInv ==
  ASSUME IInv, NEW c, Command = {c}, ReadPid(c)
  PROVE  IInv'
<1> USE DEF IInv
<1>1. Filed /\ UNCHANGED <<port, managed, cut, signal>>
  BY DEF ReadPid, Place
<1>2. CASE Listed(pidFile)
  <2>1. /\ Goto(c, "kill") /\ UNCHANGED <<processes, files, tries>>
        /\ mine' = [mine EXCEPT ![c] = pidFile]
        /\ pidFile \in Pid
    BY <1>2 DEF ReadPid, processes, Listed, TypeOK
  <2>2. Place(c)'
    BY <1>1, <2>1, SameOurs DEF Goto, Place, Filed, TypeOK, files
  <2> QED BY <2>1, <2>2, GotoIInv DEF TypeOK, files, Stage
<1>3. CASE ~ Listed(pidFile)
  <2>1. \A p \in Live \cap managed : p \in cut' \/ signal[p] = "outlived"
    BY <1>1, <1>3 DEF Filed, Listed, Ours, Live, Pid
  <2>2. Finish(c, "error") /\ pidFile' = 0 /\ portFile' = NoPort
    BY <1>3 DEF ReadPid, RemoveFiles
  <2> QED BY <1>1, <2>1, <2>2, FinishIInv
<1> QED BY <1>2, <1>3

(* The files name the only server of the manager's that there can be: from *)
(* the signal on it is told to end.                                        *)
LEMMA KillIInv ==
  ASSUME IInv, NEW c, Command = {c}, Kill(c)
  PROVE  IInv'
<1> USE DEF IInv
<1>1. /\ mine[c] \in Pid /\ pidFile = mine[c] /\ Filed
      /\ UNCHANGED <<files, port, managed, cut>>
  BY DEF Kill, Place
<1>2. CASE /\ Send(mine[c]) /\ Goto(c, "poll")
           /\ tries' = [tries EXCEPT ![c] = Attempts]
           /\ UNCHANGED <<proc, parent, mine>>
  <2>1. Ours' = Ours /\ signal' \in [Pid -> {"none", "sent", "outlived"}]
    BY <1>1, <1>2 DEF Live, Ours, Send, TypeOK
  <2>2. \A p \in Ours : p = mine[c]
    BY <1>1 DEF Filed
  <2>3. Told'
    BY <1>1, <1>2, <2>1, <2>2 DEF Told, Ours, Send, TypeOK
  <2>4. TypeOK'
    BY <1>1, <1>2, <2>1, ServiceAssumption DEF TypeOK, Goto, Stage, files
  <2>5. Used'
    BY <1>1, <1>2 DEF Used
  <2>6. Filed'
    BY <1>1, <2>1 DEF Filed, files
  <2>7. pc'[c] = "poll" /\ mine' = mine /\ pidFile' = pidFile
    BY <1>1, <1>2 DEF Goto, TypeOK, files
  <2> QED BY <1>1, <2>3, <2>4, <2>5, <2>6, <2>7 DEF Place
<1>3. CASE Finish(c, "error") /\ UNCHANGED signal
  <2>1. \A p \in Live \cap managed :
          p \in cut' \/ signal[p] = "outlived" \/ (p \in Ours /\ pidFile' = p /\ portFile' = port[p])
    BY <1>1 DEF Ours, Filed, files
  <2> QED BY <1>1, <1>3, <2>1, FinishIInv DEF files, TypeOK
<1> QED BY <1>2, <1>3 DEF Kill

(* A wait ends with the server gone, or told to go and outliving it.       *)
LEMMA PollIInv ==
  ASSUME IInv, NEW c, Command = {c}, Poll(c)
  PROVE  IInv'
<1> USE DEF IInv
<1>1. /\ mine[c] \in Pid /\ pidFile = mine[c] /\ Filed /\ Told
      /\ UNCHANGED <<files, proc, parent, port, managed, cut, mine>>
  BY DEF Poll, Place
<1>2. CASE tries[c] > 0 /\ Listed(mine[c])
  <2>1. TypeOK' /\ Used'
    BY <1>1, <1>2 DEF Poll, TypeOK, Used, files
  <2>2. UNCHANGED <<pc, arg, signal>>
    BY <1>2 DEF Poll
  <2>3. Ours' = Ours
    BY <1>1, <2>2 DEF Ours, Live
  <2>4. Place(c)'
    BY <1>1, <2>2, <2>3 DEF Place, Filed, Told, files
  <2> QED BY <2>1, <2>4
<1>3. CASE ~ (tries[c] > 0 /\ Listed(mine[c]))
  <2>1. /\ signal' = [signal EXCEPT ![mine[c]] = IF @ = "sent" THEN "outlived" ELSE @]
        /\ Goto(c, "remove") /\ UNCHANGED tries
    BY <1>3 DEF Poll
  <2>2. TypeOK' /\ Used'
    BY <1>1, <2>1 DEF Goto, TypeOK, Used, Stage, files
  <2>3. Ours' = {}
    <3>1. ASSUME NEW p \in Ours' PROVE FALSE
      <4>1. p \in (Live \cap managed) \ cut /\ signal'[p] # "outlived" /\ p \in Pid
        BY <1>1, <3>1 DEF Ours, Live
      <4>2. signal[p] # "outlived"
        BY <1>1, <2>1, <4>1 DEF TypeOK
      <4>3. p \in Ours
        BY <4>1, <4>2 DEF Ours
      <4>4. p = mine[c] /\ signal[p] = "sent"
        BY <1>1, <4>3 DEF Filed, Told
      <4> QED BY <1>1, <2>1, <4>1, <4>4 DEF TypeOK
    <3> QED BY <3>1
  <2>4. pc'[c] = "remove"
    BY <2>1 DEF Goto, TypeOK
  <2> QED BY <2>2, <2>3, <2>4 DEF Place
<1> QED BY <1>2, <1>3

LEMMA RemoveIInv ==
  ASSUME IInv, NEW c, Command = {c}, Remove(c)
  PROVE  IInv'
<1> USE DEF IInv
<1>1. /\ Ours = {} /\ UNCHANGED <<port, managed, cut, signal>>
      /\ pidFile' = 0 /\ portFile' = NoPort
  BY DEF Remove, Place, RemoveFiles
<1>2. CASE mode[c] = "restart"
  <2>1. Goto(c, "clean") /\ UNCHANGED <<processes, mine, tries>>
    BY <1>2 DEF Remove, processes
  <2>2. Place(c)'
    BY <1>1, <2>1, SameOurs DEF Goto, Place, Filed, TypeOK
  <2> QED BY <1>1, <2>1, <2>2, GotoIInv DEF TypeOK, Stage
<1>3. CASE mode[c] # "restart"
  <2>1. Finish(c, "stopped")
    BY <1>3 DEF Remove
  <2>2. \A p \in Live \cap managed : p \in cut' \/ signal[p] = "outlived"
    BY <1>1 DEF Ours
  <2> QED BY <1>1, <2>1, <2>2, FinishIInv
<1> QED BY <1>2, <1>3

-------------------------------------------------------------------------------
(* The invariant, and what follows from it.                                *)

LEMMA InitIInv == Init => IInv
<1> SUFFICES ASSUME Init PROVE IInv
  OBVIOUS
<1>1. TypeOK
  BY DEF Init, TypeOK, Stage
<1>2. Ours = {} /\ Used
  BY DEF Init, Ours, Used
<1>3. \A c \in Command : Place(c)
  BY <1>2 DEF Init, Place, Filed
<1> QED BY <1>1, <1>2, <1>3 DEF IInv

LEMMA NextIInv ==
  ASSUME IInv, NEW c, Command = {c}, [Next]_vars
  PROVE  IInv'
<1>1. ASSUME NEW d \in Command, NEW n \in Port, NEW what \in {"start", "stop", "restart"}, Invoke(d, what, n)
      PROVE  IInv'
  BY <1>1, InvokeIInv
<1>2. ASSUME NEW d \in Command, Step(d) \/ Interrupt(d)
      PROVE  IInv'
  <2>1. d = c
    OBVIOUS
  <2>2. CASE \E p \in Pid : Spawn(c, p)
    BY <2>2, SpawnIInv
  <2> QED
    BY <1>2, <2>1, <2>2, PassIInv, CheckRunningIInv, InterruptIInv, WaitIInv, ReadPidIInv, KillIInv, PollIInv, RemoveIInv
    DEF Step
<1>3. ASSUME NEW p \in Pid, NEW n \in Port, RunServer(p, n)
      PROVE  IInv'
  BY <1>3, RunServerIInv
<1>4. ASSUME NEW p \in Pid, BindSocket(p) \/ BindPort(p) \/ Die(p) \/ Terminate(p) \/ Reuse(p) \/ ForeignEnds(p)
      PROVE  IInv'
  BY <1>4, BindIInv, ForeignIInv
<1>5. CASE UNCHANGED vars
  <2>1. TypeOK' /\ Used'
    BY <1>5 DEF vars, files, processes, command, locals, IInv, TypeOK, Used
  <2>2. Ours' = Ours /\ port' = port /\ signal' = signal
    BY <1>5, SameOurs DEF vars, processes
  <2>3. Place(c)'
    BY <1>5, <2>2, PlaceKept DEF vars, IInv, files, command, locals
  <2> QED BY <2>1, <2>3 DEF IInv
<1> QED BY <1>1, <1>2, <1>3, <1>4, <1>5 DEF Next

THEOREM Invariant ==
  ASSUME NEW c, Command = {c}
  PROVE  Spec => []IInv
<1>1. Init => IInv
  BY InitIInv
<1>2. IInv /\ [Next]_vars => IInv'
  BY NextIInv
<1> QED BY <1>1, <1>2, PTL DEF Spec

(* The manager's servers are at most one at any time, whatever ends, is    *)
(* interrupted, fails, takes a port or gets an old number in between.      *)
THEOREM OneServerAlways ==
  ASSUME NEW c, Command = {c}
  PROVE  Spec => []OneServer
<1>1. IInv => OneServer
  <2> SUFFICES ASSUME IInv PROVE OneServer
    OBVIOUS
  <2>1. Ours \subseteq {mine[c]} \/ Ours \subseteq {pidFile}
    <3>1. CASE pc[c] \in {"write pid", "write port", "grace", "probe", "late"}
      BY <3>1 DEF IInv, Place
    <3>2. CASE pc[c] \notin {"write pid", "write port", "grace", "probe", "late"}
      BY <3>2 DEF IInv, TypeOK, Stage, Place, Filed
    <3> QED BY <3>1, <3>2
  <2>2. PICK x : Ours \subseteq {x}
    BY <2>1
  <2>3. Cardinality({x}) = 1 /\ IsFiniteSet({x})
    BY FS_Singleton
  <2>4. Cardinality(Ours) <= Cardinality({x})
    BY <2>2, <2>3, FS_Subset
  <2> QED BY <2>3, <2>4 DEF OneServer
<1> QED BY <1>1, Invariant, PTL

(* Between invocations status names the manager's server and its port.     *)
THEOREM RecordedAlways ==
  ASSUME NEW c, Command = {c}
  PROVE  Spec => []Recorded
<1>1. IInv => Recorded
  <2> SUFFICES ASSUME IInv, pc[c] = "idle", NEW p \in Ours
               PROVE  Status = [kind |-> "running", pid |-> p, port |-> port[p]]
    BY DEF Recorded
  <2>1. pidFile = p /\ portFile = port[p]
    BY DEF IInv, Place, Filed
  <2>2. p # 0 /\ Listed(p)
    BY DEF Ours, Live, Listed, Pid
  <2> QED BY <2>1, <2>2, Zenon DEF Status
<1> QED BY <1>1, Invariant, PTL

(* A stop that has reported success has left nothing running but what did  *)
(* not end in its time.                                                    *)
THEOREM StopStopsAlways ==
  ASSUME NEW only, Command = {only}
  PROVE  Spec => StopStops
<1>1. IInv /\ [Next]_vars =>
        [\A c \in Command : outcome[c] = "none" /\ outcome'[c] = "stopped" => Ours' = {}]_vars
  <2> SUFFICES ASSUME IInv, [Next]_vars, NEW d \in Command, outcome[d] = "none", outcome'[d] = "stopped"
               PROVE  Ours' = {}
    OBVIOUS
  <2>1. Remove(d)
    <3>1. outcome \in [Command -> {"none", "error", "ready", "initializing", "stopped"}] /\ Command = {d}
          /\ outcome'[d] # outcome[d]
      BY DEF IInv, TypeOK
    <3>2. \/ \E n \in Port, what \in {"start", "stop", "restart"} : Invoke(d, what, n)
          \/ Step(d) \/ Interrupt(d)
      BY <3>1 DEF Next, vars, RunServer, BindSocket, BindPort, Die, Terminate, Reuse, ForeignEnds, command
    <3>3. ~ Interrupt(d) /\ \A n \in Port, what \in {"start", "stop", "restart"} : ~ Invoke(d, what, n)
      BY <3>1 DEF Interrupt, Invoke, Finish
    <3>4. ~ (RestartCheck(d) \/ CleanStale(d) \/ CheckRunning(d) \/ SpawnFails(d) \/ WritePid(d) \/ WritePort(d))
      BY <3>1 DEF RestartCheck, CleanStale, CheckRunning, SpawnFails, WritePid, WritePort, Goto, Finish, locals, command
    <3>5. ~ (WriteFails(d) \/ Grace(d) \/ Probe(d) \/ Late(d))
      BY <3>1 DEF WriteFails, Grace, Probe, Late, Goto, Finish, locals, command
    <3>6. ~ (ReadPid(d) \/ Kill(d) \/ Poll(d)) /\ ~ \E p \in Pid : Spawn(d, p)
      BY <3>1 DEF ReadPid, Kill, Poll, Spawn, Send, Goto, Finish, locals, command
    <3> QED BY <3>2, <3>3, <3>4, <3>5, <3>6 DEF Step
  <2>2. Ours = {} /\ Finish(d, "stopped")
    BY <2>1 DEF IInv, Place, Remove, Goto
  <2>3. Live' = Live
    BY <2>2, FinishOurs DEF IInv
  <2> QED BY <2>1, <2>2, <2>3 DEF Ours, Remove
<1>2. Spec => []IInv
  BY Invariant
<1> QED BY <1>1, <1>2, PTL DEF Spec, StopStops

-------------------------------------------------------------------------------
(* Routing, for any number of invocations: how often a result is computed, *)
(* and whose model it comes from.                                          *)

(* A request reaches a server only after live has found one, and not       *)
(* before post_json has connected; a result is the last thing there is.   *)
Reached ==
  \A c \in Client :
    /\ at[c] = "live" => ~warm[c]
    /\ at[c] \in {"connect", "write", "read"} => warm[c]
    /\ at[c] \in {"live", "connect"} \/ ~warm[c] => job[c] = "none"
    /\ at[c] # "done" => by[c] = "nobody"

(* What the server and the invocation have each begun to compute: a        *)
(* request that waits has cost the server nothing, and the invocation      *)
(* computes once, as the last thing it does.                               *)
Spent ==
  \A c \in Client :
    /\ at[c] \in {"live", "connect"} => computed[c] = 0
    /\ job[c] \in {"arriving", "queued"} => computed[c] = 0 \/ (at[c] = "done" /\ computed[c] = 1)
    /\ at[c] # "done" => computed[c] <= 1
    /\ ~warm[c] => computed[c] <= 1
    /\ ~warm[c] /\ at[c] = "local" => computed[c] = 0

(* A request that is not tried again has seen the last of its own process  *)
(* when it has seen a server.                                              *)
Committed ==
  \A c \in Client :
    NoRetry(request[c]) /\ warm[c] =>
      /\ at[c] # "local" /\ by[c] # "local"
      /\ computed[c] <= 1
      /\ job[c] \in {"arriving", "queued"} => computed[c] = 0

ClientInv == RoutingTypeOK /\ Reached /\ Spent /\ Committed

-------------------------------------------------------------------------------
(* Every reachable state satisfies the invariant.                          *)
THEOREM ClientInvariant == RoutingSpec => []ClientInv
<1>1. RoutingInit => ClientInv
  BY SMT DEF RoutingInit, ClientInv, RoutingTypeOK, Reached, Spent, Committed
<1>2. ClientInv /\ [RoutingNext]_routingVars => ClientInv'
  <2> SUFFICES ASSUME ClientInv, [RoutingNext]_routingVars PROVE ClientInv'
    OBVIOUS
  <2> USE DEF ClientInv
  <2>1. ASSUME NEW c \in Client, Look(c) PROVE ClientInv'
    <3>1. RoutingTypeOK' BY <2>1 DEF Look, GoOn, RoutingTypeOK
    <3>2. Reached' BY <2>1 DEF Look, GoOn, RoutingTypeOK, Reached
    <3>3. Spent' BY <2>1 DEF Look, GoOn, RoutingTypeOK, Reached, Spent
    <3>4. Committed' BY <2>1 DEF Look, GoOn, RoutingTypeOK, Reached, Spent, Committed
    <3> QED BY <3>1, <3>2, <3>3, <3>4
  <2>2. ASSUME NEW c \in Client, Post(c) PROVE ClientInv'
    <3>1. RoutingTypeOK' BY <2>2 DEF Post, Fail, Return, GoOn, RoutingTypeOK
    <3>2. Reached' BY <2>2 DEF Post, Fail, Return, GoOn, RoutingTypeOK, Reached
    <3>3. Spent' BY <2>2 DEF Post, Fail, Return, GoOn, RoutingTypeOK, Reached, Spent
    <3>4. Committed'
      BY <2>2 DEF Post, Fail, Return, GoOn, RoutingTypeOK, Reached, Spent, Committed
    <3> QED BY <3>1, <3>2, <3>3, <3>4
  <2>11. ASSUME NEW c \in Client, Write(c) PROVE ClientInv'
    <3>1. RoutingTypeOK' BY <2>11 DEF Write, Fail, Return, GoOn, RoutingTypeOK
    <3>2. Reached' BY <2>11 DEF Write, Fail, Return, GoOn, RoutingTypeOK, Reached
    <3>3. Spent' BY <2>11 DEF Write, Fail, Return, GoOn, RoutingTypeOK, Reached, Spent
    <3>4. Committed' BY <2>11 DEF Write, Fail, Return, GoOn, RoutingTypeOK, Reached, Committed
    <3> QED BY <3>1, <3>2, <3>3, <3>4
  <2>3. ASSUME NEW c \in Client, Read(c) PROVE ClientInv'
    <3>1. RoutingTypeOK' BY <2>3 DEF Read, Fail, Return, GoOn, RoutingTypeOK
    <3>2. Reached' BY <2>3 DEF Read, Fail, Return, GoOn, RoutingTypeOK, Reached
    <3>3. Spent' BY <2>3 DEF Read, Fail, Return, GoOn, RoutingTypeOK, Reached, Spent
    <3>4. Committed' BY <2>3 DEF Read, Fail, Return, GoOn, RoutingTypeOK, Reached, Committed
    <3> QED BY <3>1, <3>2, <3>3, <3>4
  <2>4. ASSUME NEW c \in Client, Timeout(c) PROVE ClientInv'
    <3>1. RoutingTypeOK' BY <2>4 DEF Timeout, Fail, Return, GoOn, RoutingTypeOK
    <3>2. Reached' BY <2>4 DEF Timeout, Fail, Return, GoOn, RoutingTypeOK, Reached
    <3>3. Spent' BY <2>4 DEF Timeout, Fail, Return, GoOn, RoutingTypeOK, Reached, Spent
    <3>4. Committed' BY <2>4 DEF Timeout, Fail, Return, GoOn, RoutingTypeOK, Reached, Committed
    <3> QED BY <3>1, <3>2, <3>3, <3>4
  <2>5. ASSUME NEW c \in Client, Local(c) PROVE ClientInv'
    <3>1. RoutingTypeOK' BY <2>5 DEF Local, Return, RoutingTypeOK, Spent
    <3>2. Reached' BY <2>5 DEF Local, Return, RoutingTypeOK, Reached
    <3>3. Spent' BY <2>5 DEF Local, Return, RoutingTypeOK, Reached, Spent
    <3>4. Committed' BY <2>5 DEF Local, Return, RoutingTypeOK, Committed
    <3> QED BY <3>1, <3>2, <3>3, <3>4
  <2>6. ASSUME NEW c \in Client, Serve(c) PROVE ClientInv'
    <3>1. RoutingTypeOK' BY <2>6 DEF Serve, RoutingTypeOK, Spent
    <3>2. Reached' BY <2>6 DEF Serve, RoutingTypeOK, Reached
    <3>3. Spent' BY <2>6 DEF Serve, RoutingTypeOK, Reached, Spent
    <3>4. Committed' BY <2>6 DEF Serve, RoutingTypeOK, Committed
    <3> QED BY <3>1, <3>2, <3>3, <3>4
  <2>7. ASSUME NEW c \in Client, Receive(c) \/ Refuse(c) \/ Answer(c) \/ Abandon(c) PROVE ClientInv'
    <3>1. RoutingTypeOK' BY <2>7 DEF Receive, Refuse, Answer, Abandon, RoutingTypeOK
    <3>2. Reached' BY <2>7 DEF Receive, Refuse, Answer, Abandon, RoutingTypeOK, Reached
    <3>3. Spent' BY <2>7 DEF Receive, Refuse, Answer, Abandon, RoutingTypeOK, Spent
    <3>4. Committed' BY <2>7 DEF Receive, Refuse, Answer, Abandon, RoutingTypeOK, Committed
    <3> QED BY <3>1, <3>2, <3>3, <3>4
  <2>8. ASSUME Down PROVE ClientInv'
    <3>1. RoutingTypeOK'
      <4>1. wire' \in [Client -> {"open", "200", "status", "broken", "cut"}]
        BY <2>8 DEF Down, RoutingTypeOK
      <4> QED BY <2>8, <4>1 DEF Down, RoutingTypeOK
    <3>2. Reached' BY <2>8 DEF Down, RoutingTypeOK, Reached
    <3>3. Spent' BY <2>8 DEF Down, RoutingTypeOK, Spent
    <3>4. Committed' BY <2>8 DEF Down, RoutingTypeOK, Committed
    <3> QED BY <3>1, <3>2, <3>3, <3>4
  <2>9. ASSUME Up PROVE ClientInv'
    BY <2>9 DEF Up, RoutingTypeOK, Reached, Spent, Committed
  <2>10. CASE UNCHANGED routingVars
    BY <2>10 DEF routingVars, RoutingTypeOK, Reached, Spent, Committed
  <2> QED
    BY <2>1, <2>2, <2>3, <2>4, <2>5, <2>6, <2>7, <2>8, <2>9, <2>10, <2>11 DEF RoutingNext, Invocation
<1> QED BY <1>1, <1>2, PTL DEF RoutingSpec

(* Type correctness; no result is computed more than twice.                *)
THEOREM ClientTypeCorrect == RoutingSpec => []RoutingTypeOK
<1>1. ClientInv => RoutingTypeOK BY DEF ClientInv
<1> QED BY <1>1, ClientInvariant, PTL

(* What a native model or the default of embed has to compute is computed  *)
(* by one process at most: either no server was found and it is this one,  *)
(* or it is the server, which starts on a request once.                    *)
THEOREM OnceOnly == RoutingSpec => []ComputedOnce
<1>1. ClientInv => ComputedOnce
  BY DEF ClientInv, RoutingTypeOK, Spent, Committed, ComputedOnce
<1> QED BY <1>1, ClientInvariant, PTL

(* embed without --model, having found a server, never prints a vector of  *)
(* the built-in default.                                                   *)
THEOREM ModelOfServer == RoutingSpec => []ServersModel
<1>1. ClientInv => ServersModel
  BY DEF ClientInv, Committed, NoRetry, ServersModel
<1> QED BY <1>1, ClientInvariant, PTL
===============================================================================
