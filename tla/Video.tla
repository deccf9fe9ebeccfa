--------------------------------- MODULE Video ---------------------------------
(***************************************************************************)
(* crates/vqtrs-core/src/embedding_gemma2/video.rs: decode_container_rgb   *)
(* writes a container to a private directory and runs ffprobe, ffprobe and *)
(* ffmpeg on it, one after the other, each through run_bounded, which      *)
(* bounds its output and its time.  Calls run at the same time, in the     *)
(* blocking threads of one process; the process may die and be started     *)
(* again with the same process number, as the first one of a container is. *)
(*                                                                         *)
(* Output is counted in units of which run_bounded accepts Cap.            *)
(***************************************************************************)
EXTENDS Naturals, FiniteSets

CONSTANTS
  Call,         \* threads that decode a video
  Attempts,     \* rounds of LocalContainer::create (32)
  Stages,       \* subprocesses of a call (3)
  MaxSequence,  \* bound: directory numbers of one process
  Cap,          \* units of output a subprocess may print
  PipeSize      \* units the pipe holds

ASSUME VideoAssumption ==
  /\ Attempts \in Nat \ {0}
  /\ Stages \in Nat \ {0}
  /\ MaxSequence \in Nat
  /\ Cap \in Nat
  /\ PipeSize \in Nat \ {0}

VARIABLES
  sequence,  \* SEQUENCE of LocalContainer::create: the next number
  dirs,      \* numbers of the directories there are
  leftover,  \* those a process that died has left
  pc,        \* where each call is
  tries,     \* rounds of create left
  dir,       \* the directory of the call, None without one
  stage,     \* the subprocess it is at
  verdict,   \* what run_bounded has learnt of the subprocess
  child,     \* the subprocess: none, running, or ended and not reaped
  exit,      \* how it ended
  made,      \* units it has printed
  pipe,      \* those in the pipe
  got,       \* those the reader thread has read
  reader,    \* the reader thread: none, reading or ended
  lost       \* calls whose reader thread could not be created

vars == <<sequence, dirs, leftover, pc, tries, dir, stage, verdict,
          child, exit, made, pipe, got, reader, lost>>

directories == <<sequence, dirs, leftover>>
locals      == <<tries, dir, stage, verdict>>
process     == <<child, exit>>
output      == <<made, pipe, got, reader>>

None == MaxSequence

Init ==
  /\ sequence = 0 /\ dirs = {} /\ leftover = {}
  /\ pc = [c \in Call |-> "idle"]
  /\ tries = [c \in Call |-> 0]
  /\ dir = [c \in Call |-> None]
  /\ stage = [c \in Call |-> 1]
  /\ verdict = [c \in Call |-> "none"]
  /\ child = [c \in Call |-> "none"]
  /\ exit = [c \in Call |-> "none"]
  /\ made = [c \in Call |-> 0]
  /\ pipe = [c \in Call |-> 0]
  /\ got = [c \in Call |-> 0]
  /\ reader = [c \in Call |-> "none"]
  /\ lost = {}

-------------------------------------------------------------------------------
(* A call.                                                                 *)

Goto(c, where) == pc' = [pc EXCEPT ![c] = where]

(* The call returns and its locals are gone.                               *)
Return(c) ==
  /\ Goto(c, "idle")
  /\ tries' = [tries EXCEPT ![c] = 0]
  /\ dir' = [dir EXCEPT ![c] = None]
  /\ stage' = [stage EXCEPT ![c] = 1]
  /\ verdict' = [verdict EXCEPT ![c] = "none"]

Begin(c) ==
  /\ pc[c] = "idle" /\ c \notin lost
  /\ Goto(c, "create")
  /\ tries' = [tries EXCEPT ![c] = Attempts]
  /\ UNCHANGED <<directories, dir, stage, verdict, process, output, lost>>

(* Mutant: the number is read and not advanced.                            *)
CreateSame(c) ==
  /\ pc[c] = "create"
  /\ tries[c] > 0
  /\ tries' = [tries EXCEPT ![c] = @ - 1]
  /\ IF sequence \in dirs
     THEN UNCHANGED <<dirs, dir, pc>>
     ELSE /\ dirs' = dirs \cup {sequence}
          /\ dir' = [dir EXCEPT ![c] = sequence]
          /\ Goto(c, "spawn")
  /\ UNCHANGED <<sequence, leftover, stage, verdict, process, output, lost>>

(* Mutant: a directory that exists will do.                                *)
CreateShared(c) ==
  /\ pc[c] = "create"
  /\ sequence < MaxSequence
  /\ dirs' = dirs \cup {sequence}
  /\ dir' = [dir EXCEPT ![c] = sequence]
  /\ Goto(c, "spawn")
  /\ sequence' \in {sequence, sequence + 1}
  /\ UNCHANGED <<leftover, tries, stage, verdict, process, output, lost>>

(* A round of LocalContainer::create: fetch_add, and a directory made by   *)
(* nobody else.                                                            *)
Create(c) ==
  /\ pc[c] = "create"
  /\ tries[c] > 0
  /\ sequence < MaxSequence
  /\ sequence' = sequence + 1
  /\ tries' = [tries EXCEPT ![c] = @ - 1]
  /\ IF sequence \in dirs
     THEN UNCHANGED <<dirs, dir, pc>>
     ELSE /\ dirs' = dirs \cup {sequence}
          /\ dir' = [dir EXCEPT ![c] = sequence]
          /\ Goto(c, "spawn")
  /\ UNCHANGED <<leftover, stage, verdict, process, output, lost>>

CreateFails(c) ==
  /\ pc[c] = "create"
  /\ tries[c] = 0
  /\ Return(c)
  /\ UNCHANGED <<directories, process, output, lost>>

(* The directory cannot be made for another reason.                        *)
CreateError(c) ==
  /\ pc[c] = "create"
  /\ tries[c] > 0
  /\ sequence < MaxSequence
  /\ sequence' = sequence + 1
  /\ Return(c)
  /\ UNCHANGED <<dirs, leftover, process, output, lost>>

(* Mutant: the reader thread takes what is allowed and no more.            *)
ReadCap(c) ==
  /\ reader[c] = "reading"
  /\ \/ /\ pipe[c] > 0 /\ got[c] < Cap
        /\ pipe' = [pipe EXCEPT ![c] = @ - 1]
        /\ got' = [got EXCEPT ![c] = @ + 1]
        /\ UNCHANGED reader
     \/ /\ got[c] = Cap \/ (pipe[c] = 0 /\ child[c] # "running")
        /\ reader' = [reader EXCEPT ![c] = "ended"]
        /\ pipe' = [pipe EXCEPT ![c] = 0]
        /\ UNCHANGED got
  /\ UNCHANGED <<directories, pc, locals, process, made, lost>>

(* run_bounded: the subprocess and the reader thread are created.          *)
Spawn(c) ==
  /\ pc[c] = "spawn"
  /\ Goto(c, "poll")
  /\ child' = [child EXCEPT ![c] = "running"]
  /\ reader' = [reader EXCEPT ![c] = "reading"]
  /\ UNCHANGED <<directories, locals, exit, made, pipe, got, lost>>

(* The container cannot be written, or there is no ffprobe or ffmpeg.      *)
SpawnFails(c) ==
  /\ pc[c] = "spawn"
  /\ Goto(c, "drop")
  /\ UNCHANGED <<directories, locals, process, output, lost>>

(* thread::spawn panics, which closes the pipe; the subprocess is neither  *)
(* killed nor waited for.                                                  *)
ReaderFails(c) ==
  /\ pc[c] = "spawn"
  /\ Goto(c, "drop")
  /\ child' = [child EXCEPT ![c] = "running"]
  /\ lost' = lost \cup {c}
  /\ UNCHANGED <<directories, locals, exit, output>>

(* try_wait, until the 30 seconds of the call have passed.  A poll that    *)
(* finds them passed is the last of the call, so that no clock is needed.  *)
Poll(c) ==
  /\ pc[c] = "poll"
  /\ \/ /\ child[c] = "ended"
        /\ verdict' = [verdict EXCEPT ![c] = exit[c]]
        /\ Goto(c, "wait")
     \/ /\ child[c] = "running"
        /\ verdict' = [verdict EXCEPT ![c] = "late"]
        /\ Goto(c, "kill")
  /\ UNCHANGED <<directories, tries, dir, stage, process, output, lost>>

(* Mutant: the subprocess is left to itself.                               *)
KillNot(c) ==
  /\ pc[c] = "kill"
  /\ Goto(c, "wait")
  /\ UNCHANGED <<directories, locals, process, output, lost>>

Kill(c) ==
  /\ pc[c] = "kill"
  /\ Goto(c, "wait")
  /\ child' = [child EXCEPT ![c] = "ended"]
  /\ exit' = [exit EXCEPT ![c] = IF child[c] = "running" THEN "failure" ELSE @]
  /\ UNCHANGED <<directories, locals, output, lost>>

(* Mutant: a subprocess that was killed is not waited for.                 *)
WaitNot(c) ==
  /\ pc[c] = "wait"
  /\ Goto(c, "join")
  /\ IF verdict[c] = "late" THEN UNCHANGED child ELSE child' = [child EXCEPT ![c] = "none"]
  /\ UNCHANGED <<directories, locals, exit, output, lost>>

Wait(c) ==
  /\ pc[c] = "wait"
  /\ child[c] = "ended"
  /\ child' = [child EXCEPT ![c] = "none"]
  /\ Goto(c, "join")
  /\ UNCHANGED <<directories, locals, exit, output, lost>>

Join(c) ==
  /\ pc[c] = "join"
  /\ reader[c] = "ended"
  /\ reader' = [reader EXCEPT ![c] = "none"]
  /\ Goto(c, "check")
  /\ UNCHANGED <<directories, locals, process, made, pipe, got, lost>>

(* What run_bounded returns as the output of the subprocess.               *)
Accepted(c) == verdict[c] = "success" /\ got[c] <= Cap

(* The next subprocess.  parse_probe, the counting of frames and the size  *)
(* of the raw frames may refuse the output.                                *)
Check(c) ==
  /\ pc[c] = "check"
  /\ \/ /\ Accepted(c) /\ stage[c] < Stages
        /\ stage' = [stage EXCEPT ![c] = @ + 1]
        /\ Goto(c, "spawn")
     \/ Goto(c, "drop") /\ UNCHANGED stage
  /\ verdict' = [verdict EXCEPT ![c] = "none"]
  /\ exit' = [exit EXCEPT ![c] = "none"]
  /\ made' = [made EXCEPT ![c] = 0]
  /\ got' = [got EXCEPT ![c] = 0]
  /\ UNCHANGED <<directories, tries, dir, child, pipe, reader, lost>>

(* LocalContainer is dropped, on a return and on a panic.                  *)
Drop(c) ==
  /\ pc[c] = "drop"
  /\ dirs' = dirs \ {dir[c]}
  /\ Return(c)
  /\ UNCHANGED <<sequence, leftover, process, output, lost>>

-------------------------------------------------------------------------------
(* The subprocess and the reader thread.                                   *)

(* A unit is printed; a write that nobody will read ends the subprocess.   *)
(* (One unit too many is printed: more are no different.)                  *)
Write(c) ==
  /\ child[c] = "running"
  /\ \/ /\ reader[c] = "reading" /\ pipe[c] < PipeSize /\ made[c] <= Cap
        /\ made' = [made EXCEPT ![c] = @ + 1]
        /\ pipe' = [pipe EXCEPT ![c] = @ + 1]
        /\ UNCHANGED process
     \/ /\ reader[c] # "reading"
        /\ child' = [child EXCEPT ![c] = "ended"]
        /\ exit' = [exit EXCEPT ![c] = "failure"]
        /\ UNCHANGED <<made, pipe>>
  /\ UNCHANGED <<directories, pc, locals, got, reader, lost>>

End(c) ==
  /\ child[c] = "running"
  /\ child' = [child EXCEPT ![c] = "ended"]
  /\ \E how \in {"success", "failure"} : exit' = [exit EXCEPT ![c] = how]
  /\ UNCHANGED <<directories, pc, locals, output, lost>>

(* take(cap + 1) and read_to_end; at its end the thread closes the pipe.   *)
Read(c) ==
  /\ reader[c] = "reading"
  /\ \/ /\ pipe[c] > 0 /\ got[c] < Cap + 1
        /\ pipe' = [pipe EXCEPT ![c] = @ - 1]
        /\ got' = [got EXCEPT ![c] = @ + 1]
        /\ UNCHANGED reader
     \/ /\ got[c] = Cap + 1 \/ (pipe[c] = 0 /\ child[c] # "running")
        /\ reader' = [reader EXCEPT ![c] = "ended"]
        /\ pipe' = [pipe EXCEPT ![c] = 0]
        /\ UNCHANGED got
  /\ UNCHANGED <<directories, pc, locals, process, made, lost>>

(* The process dies and is started again with the same number: what it had *)
(* in memory is gone, the directories are not.                             *)
Restart ==
  /\ sequence' = 0
  /\ leftover' = dirs
  /\ pc' = [c \in Call |-> "idle"]
  /\ tries' = [c \in Call |-> 0]
  /\ dir' = [c \in Call |-> None]
  /\ stage' = [c \in Call |-> 1]
  /\ verdict' = [c \in Call |-> "none"]
  /\ child' = [c \in Call |-> "none"]
  /\ exit' = [c \in Call |-> "none"]
  /\ made' = [c \in Call |-> 0]
  /\ pipe' = [c \in Call |-> 0]
  /\ got' = [c \in Call |-> 0]
  /\ reader' = [c \in Call |-> "none"]
  /\ lost' = {}
  /\ UNCHANGED dirs

-------------------------------------------------------------------------------
Decode(c) ==
  \/ Create(c) \/ CreateFails(c) \/ CreateError(c)
  \/ Spawn(c) \/ SpawnFails(c) \/ ReaderFails(c)
  \/ Poll(c) \/ Kill(c) \/ Wait(c) \/ Join(c) \/ Check(c) \/ Drop(c)

Next ==
  \/ \E c \in Call : Begin(c) \/ Decode(c) \/ Write(c) \/ End(c) \/ Read(c)
  \/ Restart

(* Calls run on, time passes, the reader thread is scheduled.  Nothing is  *)
(* assumed of the subprocesses, which may hang or print without end.       *)
Spec ==
  /\ Init /\ [][Next]_vars
  /\ \A c \in Call : WF_vars(Decode(c)) /\ WF_vars(Read(c))

-------------------------------------------------------------------------------
(* Properties.                                                             *)

(* A container is one call's own, neither another call's nor left by an    *)
(* earlier process, and it is there as long as a subprocess may read it.   *)
OwnContainer ==
  /\ \A c, d \in Call : c # d /\ dir[c] # None => dir[c] # dir[d]
  /\ \A c \in Call :
       /\ dir[c] # None => dir[c] \in dirs \ leftover
       /\ child[c] # "none" /\ c \notin lost => dir[c] # None

(* When no call is under way, no directory of this process is left, and    *)
(* neither a subprocess nor a reader thread; but for the subprocess of a   *)
(* call that has panicked.                                                 *)
LeavesNothing ==
  /\ dirs \subseteq leftover \cup {dir[c] : c \in Call}
  /\ \A c \in Call :
       pc[c] = "idle" => /\ dir[c] = None /\ reader[c] = "none"
                         /\ child[c] = "none" \/ c \in lost

(* Output that is accepted is all the subprocess has printed, and it has   *)
(* ended well: nothing that was cut off at the limit or by the kill passes *)
(* for a whole answer.                                                     *)
WholeOutput ==
  \A c \in Call :
    pc[c] = "check" /\ Accepted(c) => got[c] = made[c] /\ exit[c] = "success"

(* A call goes without a directory only when earlier processes have left   *)
(* one for each of its rounds; calls of this process are never in its way. *)
OnlyLeftoversRefuse ==
  [][\A c \in Call : CreateFails(c) => Cardinality(leftover) >= Attempts]_vars

(* Every call ends, also when the subprocess hangs, prints without end or  *)
(* ignores its closed pipe; the bound on numbers apart.                    *)
CallsEnd ==
  \A c \in Call : pc[c] \notin {"idle", "create"} ~> pc[c] = "idle"
===============================================================================
