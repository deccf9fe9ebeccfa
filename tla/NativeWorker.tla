----------------------------- MODULE NativeWorker -----------------------------
(***************************************************************************)
(* crates/vqtrs-core/src/embedding_gemma2/native/process.rs and native.rs: *)
(* a native EmbeddingGemma 2 engine.  The engine owns a process group (uv  *)
(* and, below it, the Python process of native_worker.py) and one I/O      *)
(* thread, and talks to Python through two pipes and two bounded channels: *)
(*                                                                         *)
(*    caller --requests--> I/O thread --stdin--> Python                    *)
(*    caller <--replies--- I/O thread <--stdout-- Python                   *)
(*                                                                         *)
(* Callers take the mutex of Native for a whole batch, which texts sends   *)
(* in chunks of one request each.  at says where the code that has the     *)
(* Worker to itself is: starting it, a caller with the mutex, or the drop  *)
(* of the last Arc.                                                        *)
(***************************************************************************)
EXTENDS Naturals, Sequences

CONSTANTS
  Caller,       \* threads that call embed or texts
  NoCaller,     \* value of holder while the mutex is free
  Junk,         \* a line that is not a reply, or the end of the stream
  MaxChunks,    \* requests of one batch, at most
  MaxSequence,  \* u64::MAX: the last request number
  PipeSize      \* lines the stdout pipe holds

ASSUME NativeAssumption ==
  /\ NoCaller \notin Caller
  /\ Junk \notin Nat
  /\ MaxChunks \in Nat \ {0}
  /\ MaxSequence \in Nat
  /\ PipeSize \in Nat \ {0}

VARIABLES
  at,        \* control of the code that owns the Worker
  holder,    \* the caller that has the mutex
  phase,     \* each caller: idle, waiting for the mutex, inside, its result
  left,      \* requests the caller inside has still to send
  sequence,  \* Worker::sequence
  broken,    \* Worker::broken
  send,      \* Worker::send is not None
  requests,  \* the channel of requests
  replies,   \* the channel of replies
  io,        \* the I/O thread
  job,       \* the request, then the reply, it has in hand
  stdin,     \* request numbers written and not yet read by Python
  stdout,    \* lines printed and not yet read by the I/O thread
  child,     \* uv, the child of this process: running, zombie or reaped
  peer       \* Python, in the process group of uv

ownerVars == <<at, holder, phase, left, sequence, broken, send>>
ioVars    == <<io, job>>
peerVars  == <<child, peer>>
vars == <<ownerVars, requests, replies, ioVars, stdin, stdout, peerVars>>

Hello == 0             \* the reply without an id that says Python is ready
Line  == 0 .. MaxSequence \cup {Junk}
PeerAlive == peer # "dead"

Init ==
  /\ at = "spawning"
  /\ holder = NoCaller
  /\ phase = [c \in Caller |-> "idle"]
  /\ left = 0
  /\ sequence = 0
  /\ broken = FALSE
  /\ send = TRUE
  /\ requests = <<>>
  /\ replies = <<>>
  /\ io = "none"
  /\ job = Junk
  /\ stdin = <<>>
  /\ stdout = <<>>
  /\ child = "running"
  /\ peer = "loading"

-------------------------------------------------------------------------------
(* Starting and stopping the worker.                                       *)

(* The I/O thread is created, or creating it fails and spawn terminates    *)
(* the child.                                                              *)
SpawnIo ==
  /\ at = "spawning"
  /\ \/ at' = "starting" /\ io' = "reading"
     \/ at' = "kill" /\ UNCHANGED io
  /\ UNCHANGED <<holder, phase, left, sequence, broken, send, requests, replies,
                 job, stdin, stdout, peerVars>>

(* Mutant: a worker that was stopped is stopped again.                     *)
StopAgain == broken' = TRUE /\ at' = "kill"

(* The entry of stop, which returns at once on a worker stopped before.    *)
BeginStop ==
  IF broken /\ io = "joined"
  THEN at' = "gone" /\ UNCHANGED broken
  ELSE at' = "kill" /\ broken' = TRUE

(* terminate: SIGKILL to the process group ...                             *)
Kill ==
  /\ at = "kill"
  /\ at' = "wait"
  /\ child' = IF child = "running" THEN "zombie" ELSE child
  /\ peer' = "dead"
  /\ UNCHANGED <<holder, phase, left, sequence, broken, send, requests, replies,
                 ioVars, stdin, stdout>>

(* Mutant: the sender is dropped only after the join.                      *)
ReapKeepsSender ==
  /\ at = "wait"
  /\ child = "zombie"
  /\ child' = "reaped"
  /\ at' = IF io = "none" THEN "gone" ELSE "join"
  /\ UNCHANGED <<holder, phase, left, sequence, broken, send, requests, replies,
                 ioVars, stdin, stdout, peer>>

(* ... and wait for the child; then stop drops the sender, for the I/O     *)
(* thread to see the end of the channel.                                   *)
Reap ==
  /\ at = "wait"
  /\ child = "zombie"
  /\ child' = "reaped"
  /\ send' = FALSE
  /\ at' = IF io = "none" THEN "gone" ELSE "join"
  /\ UNCHANGED <<holder, phase, left, sequence, broken, requests, replies,
                 ioVars, stdin, stdout, peer>>

(* Mutex guard and result of a call.                                       *)
Leave(result) ==
  /\ phase' = [phase EXCEPT ![holder] = result]
  /\ holder' = NoCaller
  /\ left' = 0
  /\ at' = "free"

(* join returns.  A call that failed returns its error; a start that       *)
(* failed and a drop leave no engine.                                      *)
Join ==
  /\ at = "join"
  /\ io = "ended"
  /\ io' = "joined"
  /\ IF holder # NoCaller
     THEN Leave("err")
     ELSE at' = "gone" /\ UNCHANGED <<holder, phase, left>>
  /\ UNCHANGED <<sequence, broken, send, requests, replies, job, stdin, stdout, peerVars>>

-------------------------------------------------------------------------------
(* Calls.                                                                  *)

Loaded == at \in {"free", "next", "awaiting"} \/ holder # NoCaller

Ask(c) ==
  /\ Loaded
  /\ phase[c] = "idle"
  /\ phase' = [phase EXCEPT ![c] = "waiting"]
  /\ UNCHANGED <<at, holder, left, sequence, broken, send, requests, replies,
                 ioVars, stdin, stdout, peerVars>>

(* The mutex is taken for a batch of n requests; embed has one.            *)
Lock(c, n) ==
  /\ at = "free"
  /\ phase[c] = "waiting"
  /\ phase' = [phase EXCEPT ![c] = "inside"]
  /\ holder' = c
  /\ left' = n
  /\ at' = "next"
  /\ UNCHANGED <<sequence, broken, send, requests, replies, ioVars, stdin, stdout, peerVars>>

(* predict, up to the send: a broken worker refuses, an exhausted sequence *)
(* stops the worker.  (The limit on the size of a request cannot be met    *)
(* with the token limits and chunk sizes of native.rs.)                    *)
Predict ==
  /\ at = "next"
  /\ left > 0
  /\ \/ /\ broken
        /\ Leave("err")
        /\ UNCHANGED <<sequence, broken, requests>>
     \/ /\ ~ broken /\ sequence = MaxSequence
        /\ BeginStop
        /\ UNCHANGED <<holder, phase, left, sequence, requests>>
     \/ /\ ~ broken /\ sequence < MaxSequence
        /\ requests = <<>>
        /\ sequence' = sequence + 1
        /\ requests' = Append(requests, sequence')
        /\ at' = "awaiting"
        /\ UNCHANGED <<holder, phase, left, broken>>
  /\ UNCHANGED <<send, replies, ioVars, stdin, stdout, peerVars>>

(* validate: the identity line while starting, else the number of the      *)
(* request just sent.                                                      *)
Valid(reply) == reply = IF at = "starting" THEN Hello ELSE sequence

(* A valid reply: the worker is ready, or the next chunk is sent.          *)
Accept ==
  /\ IF at = "starting"
     THEN at' = "free" /\ UNCHANGED left
     ELSE at' = "next" /\ left' = left - 1
  /\ UNCHANGED <<holder, phase, broken>>

(* Mutant: a bad reply fails the call and spares the worker.               *)
ReceiveSpares ==
  /\ at \in {"starting", "awaiting"}
  /\ replies # <<>>
  /\ replies' = Tail(replies)
  /\ IF Valid(Head(replies)) THEN Accept
     ELSE IF at = "starting" THEN BeginStop /\ UNCHANGED <<holder, phase, left>>
     ELSE Leave("err") /\ UNCHANGED broken
  /\ UNCHANGED <<sequence, send, requests, ioVars, stdin, stdout, peerVars>>

(* Mutant: a worker that does not come up is forgotten.                    *)
ReceiveForgets ==
  /\ at \in {"starting", "awaiting"}
  /\ replies # <<>>
  /\ replies' = Tail(replies)
  /\ IF Valid(Head(replies)) THEN Accept
     ELSE IF at = "starting" THEN at' = "gone" /\ UNCHANGED <<holder, phase, left, broken>>
     ELSE BeginStop /\ UNCHANGED <<holder, phase, left>>
  /\ UNCHANGED <<sequence, send, requests, ioVars, stdin, stdout, peerVars>>

(* receive and validate: an error of the I/O thread and an invalid reply   *)
(* both stop the worker, in predict or by the drop of what start has made. *)
Receive ==
  /\ at \in {"starting", "awaiting"}
  /\ replies # <<>>
  /\ replies' = Tail(replies)
  /\ IF Valid(Head(replies)) THEN Accept ELSE BeginStop /\ UNCHANGED <<holder, phase, left>>
  /\ UNCHANGED <<sequence, send, requests, ioVars, stdin, stdout, peerVars>>

(* Mutant: a late answer fails the call and spares the worker.             *)
DeadlineSpares ==
  /\ at \in {"starting", "awaiting"}
  /\ replies = <<>>
  /\ IF at = "starting" THEN BeginStop /\ UNCHANGED <<holder, phase, left>>
     ELSE Leave("err") /\ UNCHANGED broken
  /\ UNCHANGED <<sequence, send, requests, replies, ioVars, stdin, stdout, peerVars>>

(* Mutant: only the start has a deadline.                                  *)
DeadlineOfStart ==
  /\ at = "starting"
  /\ replies = <<>>
  /\ BeginStop
  /\ UNCHANGED <<holder, phase, left, sequence, send, requests, replies, ioVars,
                 stdin, stdout, peerVars>>

(* recv_timeout gives up: 15 minutes for the start, 5 for a request.       *)
Deadline ==
  /\ at \in {"starting", "awaiting"}
  /\ replies = <<>>
  /\ BeginStop
  /\ UNCHANGED <<holder, phase, left, sequence, send, requests, replies, ioVars,
                 stdin, stdout, peerVars>>

(* The last chunk is answered.                                             *)
Done ==
  /\ at = "next"
  /\ left = 0
  /\ Leave("ok")
  /\ UNCHANGED <<sequence, broken, send, requests, replies, ioVars, stdin, stdout, peerVars>>

Take(c) ==
  /\ phase[c] \in {"ok", "err"}
  /\ phase' = [phase EXCEPT ![c] = "idle"]
  /\ UNCHANGED <<at, holder, left, sequence, broken, send, requests, replies,
                 ioVars, stdin, stdout, peerVars>>

(* The last Arc of the engine is dropped; a caller has one while it waits. *)
DropWorker ==
  /\ at = "free"
  /\ \A c \in Caller : phase[c] # "waiting"
  /\ BeginStop
  /\ UNCHANGED <<holder, phase, left, sequence, send, requests, replies, ioVars,
                 stdin, stdout, peerVars>>

(* The process that owns the engine ends without dropping it: it is        *)
(* killed, or its main returns.                                            *)
Crash ==
  /\ at \notin {"gone", "crashed"}
  /\ at' = "crashed"
  /\ holder' = NoCaller
  /\ phase' = [c \in Caller |-> "idle"]
  /\ left' = 0
  /\ io' = "dead"
  /\ UNCHANGED <<sequence, broken, send, requests, replies, job, stdin, stdout, peerVars>>

-------------------------------------------------------------------------------
(* The I/O thread.                                                         *)

(* read_reply: the next line, or an error at the end of the stream.        *)
IoRead ==
  /\ io = "reading"
  /\ \/ stdout # <<>> /\ job' = Head(stdout) /\ stdout' = Tail(stdout)
     \/ stdout = <<>> /\ ~ PeerAlive /\ job' = Junk /\ UNCHANGED stdout
  /\ io' = "replying"
  /\ UNCHANGED <<ownerVars, requests, replies, stdin, peerVars>>

(* The channel of replies holds one.                                       *)
IoReply ==
  /\ io = "replying"
  /\ Len(replies) < 1
  /\ replies' = Append(replies, job)
  /\ io' = "recv"
  /\ UNCHANGED <<ownerVars, requests, job, stdin, stdout, peerVars>>

(* recv: a request, or the end of the loop when the sender is gone.        *)
IoRecv ==
  /\ io = "recv"
  /\ \/ /\ requests # <<>>
        /\ job' = Head(requests)
        /\ requests' = Tail(requests)
        /\ io' = "writing"
     \/ /\ requests = <<>> /\ ~ send
        /\ io' = "ended"
        /\ UNCHANGED <<job, requests>>
  /\ UNCHANGED <<ownerVars, replies, stdin, stdout, peerVars>>

(* write_all and flush, which fail when nobody has the other end.          *)
IoWrite ==
  /\ io = "writing"
  /\ IF PeerAlive
     THEN stdin' = Append(stdin, job) /\ io' = "reading" /\ UNCHANGED job
     ELSE job' = Junk /\ io' = "replying" /\ UNCHANGED stdin
  /\ UNCHANGED <<ownerVars, requests, replies, stdout, peerVars>>

-------------------------------------------------------------------------------
(* native_worker.py.                                                       *)

Emit(line) ==
  /\ Len(stdout) < PipeSize
  /\ stdout' = Append(stdout, line)

PeerHello ==
  /\ peer = "loading"
  /\ Emit(Hello)
  /\ peer' = "reading"
  /\ UNCHANGED <<ownerVars, requests, replies, ioVars, stdin, child>>

PeerRead ==
  /\ peer = "reading"
  /\ stdin # <<>>
  /\ peer' = "computing"
  /\ UNCHANGED <<ownerVars, requests, replies, ioVars, stdin, stdout, child>>

(* The request number stays at the head of stdin until it is answered.     *)
PeerReply ==
  /\ peer = "computing"
  /\ Emit(Head(stdin))
  /\ stdin' = Tail(stdin)
  /\ peer' = "reading"
  /\ UNCHANGED <<ownerVars, requests, replies, ioVars, child>>

(* A framework prints to file descriptor 1 itself: redirect_stdout only    *)
(* redirects what Python prints.                                           *)
PeerNoise ==
  /\ PeerAlive
  /\ Emit(Junk)
  /\ UNCHANGED <<ownerVars, requests, replies, ioVars, stdin, peerVars>>

(* An exception, which run lets end the process, or a crash.               *)
PeerExit ==
  /\ PeerAlive
  /\ peer' = "dead"
  /\ UNCHANGED <<ownerVars, requests, replies, ioVars, stdin, stdout, child>>

(* uv ends after the process it runs.                                      *)
ChildExit ==
  /\ child = "running"
  /\ ~ PeerAlive
  /\ child' = "zombie"
  /\ UNCHANGED <<ownerVars, requests, replies, ioVars, stdin, stdout, peer>>

(* Mutant: Python notices only when it reads the next request.             *)
WatchWhenReading ==
  /\ at = "crashed"
  /\ peer = "reading"
  /\ peer' = "dead"
  /\ UNCHANGED <<ownerVars, requests, replies, ioVars, stdin, stdout, child>>

(* watch_owner, a thread of its own, sees its end of the pipe closed.      *)
WatchOwner ==
  /\ at = "crashed"
  /\ PeerAlive
  /\ peer' = "dead"
  /\ UNCHANGED <<ownerVars, requests, replies, ioVars, stdin, stdout, child>>

-------------------------------------------------------------------------------
(* Nothing is left to do: no owner and no process.                         *)
Over ==
  /\ at \in {"gone", "crashed"}
  /\ ~ PeerAlive
  /\ UNCHANGED vars

Worker == SpawnIo \/ Kill \/ Reap \/ Join \/ Predict \/ Receive \/ Deadline \/ Done

IoThread == IoRead \/ IoReply \/ IoRecv \/ IoWrite

Python == PeerHello \/ PeerRead \/ PeerReply \/ PeerNoise \/ PeerExit \/ ChildExit

Next ==
  \/ Worker \/ IoThread \/ Python \/ WatchOwner
  \/ \E c \in Caller : Ask(c) \/ Take(c)
  \/ \E c \in Caller, n \in 1 .. MaxChunks : Lock(c, n)
  \/ DropWorker \/ Crash \/ Over

(* The owner's code runs on, recv_timeout returns, the I/O thread and the  *)
(* watching thread are scheduled.  Python owes nothing: it may hang.       *)
Fairness == WF_vars(Worker) /\ WF_vars(IoThread) /\ WF_vars(WatchOwner)

Spec == Init /\ [][Next]_vars /\ Fairness
-------------------------------------------------------------------------------
(* Properties.                                                             *)

Stopping == at \in {"kill", "wait", "join"}

(* Every variable stays in its type; the number of a request fits its u64. *)
TypeOK ==
  /\ at \in {"spawning", "starting", "free", "next", "awaiting", "kill", "wait",
             "join", "gone", "crashed"}
  /\ holder \in Caller \cup {NoCaller}
  /\ phase \in [Caller -> {"idle", "waiting", "inside", "ok", "err"}]
  /\ left \in 0 .. MaxChunks
  /\ sequence \in 0 .. MaxSequence
  /\ broken \in BOOLEAN
  /\ send \in BOOLEAN
  /\ requests \in Seq(1 .. MaxSequence) /\ Len(requests) <= 1
  /\ replies \in Seq(Line) /\ Len(replies) <= 1
  /\ io \in {"none", "reading", "replying", "recv", "writing", "ended", "joined", "dead"}
  /\ job \in Line
  /\ stdin \in Seq(1 .. MaxSequence)
  /\ stdout \in Seq(Line)
  /\ child \in {"running", "zombie", "reaped"}
  /\ peer \in {"loading", "reading", "computing", "dead"}
  /\ \A c \in Caller : phase[c] = "inside" <=> holder = c

(* When a request is about to be sent, nothing of an earlier one is under  *)
(* way: no reply in a channel or a pipe, none in the hands of the I/O      *)
(* thread and none being computed.  An answer that comes too late can so   *)
(* never be taken for the answer to a later request.                       *)
NoStaleReply ==
  at \in {"free", "next"} /\ ~ broken =>
    /\ requests = <<>> /\ replies = <<>> /\ stdin = <<>>
    /\ io = "recv"
    /\ peer \in {"reading", "dead"}
    /\ \A i \in DOMAIN stdout : stdout[i] = Junk

(* SIGKILL goes to the group of a child that has not been waited for, so   *)
(* never to a process that has got the same number since.                  *)
KillsOwnGroup == at = "kill" => child # "reaped"

(* Whenever the engine has failed and its mutex is free, or is gone, there *)
(* is no process and no thread of it any more, also after a failed start.  *)
LeavesNothing ==
  (at \in {"free", "next"} /\ broken) \/ at = "gone" =>
    child = "reaped" /\ ~ PeerAlive /\ io \in {"joined", "none"}

(* stop ends: the join does not wait for an I/O thread that waits for a    *)
(* request, for room for its reply or for a line.                          *)
StopEnds == Stopping ~> ~ Stopping

(* A caller gives the mutex back, also when Python hangs.                  *)
HolderReleases == \A c \in Caller : holder = c ~> holder # c

(* Python ends after its owner has died, even in the middle of a           *)
(* prediction.                                                             *)
OrphanDies == at = "crashed" ~> ~ PeerAlive

-------------------------------------------------------------------------------
(* The engine is fail-stop: what FailStop promises.                        *)
Engine ==
  IF broken \/ at \in {"gone", "crashed"} \/ (Stopping /\ io = "none") THEN "down"
  ELSE IF at \in {"spawning", "starting"} THEN "starting"
  ELSE "up"

Phase ==
  [c \in Caller |-> IF phase[c] \in {"waiting", "inside"} THEN "asked" ELSE phase[c]]

Abstract == INSTANCE FailStop WITH engine <- Engine, phase <- Phase

(* One failure ends the engine for good, no call fails on a healthy one    *)
(* and none succeeds on a failed one.                                      *)
ImplementsFailStop == Abstract!Spec
===============================================================================
