-------------------------------- MODULE Routing --------------------------------
(***************************************************************************)
(* crates/vqtrs-cli/src/main.rs, daemon.rs and media.rs: where `vqtrs      *)
(* embed`, `embed-media`, `sparse`, `m3` and `rerank` have their result    *)
(* computed.  An invocation first tries the server that accepts on the     *)
(* Unix socket and otherwise loads the model in its own process.           *)
(*                                                                         *)
(* The server is what an invocation sees of it: it comes and goes, sheds,  *)
(* fails, is slow, and goes on computing for a client that has left (see   *)
(* Admission).  One invocation, with what it has caused in the server, is  *)
(* one element of Client; it makes one request.                            *)
(***************************************************************************)
EXTENDS Naturals

CONSTANT Client  \* vqtrs invocations

VARIABLES
  daemon,    \* "down" or "up": is something accepting on the socket?
  request,   \* what each invocation was asked: route, name of the model, try
  at,        \* where it is
  warm,      \* did it find a server when it looked?
  job,       \* its request in the server: "none", "arriving" (longer than the
             \* socket's buffer, and not read to its end), "queued" or "running"
  wire,      \* what its stream holds: nothing yet, an answer, a broken end
  computed,  \* processes that started to compute its result
  by         \* where its result was computed, or that it failed

routingVars == <<daemon, request, at, warm, job, wire, computed, by>>

Route == {"embed", "media", "sparse", "m3", "rerank"}

(* The name after --model: none; one of the two native models of the dense *)
(* catalog; any other.  embed-media has a default, so always a name.       *)
Name == {"none", "native", "other"}

Request ==
  {r \in [route : Route, name : Name, try : BOOLEAN] :
     /\ r.name = "native" => r.route \in {"embed", "media"}
     /\ r.route = "media" => r.name # "none"}

(* Mutant: only an explicit native model is not tried again.               *)
NativeOnly(r) == r.route \in {"embed", "media"} /\ r.name = "native"

(* try_embedding_daemon: no_retry.  The other routes use try_daemon.       *)
NoRetry(r) == r.route \in {"embed", "media"} /\ r.name # "other"

RoutingInit ==
  /\ daemon \in {"down", "up"}
  /\ request \in [Client -> Request]
  /\ at = [c \in Client |-> "live"]
  /\ warm = [c \in Client |-> FALSE]
  /\ job = [c \in Client |-> "none"]
  /\ wire = [c \in Client |-> "open"]
  /\ computed = [c \in Client |-> 0]
  /\ by = [c \in Client |-> "nobody"]

-------------------------------------------------------------------------------
(* The invocation.                                                         *)

GoOn(c, stage) ==
  /\ at' = [at EXCEPT ![c] = stage]
  /\ UNCHANGED by

Return(c, result) ==
  /\ at' = [at EXCEPT ![c] = "done"]
  /\ by' = [by EXCEPT ![c] = result]

(* live: a first connection, dropped at once.                              *)
Look(c) ==
  /\ at[c] = "live"
  /\ IF request[c].try /\ daemon = "up"
     THEN GoOn(c, "connect") /\ warm' = [warm EXCEPT ![c] = TRUE]
     ELSE GoOn(c, "local") /\ UNCHANGED warm
  /\ UNCHANGED <<daemon, request, job, wire, computed>>

(* Mutant: what the server did not answer is computed locally.             *)
FailLocal(c) == GoOn(c, "local")

(* post_json has failed.                                                   *)
Fail(c) ==
  IF NoRetry(request[c]) THEN Return(c, "error") ELSE GoOn(c, "local")

(* post_json: the second connection; the server may have gone.  Connecting *)
(* does not wait: the listener's backlog is taken to have room.  What the  *)
(* socket's buffer can take of the request is written at once.             *)
Post(c) ==
  /\ at[c] = "connect"
  /\ \/ /\ daemon = "up"
        /\ GoOn(c, "write")
        /\ \E rest \in {"arriving", "queued"} : job' = [job EXCEPT ![c] = rest]
     \/ Fail(c) /\ UNCHANGED job
  /\ UNCHANGED <<daemon, request, warm, wire, computed>>

(* write_all, which has no timeout, waits for the server to read the rest, *)
(* and fails when it has closed the connection.                            *)
Write(c) ==
  /\ at[c] = "write"
  /\ job[c] # "arriving"
  /\ GoOn(c, "read") \/ (wire[c] \in {"status", "broken"} /\ Fail(c))
  /\ UNCHANGED <<daemon, request, warm, job, wire, computed>>

(* read_to_end and the status line.  An answer that breaks off after its   *)
(* head is no failure of post_json: parsing it is, and nothing follows.    *)
Read(c) ==
  /\ at[c] = "read"
  /\ \/ wire[c] = "200" /\ Return(c, "daemon")
     \/ wire[c] \in {"status", "broken"} /\ Fail(c)
     \/ wire[c] = "cut" /\ Return(c, "error")
  /\ UNCHANGED <<daemon, request, warm, job, wire, computed>>

(* Mutant: no read timeout.                                                *)
TimeoutNever(c) ==
  /\ at[c] = "read"
  /\ wire[c] = "status"
  /\ Fail(c)
  /\ UNCHANGED <<daemon, request, warm, job, wire, computed>>

(* Five minutes without an answer.  The server is not told.                *)
Timeout(c) ==
  /\ at[c] = "read"
  /\ wire[c] = "open"
  /\ Fail(c)
  /\ UNCHANGED <<daemon, request, warm, job, wire, computed>>

(* The model is loaded and used in this process, or is unknown, not built  *)
(* in, or fails to load, before anything is computed.                      *)
Local(c) ==
  /\ at[c] = "local"
  /\ \/ /\ computed' = [computed EXCEPT ![c] = @ + 1]
        /\ \E result \in {"local", "error"} : Return(c, result)
     \/ Return(c, "error") /\ UNCHANGED computed
  /\ UNCHANGED <<daemon, request, warm, job, wire>>

-------------------------------------------------------------------------------
(* The server.                                                             *)

(* The server has read the request to its end.                             *)
Receive(c) ==
  /\ job[c] = "arriving"
  /\ job' = [job EXCEPT ![c] = "queued"]
  /\ UNCHANGED <<daemon, request, at, warm, wire, computed, by>>

(* A permit, a body within the limits and a free thread.                   *)
Serve(c) ==
  /\ job[c] = "queued"
  /\ job' = [job EXCEPT ![c] = "running"]
  /\ computed' = [computed EXCEPT ![c] = @ + 1]
  /\ UNCHANGED <<daemon, request, at, warm, wire, by>>

(* 413, 422, 429 or 503, some of them without reading on.                  *)
Refuse(c) ==
  /\ job[c] \in {"arriving", "queued"}
  /\ job' = [job EXCEPT ![c] = "none"]
  /\ wire' = [wire EXCEPT ![c] = "status"]
  /\ UNCHANGED <<daemon, request, at, warm, computed, by>>

(* The result, or the error of a load or an inference.                     *)
Answer(c) ==
  /\ job[c] = "running"
  /\ job' = [job EXCEPT ![c] = "none"]
  /\ \E answer \in {"200", "status"} : wire' = [wire EXCEPT ![c] = answer]
  /\ UNCHANGED <<daemon, request, at, warm, computed, by>>

(* A client that has left takes its request with it while nothing computes *)
(* for it yet.                                                             *)
Abandon(c) ==
  /\ job[c] = "queued"
  /\ at[c] \notin {"write", "read"}
  /\ job' = [job EXCEPT ![c] = "none"]
  /\ UNCHANGED <<daemon, request, at, warm, wire, computed, by>>

(* The server dies with its work, in the middle of answers too.            *)
Down ==
  /\ daemon = "up"
  /\ daemon' = "down"
  /\ job' = [c \in Client |-> "none"]
  /\ \E end \in [Client -> {"broken", "cut"}] :
       wire' = [c \in Client |->
                 CASE job[c] \in {"arriving", "queued"} -> "broken"
                   [] job[c] = "running"               -> end[c]
                   [] job[c] = "none"                  -> wire[c]]
  /\ UNCHANGED <<request, at, warm, computed, by>>

Up ==
  /\ daemon = "down"
  /\ daemon' = "up"
  /\ UNCHANGED <<request, at, warm, job, wire, computed, by>>

-------------------------------------------------------------------------------
Invocation(c) == Look(c) \/ Post(c) \/ Write(c) \/ Read(c) \/ Timeout(c) \/ Local(c)

RoutingNext ==
  \/ \E c \in Client : Invocation(c) \/ Receive(c) \/ Serve(c) \/ Refuse(c) \/ Answer(c) \/ Abandon(c)
  \/ Down \/ Up

(* An invocation runs on and its read times out.  The server owes nothing. *)
RoutingSpec ==
  RoutingInit /\ [][RoutingNext]_routingVars /\ \A c \in Client : WF_routingVars(Invocation(c))

-------------------------------------------------------------------------------
(* Properties.                                                             *)

RoutingTypeOK ==
  /\ daemon \in {"down", "up"}
  /\ request \in [Client -> Request]
  /\ at \in [Client -> {"live", "connect", "write", "read", "local", "done"}]
  /\ warm \in [Client -> BOOLEAN]
  /\ job \in [Client -> {"none", "arriving", "queued", "running"}]
  /\ wire \in [Client -> {"open", "200", "status", "broken", "cut"}]
  /\ computed \in [Client -> 0 .. 2]
  /\ by \in [Client -> {"nobody", "daemon", "local", "error"}]

(* What a native model or the default model of embed has to compute is     *)
(* computed by one process at most, also when the answer comes after the   *)
(* time-out or the server dies in the middle of it.                        *)
ComputedOnce == \A c \in Client : NoRetry(request[c]) => computed[c] <= 1

(* embed without --model uses the model of the running server: having seen *)
(* one, it never prints a vector of the built-in default, which the local  *)
(* path would use.                                                         *)
ServersModel ==
  \A c \in Client :
    request[c].route = "embed" /\ request[c].name = "none" /\ warm[c] => by[c] # "local"

(* Every invocation ends, also when the server hangs with its request in   *)
(* hand, unless the server hangs before it has read a request that its     *)
(* socket's buffer cannot hold: that one waits as long as the server does. *)
InvocationsEnd ==
  \A c \in Client : <>(at[c] = "done") \/ <>[](at[c] = "write" /\ job[c] = "arriving")
===============================================================================
