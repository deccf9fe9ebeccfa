------------------------------- MODULE Admission ------------------------------
(***************************************************************************)
(* crates/vqtrs-api/src/main.rs and multimodal.rs: how the server admits   *)
(* inference requests.  A request first takes a permit of the in-flight    *)
(* semaphore (the InFlight extractor), then its body is read, its batch    *)
(* length is checked, and a closure is handed to tokio's blocking pool,    *)
(* whose result the handler awaits.                                        *)
(*                                                                         *)
(* The two kinds of endpoint differ in who owns the permit meanwhile: the  *)
(* handlers of text (embeddings, sparse_embeddings, m3_embeddings, rerank) *)
(* keep it in the handler future, the handler of media moves it into the   *)
(* closure.  When the client goes away hyper drops the handler future; a   *)
(* closure given to spawn_blocking runs on regardless.                     *)
(*                                                                         *)
(* A request slot stands for one connection; it is used again once nothing *)
(* of the earlier request is left.                                         *)
(***************************************************************************)
EXTENDS Settings, FiniteSets

CONSTANTS
  Slot,         \* connections
  PoolSize      \* threads of tokio's blocking pool (512 unless configured)

ASSUME AdmissionAssumption ==
  /\ IsFiniteSet(Slot)
  /\ PoolSize \in Nat \ {0}

VARIABLES
  permits,   \* available permits of the semaphore
  kind,      \* endpoint of the request in each slot
  handler,   \* the handler future: none, reading the body, awaiting the task
  task,      \* the closure: none, queued, running, or ended with its result
  owner,     \* what would release the permit of the slot when dropped
  queue,     \* closures waiting for a thread of the pool, oldest first
  reply      \* status of the last response sent on the connection, 0 = none yet

vars == <<permits, kind, handler, task, owner, queue, reply>>

Kind   == {"text", "media"}
Status == {200, 400, 413, 422, 429, 500}
Alive(r) == task[r] \in {"queued", "running"}
Running == {r \in Slot : task[r] = "running"}

Init ==
  /\ permits = MaxInflight
  /\ kind = [r \in Slot |-> "text"]
  /\ handler = [r \in Slot |-> "none"]
  /\ task = [r \in Slot |-> "none"]
  /\ owner = [r \in Slot |-> "none"]
  /\ queue = <<>>
  /\ reply = [r \in Slot |-> 0]

-------------------------------------------------------------------------------
(* Permits.                                                                *)

Acquire(r) ==
  /\ permits > 0
  /\ permits' = permits - 1
  /\ owner' = [owner EXCEPT ![r] = "handler"]

(* Mutant: a permit given to a closure is lost with it.                    *)
ReleaseHandlers(r, holder) ==
  IF owner[r] = holder /\ holder = "handler"
  THEN /\ permits' = permits + 1
       /\ owner' = [owner EXCEPT ![r] = "none"]
  ELSE UNCHANGED <<permits, owner>>

(* Whatever owned the permit is dropped.                                   *)
ReleaseIf(r, holder) ==
  IF owner[r] = holder
  THEN /\ permits' = permits + 1
       /\ owner' = [owner EXCEPT ![r] = "none"]
  ELSE UNCHANGED <<permits, owner>>

-------------------------------------------------------------------------------
(* The handler.                                                            *)

Idle(r) == handler[r] = "none" /\ task[r] = "none"

(* The extractor InFlight runs before the body is read: a permit, or 429   *)
(* at once.                                                                *)
Admit(r, e) ==
  /\ Idle(r)
  /\ Acquire(r)
  /\ kind' = [kind EXCEPT ![r] = e]
  /\ handler' = [handler EXCEPT ![r] = "body"]
  /\ reply' = [reply EXCEPT ![r] = 0]
  /\ UNCHANGED <<task, queue>>

Shed(r, e) ==
  /\ Idle(r)
  /\ permits = 0
  /\ kind' = [kind EXCEPT ![r] = e]
  /\ reply' = [reply EXCEPT ![r] = 429]
  /\ UNCHANGED <<permits, handler, task, owner, queue>>

(* The handler answers and its locals are dropped.                         *)
Answer(r, status) ==
  /\ handler' = [handler EXCEPT ![r] = "none"]
  /\ reply' = [reply EXCEPT ![r] = status]
  /\ ReleaseIf(r, "handler")

(* The Json extractor refuses the body; 422 stands for each of its codes.  *)
BadBody(r) ==
  /\ handler[r] = "body"
  /\ Answer(r, 422)
  /\ UNCHANGED <<kind, task, queue>>

(* check_batch_len, and for media the check for an empty batch.            *)
RefuseBatch(r, n) ==
  /\ handler[r] = "body"
  /\ \/ n > BatchCap /\ Answer(r, 413)
     \/ n = 0 /\ kind[r] = "media" /\ Answer(r, 400)
  /\ UNCHANGED <<kind, task, queue>>

(* Mutant: no closure takes its permit along.                              *)
SpawnWithoutPermit(r, n) ==
  /\ handler[r] = "body"
  /\ n <= BatchCap
  /\ ~ (n = 0 /\ kind[r] = "media")
  /\ handler' = [handler EXCEPT ![r] = "waiting"]
  /\ task' = [task EXCEPT ![r] = "queued"]
  /\ queue' = Append(queue, r)
  /\ UNCHANGED <<permits, owner, kind, reply>>

(* spawn_blocking; the closure of media takes the permit along.            *)
Spawn(r, n) ==
  /\ handler[r] = "body"
  /\ n <= BatchCap
  /\ ~ (n = 0 /\ kind[r] = "media")
  /\ handler' = [handler EXCEPT ![r] = "waiting"]
  /\ task' = [task EXCEPT ![r] = "queued"]
  /\ queue' = Append(queue, r)
  /\ owner' = IF kind[r] = "media" THEN [owner EXCEPT ![r] = "task"] ELSE owner
  /\ UNCHANGED <<permits, kind, reply>>

(* Mutant: the handler gives a permit back whoever owned it.               *)
RespondReleases(r) ==
  /\ handler[r] = "waiting"
  /\ task[r] \in {"ok", "bad", "failed"}
  /\ handler' = [handler EXCEPT ![r] = "none"]
  /\ reply' = [reply EXCEPT ![r] = 200]
  /\ permits' = permits + 1
  /\ owner' = [owner EXCEPT ![r] = "none"]
  /\ task' = [task EXCEPT ![r] = "none"]
  /\ UNCHANGED <<kind, queue>>

(* The awaited task has ended: text drops the permit with its result or on *)
(* the error path, media has nothing left to drop.                         *)
Respond(r) ==
  /\ handler[r] = "waiting"
  /\ task[r] \in {"ok", "bad", "failed"}
  /\ Answer(r, CASE task[r] = "ok" -> 200
                 [] task[r] = "bad" -> 400
                 [] task[r] = "failed" -> 500)
  /\ task' = [task EXCEPT ![r] = "none"]
  /\ UNCHANGED <<kind, queue>>

(* The client goes away: the handler future is dropped with its locals and *)
(* the join handle; the closure stays in the pool.                         *)
Disconnect(r) ==
  /\ handler[r] # "none"
  /\ handler' = [handler EXCEPT ![r] = "none"]
  /\ ReleaseIf(r, "handler")
  /\ task' = [task EXCEPT ![r] = IF Alive(r) THEN @ ELSE "none"]
  /\ UNCHANGED <<kind, queue, reply>>

-------------------------------------------------------------------------------
(* The blocking pool.                                                      *)

TaskStart ==
  /\ queue # <<>>
  /\ Cardinality(Running) < PoolSize
  /\ task' = [task EXCEPT ![Head(queue)] = "running"]
  /\ queue' = Tail(queue)
  /\ UNCHANGED <<permits, kind, handler, owner, reply>>

(* Mutant: nobody learns of a panic.                                       *)
TaskEndSilent(r) ==
  /\ task[r] = "running"
  /\ \E result \in {"ok", "none"} \cup (IF kind[r] = "media" THEN {"bad"} ELSE {}) :
       task' = [task EXCEPT ![r] = IF handler[r] = "none" THEN "none" ELSE result]
  /\ ReleaseIf(r, "task")
  /\ UNCHANGED <<kind, handler, queue, reply>>

(* The closure returns or panics and its captures are dropped: an          *)
(* embedding, a load or inference error (500), an error of the media path  *)
(* that blames the input (400), or a panic (500).  Nobody takes the result *)
(* of a task whose handler is gone.                                        *)
TaskEnd(r) ==
  /\ task[r] = "running"
  /\ \E result \in {"ok", "failed"} \cup (IF kind[r] = "media" THEN {"bad"} ELSE {}) :
       task' = [task EXCEPT ![r] = IF handler[r] = "none" THEN "none" ELSE result]
  /\ ReleaseIf(r, "task")
  /\ UNCHANGED <<kind, handler, queue, reply>>

-------------------------------------------------------------------------------
BatchLen == 0 .. BatchCap + 1

Next ==
  \/ \E r \in Slot, e \in Kind : Admit(r, e) \/ Shed(r, e)
  \/ \E r \in Slot : BadBody(r) \/ Respond(r) \/ Disconnect(r) \/ TaskEnd(r)
  \/ \E r \in Slot, n \in BatchLen : RefuseBatch(r, n) \/ Spawn(r, n)
  \/ TaskStart

(* The pool runs what it is given, closures end (inference terminates) and *)
(* the runtime polls a future whose task has ended.  Nothing makes a       *)
(* client send its body or go away.                                        *)
Fairness ==
  /\ WF_vars(TaskStart)
  /\ \A r \in Slot : WF_vars(TaskEnd(r)) /\ WF_vars(Respond(r))

Spec == Init /\ [][Next]_vars /\ Fairness
-------------------------------------------------------------------------------
(* Properties.                                                             *)

Stage  == {"none", "body", "waiting"}
Result == {"ok", "bad", "failed"}

(* Every variable stays in its type, and the queue holds just the closures *)
(* that wait for a thread, each once.                                      *)
TypeOK ==
  /\ permits \in 0 .. MaxInflight
  /\ kind \in [Slot -> Kind]
  /\ handler \in [Slot -> Stage]
  /\ task \in [Slot -> {"none", "queued", "running"} \cup Result]
  /\ owner \in [Slot -> {"none", "handler", "task"}]
  /\ queue \in Seq(Slot)
  /\ reply \in [Slot -> Status \cup {0}]
  /\ \A r \in Slot : task[r] = "queued" <=> \E i \in DOMAIN queue : queue[i] = r
  /\ \A i, j \in DOMAIN queue : queue[i] = queue[j] => i = j

Holders == {r \in Slot : owner[r] # "none"}

(* However requests end (answered, refused, failed, abandoned by their     *)
(* client before or after the closure was handed over), no permit is lost  *)
(* and none is given back twice, so that what /health computes as          *)
(* max_inflight - available_permits is the number of permits held.         *)
PermitConservation == permits + Cardinality(Holders) = MaxInflight

(* A closure whose permit bounds it: every one of media, and one of text   *)
(* while its client waits.                                                 *)
Bounded == {r \in Slot : Alive(r) /\ (kind[r] = "media" \/ handler[r] = "waiting")}

(* Media work in the pool, abandoned or not, and text work somebody waits  *)
(* for is never more than max_inflight ("Keep the permit in the worker     *)
(* even if the HTTP client disconnects", multimodal.rs line 86).           *)
WorkBounded == Cardinality(Bounded) <= MaxInflight

(* A client that has its answer has left nothing in the server: neither a  *)
(* closure nor a permit outlives the response.                             *)
AnsweredLeaveNothing ==
  \A r \in Slot : reply[r] # 0 => task[r] = "none" /\ owner[r] = "none"

(* A client that waits for its inference gets an answer, also when the     *)
(* closures of clients that have gone occupy the pool.                     *)
WaitersAnswered == \A r \in Slot : handler[r] = "waiting" ~> handler[r] # "waiting"

(* The server does not stay saturated: unless clients hold permits with a  *)
(* body they have not finished sending (the code sets them no time limit), *)
(* a permit becomes available again and again.                             *)
SaturationPasses == []<>(permits > 0 \/ \E r \in Slot : handler[r] = "body")

(* config.rs lines 40-43 and main.rs lines 107-109: max_inflight bounds    *)
(* the inference tasks in flight across all endpoints, "so the blocking    *)
(* thread pool can never saturate".                                        *)
InflightBounded == Cardinality({r \in Slot : Alive(r)}) <= MaxInflight
===============================================================================
