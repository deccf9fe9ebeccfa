--------------------------------- MODULE Server --------------------------------
(***************************************************************************)
(* The server process of crates/vqtrs-api as a whole: Admission of         *)
(* requests, the Registry of dense models that their closures call, and    *)
(* the engines of crates/vqtrs-core/src/embed.rs that the closures use, in *)
(* one state space.  Where Admission lets a closure end at any time, here  *)
(* it looks its model up, loads it or waits for those who do, waits for    *)
(* the engine, and computes.                                               *)
(*                                                                         *)
(* The four text endpoints run the same closure on a registry each; the    *)
(* closure of text and of media on the dense registry is modelled.         *)
(***************************************************************************)
EXTENDS Admission, Catalog

CONSTANTS
  Name,       \* names that requests and the configuration contain
  Main, Unlocked, NoKey, MaxLoads  \* as in Registry

(* What try_main preloads, and how many models it lets a registry keep.    *)
Preload == <<Setting("model")>> \o Setting("warm")

MaxLoaded == Setting("max_loaded")

(* What the registry of dense models assumes of them.                      *)
ASSUME ServerAssumption ==
  /\ Preload \in Seq(Name)
  /\ MaxLoaded \in Nat
  /\ MaxLoads \in Nat
  /\ Main \notin Slot
  /\ NoKey \notin Name
  /\ Unlocked \notin Slot \cup {Main}

VARIABLES
  models, lru, pinned, lock, stage, want, held, loads, boot,  \* as in Registry
  origin,     \* name that each instance was loaded for
  user,       \* closure that holds the mutex of each instance
  broken,     \* instances with a poisoned mutex or a worker that has failed
  empty       \* closures whose batch has no text

R == INSTANCE Registry WITH Key <- Name, Request <- Slot

registryVars == <<models, lru, pinned, lock, stage, want, held, loads, boot>>
engineVars == <<origin, user, broken, empty>>
serverVars == <<vars, registryVars, engineVars>>

Instance == 1 .. MaxLoads

ServerInit ==
  /\ Init
  /\ R!Init
  /\ origin = [i \in Instance |-> NoKey]
  /\ user = [i \in Instance |-> Unlocked]
  /\ broken = {}
  /\ empty = {}

(* The backend that Engine::load chooses for a name.                       *)
BackendOf ==
  [k \in {n \in Name : ResolveDense(n) # <<>>} |-> ResolveDense(k)[1].backend]

Backend(i) == BackendOf[origin[i]]

(* The names that the check of the media handler lets pass.                *)
MediaNames == {k \in Name : MediaModel(k)}

(* Engines that one thread uses at a time: fastembed takes &mut self, and  *)
(* a native engine has one worker.                                         *)
Guarded(i) == Backend(i) \notin {"Qwen3", "EmbeddingGemma2"}

-------------------------------------------------------------------------------
(* Start, before the server serves, and the handlers of requests.          *)

Boot ==
  /\ R!PreloadNext \/ R!LoadFail(Main) \/ R!Release(Main)
  /\ UNCHANGED <<vars, engineVars>>

(* The critical sections of the registry, for whichever thread.            *)
Fetch(t) ==
  /\ R!Touch(t) \/ R!PinHit(t) \/ R!InsertExisting(t) \/ R!InsertNew(t) \/ R!Evict(t)
  /\ UNCHANGED <<vars, engineVars>>

Handle(r) ==
  /\ R!Serving
  /\ \/ \E e \in Kind : Admit(r, e) \/ Shed(r, e)
     \/ BadBody(r) \/ Respond(r) \/ Disconnect(r)
     \/ \E n \in BatchLen : RefuseBatch(r, n)
  /\ UNCHANGED <<registryVars, engineVars>>

HandOver(r, n) ==
  /\ Spawn(r, n)
  /\ empty' = IF n = 0 THEN empty \cup {r} ELSE empty
  /\ UNCHANGED <<registryVars, origin, user, broken>>

-------------------------------------------------------------------------------
(* The closure.                                                            *)

Begin == TaskStart /\ UNCHANGED <<registryVars, engineVars>>

EndAs(r, result) ==
  /\ TaskEnd(r)
  /\ task'[r] \in {result, "none"}
  /\ empty' = empty \ {r}

(* The input of media does not decode, or its model is not one for media.  *)
Refuse(r) ==
  /\ task[r] = "running"
  /\ stage[r] = "idle"
  /\ kind[r] = "media"
  /\ EndAs(r, "bad")
  /\ UNCHANGED <<registryVars, origin, user, broken>>

(* Mutant: media is embedded by whatever model the request names.          *)
LookUpUnchecked(r, k) ==
  /\ task[r] = "running"
  /\ R!Call(r, k)
  /\ UNCHANGED <<vars, engineVars>>

(* get_or_load for the name of the request, which the check has let pass.  *)
LookUp(r, k) ==
  /\ task[r] = "running"
  /\ kind[r] = "media" => k \in MediaNames
  /\ R!Call(r, k)
  /\ UNCHANGED <<vars, engineVars>>

(* Engine::load, of a request or while the server starts: the instance     *)
(* remembers the name it was loaded for.                                   *)
LoadEngine(t) ==
  /\ want[t] \in DOMAIN BackendOf
  /\ R!Load(t)
  /\ origin' = [origin EXCEPT ![loads + 1] = want[t]]
  /\ UNCHANGED <<vars, user, broken, empty>>

(* The name is unknown or the load fails; the error is a 500.              *)
LoadError(r) ==
  /\ R!LoadFail(r)
  /\ EndAs(r, "failed")
  /\ UNCHANGED <<origin, user, broken>>

(* The closure returns: it drops the engine and, for media, the permit.    *)
Finish(r, result) ==
  /\ stage[r] = "using"
  /\ R!Release(r)
  /\ EndAs(r, result)

(* embed_batch of no text returns before it takes the mutex.               *)
NothingToDo(r) ==
  /\ r \in empty
  /\ Finish(r, "ok")
  /\ UNCHANGED <<origin, user, broken>>

Busy(r) == stage[r] = "using" /\ r \notin empty

(* Engines without a mutex compute: a vector per input, an error, which    *)
(* blames the input of media, or a panic.                                  *)
Compute(r) ==
  /\ Busy(r)
  /\ ~ Guarded(held[r])
  /\ \E result \in {"ok", "failed", "bad"} : Finish(r, result)
  /\ UNCHANGED <<origin, user, broken>>

(* Mutant: a mutex that is poisoned, or a worker that has stopped, is      *)
(* tried again until it is well.                                           *)
LockRetried(r) ==
  /\ Busy(r)
  /\ Guarded(held[r])
  /\ user[held[r]] = Unlocked
  /\ held[r] \notin broken
  /\ user' = [user EXCEPT ![held[r]] = r]
  /\ UNCHANGED <<vars, registryVars, empty, origin, broken>>

(* A poisoned mutex, or a native engine whose worker has stopped, is an    *)
(* error for each caller.                                                  *)
LockEngine(r) ==
  /\ Busy(r)
  /\ Guarded(held[r])
  /\ user[held[r]] = Unlocked
  /\ IF held[r] \in broken
     THEN \E result \in {"failed", "bad"} : Finish(r, result) /\ UNCHANGED user
     ELSE /\ user' = [user EXCEPT ![held[r]] = r]
          /\ UNCHANGED <<vars, registryVars, empty>>
  /\ UNCHANGED <<origin, broken>>

Using(r) == stage[r] = "using" /\ user[held[r]] = r

(* The guarded engine returns vectors or an error; the guard is dropped.   *)
ComputeGuarded(r) ==
  /\ Using(r)
  /\ \E result \in {"ok", "failed", "bad"} : Finish(r, result)
  /\ user' = [user EXCEPT ![held[r]] = Unlocked]
  /\ UNCHANGED <<origin, broken>>

(* A panic below the guard poisons the mutex on its way out; a native      *)
(* worker that fails is stopped for good (NativeWorker).  The registry     *)
(* keeps the instance either way.                                          *)
Break(r) ==
  /\ Using(r)
  /\ \E result \in {"failed", "bad"} : Finish(r, result)
  /\ broken' = broken \cup {held[r]}
  /\ user' = [user EXCEPT ![held[r]] = Unlocked]
  /\ UNCHANGED origin

Closure(r) ==
  \/ Refuse(r) \/ (\E k \in Name : LookUp(r, k)) \/ Fetch(r)
  \/ LoadEngine(r) \/ LoadError(r)
  \/ NothingToDo(r) \/ Compute(r) \/ LockEngine(r) \/ ComputeGuarded(r) \/ Break(r)

-------------------------------------------------------------------------------
ServerNext ==
  \/ Boot \/ Fetch(Main) \/ LoadEngine(Main) \/ Begin
  \/ \E r \in Slot : Handle(r) \/ Closure(r) \/ \E n \in BatchLen : HandOver(r, n)

(* The pool runs what it is given, the runtime polls a future whose task   *)
(* has ended, a download or an inference returns, and a thread that waits  *)
(* for a mutex gets it if it is released again and again.                  *)
ServerFairness ==
  /\ WF_serverVars(Begin)
  /\ \A r \in Slot : WF_serverVars(Respond(r) /\ Handle(r)) /\ SF_serverVars(Closure(r))

ServerSpec == ServerInit /\ [][ServerNext]_serverVars /\ ServerFairness
-------------------------------------------------------------------------------
(* Properties, besides those of Admission and Registry.                    *)

(* Whatever is cached, evicted and loaded meanwhile, a closure computes on *)
(* an engine that was loaded for the name of its own request, and media is *)
(* given to no engine without the towers for it: although the check goes   *)
(* by one spelling of the name, the lookup and the key by another.         *)
RightEngine ==
  \A r \in Slot : stage[r] = "using" =>
    /\ origin[held[r]] = want[r]
    /\ kind[r] = "media" => Backend(held[r]) \in Multimodal

Resident ==
  {i \in Instance : (\E k \in Name : models[k] = i)
                    \/ (\E r \in Slot : held[r] = i) \/ held[Main] = i}

(* Eviction frees memory only when the last closure has dropped its Arc:   *)
(* the models in memory are at most those that may be cached and one for   *)
(* each thread of the pool, whoever has given up waiting for an answer.    *)
Capacity == IF MaxLoaded > Cardinality(pinned) THEN MaxLoaded ELSE Cardinality(pinned)

ResidentBounded ==
  R!Serving /\ MaxLoaded # 0 => Cardinality(Resident) <= Capacity + Cardinality(Running)

(* Each name that is listed, by the server or by pull, is one that pull    *)
(* downloads and that the engine of its task loads, and code and variant   *)
(* of a row load the same model: no row is shadowed by an earlier one, and *)
(* the resolvers that spell their names out agree with the tables.  A      *)
(* build without a feature lists models that it cannot load, those and no  *)
(* others.  What each endpoint is built to load without being told is a    *)
(* name that its engine loads, in every build.  The tables are constant:   *)
(* it is asked when the server starts.                                     *)
ListedLoads ==
  boot = 1 /\ stage[Main] = "idle" =>
    /\ Misfits = {}
    /\ Loaded("embedding", BuiltIn.model) # None
    /\ Loaded("rerank", BuiltIn.rerank_model) # None
    /\ Loaded("sparse", BuiltIn.sparse_model) # None
    /\ Loaded("dense+sparse", BuiltIn.m3_model) # None
===============================================================================
