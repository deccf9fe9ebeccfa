------------------------------- MODULE Registry -------------------------------
(***************************************************************************)
(* crates/vqtrs-api/src/registry.rs: the keep-warm model registry of the   *)
(* HTTP server, together with the two ways main.rs calls it: the main      *)
(* thread preloads the pinned ("warm") models one after the other before   *)
(* the server serves, and afterwards any number of request tasks call      *)
(* get_or_load concurrently.                                               *)
(*                                                                         *)
(* A critical section of the code that runs without a loop is one action.  *)
(* The section of insert on a miss ends in the loop of evict, so it holds  *)
(* the variable lock while the loop takes one step per victim.  Loading a  *)
(* model happens outside the lock, between two critical sections.          *)
(***************************************************************************)
EXTENDS Naturals, FiniteSets, SequencesExt

CONSTANTS
  Key,        \* model names a request or the configuration may contain
  Request,    \* the blocking tasks that call get_or_load
  Main,       \* the thread of try_main, which calls load_pinned
  Unlocked,   \* value of lock while no thread holds the mutex
  NoKey,      \* value of want while a thread makes no call
  Preload,    \* <<default model>> \o warm, or <<>> for a registry without
  MaxLoaded,  \* max_loaded, 0 = unbounded
  MaxLoads    \* bound: loads in a behaviour

Thread == Request \cup {Main}

ASSUME RegistryAssumption ==
  /\ Preload \in Seq(Key)
  /\ MaxLoaded \in Nat
  /\ MaxLoads \in Nat
  /\ Main \notin Request
  /\ NoKey \notin Key
  /\ Unlocked \notin Request \cup {Main}

VARIABLES
  models,     \* Inner::models, as the instance cached for each key, 0 = none
  lru,        \* Inner::lru, least recently used first
  pinned,     \* Inner::pinned
  lock,       \* the thread inside the critical section of insert
  stage,      \* where each thread is in get_or_load / load_pinned
  want,       \* the key of its call
  held,       \* the Arc the thread owns: a fresh load, or its result; 0 = none
  loads,      \* instances created so far; instance i is the i-th load
  boot        \* position of the preload loop; past the end the server serves,
              \* 0 when the process exited because a preload failed

vars == <<models, lru, pinned, lock, stage, want, held, loads, boot>>

Stage == {"idle", "touching", "pinning", "loading", "inserting", "evicting",
          "using"}

Loaded == {k \in Key : models[k] # 0}

Serving == boot = Len(Preload) + 1

(* Only load_pinned, called by the main thread alone, asks for pinning.    *)
Pinning(t) == t = Main

Init ==
  /\ models = [k \in Key |-> 0]
  /\ lru = <<>>
  /\ pinned = {}
  /\ lock = Unlocked
  /\ stage = [t \in Thread |-> "idle"]
  /\ want = [t \in Thread |-> NoKey]
  /\ held = [t \in Thread |-> 0]
  /\ loads = 0
  /\ boot = 1

-------------------------------------------------------------------------------
(* Helpers on the recency list.                                            *)

Position(s, k) ==
  CHOOSE i \in DOMAIN s : s[i] = k /\ \A j \in 1 .. i - 1 : s[j] # k

(* Mutant: the key keeps its place.                                        *)
KeepPlace(s, k) == s

(* move_to_back: the key is moved to the end, or nothing happens when the  *)
(* list does not hold it.                                                  *)
MoveToBack(s, k) ==
  IF \E i \in DOMAIN s : s[i] = k
  THEN Append(RemoveAt(s, Position(s, k)), k)
  ELSE s

(* Mutant: a pinned key can be a victim.                                   *)
AnyVictim == DOMAIN lru

(* The position of the first key that is not pinned, if there is one.      *)
Victims == {i \in DOMAIN lru : lru[i] \notin pinned}

FirstVictim == CHOOSE i \in Victims : \A j \in Victims : i <= j

(* Mutant: off by one.                                                     *)
OneOverCapacity == MaxLoaded # 0 /\ Cardinality(Loaded) > MaxLoaded + 1

OverCapacity == MaxLoaded # 0 /\ Cardinality(Loaded) > MaxLoaded

-------------------------------------------------------------------------------
(* Calls.                                                                  *)

(* try_main preloads the next name of the list; a warm name equal to the   *)
(* default model is skipped.                                               *)
PreloadNext ==
  /\ boot \in 1 .. Len(Preload)
  /\ stage[Main] = "idle"
  /\ \/ /\ boot > 1 /\ Preload[boot] = Preload[1]
        /\ boot' = boot + 1
        /\ UNCHANGED <<stage, want>>
     \/ /\ ~ (boot > 1 /\ Preload[boot] = Preload[1])
        /\ stage' = [stage EXCEPT ![Main] = "touching"]
        /\ want' = [want EXCEPT ![Main] = Preload[boot]]
        /\ UNCHANGED boot
  /\ UNCHANGED <<models, lru, pinned, lock, held, loads>>

(* A blocking task of a served request calls get_or_load.                  *)
Call(r, k) ==
  /\ Serving
  /\ stage[r] = "idle"
  /\ stage' = [stage EXCEPT ![r] = "touching"]
  /\ want' = [want EXCEPT ![r] = k]
  /\ UNCHANGED <<models, lru, pinned, lock, held, loads, boot>>

(* Mutant: the guard of the lookup lives until the model is loaded.        *)
TouchKeepsLock(t) ==
  /\ stage[t] = "touching"
  /\ lock = Unlocked
  /\ LET k == want[t] IN
       IF models[k] # 0
       THEN /\ lru' = MoveToBack(lru, k)
            /\ held' = [held EXCEPT ![t] = models[k]]
            /\ stage' = [stage EXCEPT
                           ![t] = IF Pinning(t) THEN "pinning" ELSE "using"]
            /\ UNCHANGED lock
       ELSE /\ stage' = [stage EXCEPT ![t] = "loading"]
            /\ lock' = t
            /\ UNCHANGED <<lru, held>>
  /\ UNCHANGED <<models, pinned, want, loads, boot>>

(* touch_existing: under the lock, clone the cached instance and mark it   *)
(* most recently used.  load_pinned takes the lock a second time to pin.   *)
Touch(t) ==
  /\ stage[t] = "touching"
  /\ lock = Unlocked
  /\ LET k == want[t] IN
       IF models[k] # 0
       THEN /\ lru' = MoveToBack(lru, k)
            /\ held' = [held EXCEPT ![t] = models[k]]
            /\ stage' = [stage EXCEPT
                           ![t] = IF Pinning(t) THEN "pinning" ELSE "using"]
       ELSE /\ stage' = [stage EXCEPT ![t] = "loading"]
            /\ UNCHANGED <<lru, held>>
  /\ UNCHANGED <<models, pinned, lock, want, loads, boot>>

(* The second critical section of load_pinned on a hit.                    *)
PinHit(t) ==
  /\ stage[t] = "pinning"
  /\ lock = Unlocked
  /\ pinned' = pinned \cup {want[t]}
  /\ stage' = [stage EXCEPT ![t] = "using"]
  /\ UNCHANGED <<models, lru, lock, want, held, loads, boot>>

(* load() returns a new instance; no lock is held.                         *)
Load(t) ==
  /\ stage[t] = "loading"
  /\ loads < MaxLoads
  /\ loads' = loads + 1
  /\ held' = [held EXCEPT ![t] = loads + 1]
  /\ stage' = [stage EXCEPT ![t] = "inserting"]
  /\ UNCHANGED <<models, lru, pinned, lock, want, boot>>

(* load() fails: the request gets the error, try_main returns it and the   *)
(* process ends.                                                           *)
LoadFail(t) ==
  /\ stage[t] = "loading"
  /\ stage' = [stage EXCEPT ![t] = "idle"]
  /\ want' = [want EXCEPT ![t] = NoKey]
  /\ boot' = IF t = Main THEN 0 ELSE boot
  /\ UNCHANGED <<models, lru, pinned, lock, held, loads>>

(* insert, when another thread cached the same key meanwhile: the own      *)
(* instance is discarded for the cached one.                               *)
InsertExisting(t) ==
  /\ stage[t] = "inserting"
  /\ lock = Unlocked
  /\ LET k == want[t] IN
       /\ models[k] # 0
       /\ lru' = MoveToBack(lru, k)
       /\ pinned' = IF Pinning(t) THEN pinned \cup {k} ELSE pinned
       /\ held' = [held EXCEPT ![t] = models[k]]
  /\ stage' = [stage EXCEPT ![t] = "using"]
  /\ UNCHANGED <<models, lock, want, loads, boot>>

(* Mutant: insert does not look again for the key.                         *)
InsertBlindly(t) ==
  /\ stage[t] = "inserting"
  /\ lock = Unlocked
  /\ models' = [models EXCEPT ![want[t]] = held[t]]
  /\ lru' = Append(lru, want[t])
  /\ pinned' = IF Pinning(t) THEN pinned \cup {want[t]} ELSE pinned
  /\ lock' = t
  /\ stage' = [stage EXCEPT ![t] = "evicting"]
  /\ UNCHANGED <<want, held, loads, boot>>

(* insert of a new key; the lock is kept for evict.                        *)
InsertNew(t) ==
  /\ stage[t] = "inserting"
  /\ lock = Unlocked
  /\ LET k == want[t] IN
       /\ models[k] = 0
       /\ models' = [models EXCEPT ![k] = held[t]]
       /\ lru' = Append(lru, k)
       /\ pinned' = IF Pinning(t) THEN pinned \cup {k} ELSE pinned
  /\ lock' = t
  /\ stage' = [stage EXCEPT ![t] = "evicting"]
  /\ UNCHANGED <<want, held, loads, boot>>

(* Mutant: the victim is put at the back of the list and stays cached.     *)
EvictRequeues(t) ==
  /\ stage[t] = "evicting"
  /\ OverCapacity
  /\ Victims # {}
  /\ lru' = MoveToBack(lru, lru[FirstVictim])
  /\ UNCHANGED <<models, pinned, lock, stage, want, held, loads, boot>>

(* One iteration of evict: the first key of lru that is not pinned goes.   *)
(* LruMatchesModels says that lru holds it once, so that retain removes    *)
(* just this entry.                                                        *)
EvictOne(t) ==
  /\ stage[t] = "evicting"
  /\ OverCapacity
  /\ Victims # {}
  /\ models' = [models EXCEPT ![lru[FirstVictim]] = 0]
  /\ lru' = RemoveAt(lru, FirstVictim)
  /\ UNCHANGED <<pinned, lock, stage, want, held, loads, boot>>

(* evict returns, the guard is dropped and insert returns the instance it  *)
(* was given, whether or not evict kept it.                                *)
EvictDone(t) ==
  /\ stage[t] = "evicting"
  /\ ~ OverCapacity \/ Victims = {}
  /\ lock' = Unlocked
  /\ stage' = [stage EXCEPT ![t] = "using"]
  /\ UNCHANGED <<models, lru, pinned, want, held, loads, boot>>

(* The task ends and drops its Arc; the main thread goes on with the next  *)
(* name to preload.                                                        *)
Release(t) ==
  /\ stage[t] = "using"
  /\ stage' = [stage EXCEPT ![t] = "idle"]
  /\ want' = [want EXCEPT ![t] = NoKey]
  /\ held' = [held EXCEPT ![t] = 0]
  /\ boot' = IF t = Main THEN boot + 1 ELSE boot
  /\ UNCHANGED <<models, lru, pinned, lock, loads>>

Evict(t) == EvictOne(t) \/ EvictDone(t)

Step(t) ==
  \/ Touch(t) \/ PinHit(t) \/ Load(t) \/ LoadFail(t)
  \/ InsertExisting(t) \/ InsertNew(t) \/ Evict(t) \/ Release(t)

Next ==
  \/ PreloadNext
  \/ \E r \in Request, k \in Key : Call(r, k)
  \/ \E t \in Thread : Step(t)

(* What a thread does once it gets the mutex.                              *)
Enter(t) == Touch(t) \/ PinHit(t) \/ InsertExisting(t) \/ InsertNew(t)

(* The only fairness assumed: a thread inside the critical section is      *)
(* scheduled again, and one that waits for the mutex gets it if it is free *)
(* again and again.  A load may take for ever.                             *)
Fairness == \A t \in Thread : WF_vars(Evict(t)) /\ SF_vars(Enter(t))

Spec == Init /\ [][Next]_vars /\ Fairness
-------------------------------------------------------------------------------
(* Properties.                                                             *)

(* Every variable stays in its type, and the lock is held exactly by the   *)
(* thread that is in evict.                                                *)
TypeOK ==
  /\ models \in [Key -> Nat]
  /\ lru \in Seq(Key)
  /\ pinned \subseteq Key
  /\ lock \in Thread \cup {Unlocked}
  /\ stage \in [Thread -> Stage]
  /\ want \in [Thread -> Key \cup {NoKey}]
  /\ held \in [Thread -> Nat]
  /\ loads \in Nat
  /\ boot \in 0 .. Len(Preload) + 1
  /\ \A t \in Thread : stage[t] # "idle" <=> want[t] # NoKey
  /\ \A t \in Thread : stage[t] = "evicting" <=> lock = t

(* The two structures of Inner agree at every moment: lru lists every      *)
(* loaded key once and nothing else.  A key listed twice would be evicted  *)
(* while in recent use, a loaded key not listed could never be evicted.    *)
LruMatchesModels ==
  /\ \A k \in Key : models[k] # 0 <=> \E i \in DOMAIN lru : lru[i] = k
  /\ \A i, j \in DOMAIN lru : lru[i] = lru[j] => i = j

(* Whenever the mutex is free, at most max_loaded models are cached, or    *)
(* nothing is cached that could be evicted (doc comment of registry.rs).   *)
WithinCapacity ==
  lock = Unlocked /\ MaxLoaded # 0 =>
    Cardinality(Loaded) <= MaxLoaded \/ Loaded \subseteq pinned

(* A model that was preloaded stays loaded for good, however many requests *)
(* for other models come after it (registry.rs lines 3-6).  load_pinned    *)
(* leaves a gap between the two critical sections of a hit in which the    *)
(* model could be evicted; it is closed because try_main preloads before   *)
(* any request runs.                                                       *)
WarmStayLoaded ==
  \A i \in DOMAIN Preload : i < boot => models[Preload[i]] # 0

(* The instance cached for a key is dropped or kept, never replaced: two   *)
(* requests that miss together end up sharing the instance inserted first. *)
CachedInstanceStable ==
  [][\A k \in Key : models[k] # 0 => models'[k] \in {0, models[k]}]_vars

AtMutex(t) == stage[t] \in {"touching", "pinning", "inserting", "evicting"}

(* Nobody waits for the load of another: a thread gets through the mutex   *)
(* although loads, among them one of the same key, may never return; and   *)
(* the loop of evict ends.                                                 *)
LoadsBlockNobody == \A t \in Thread : AtMutex(t) ~> ~ AtMutex(t)

(* config.rs lines 37-38 say of max_loaded that "Warm models are pinned    *)
(* and do not count toward eviction": a model is evicted only while more   *)
(* than max_loaded models that are not pinned are cached.                  *)
WarmDoNotCount ==
  [][(\E k \in Key : models[k] # 0 /\ models'[k] = 0) =>
       Cardinality(Loaded \ pinned) > MaxLoaded]_vars

-------------------------------------------------------------------------------
(* The list is an LRU cache: what LruCache promises, with "used since k"   *)
(* read off the positions of the list.                                     *)
NewerInList ==
  [k \in Key |->
     IF \E i \in DOMAIN lru : lru[i] = k
     THEN {lru[j] : j \in {i \in DOMAIN lru : i > Position(lru, k)}}
     ELSE {}]

(* What a thread was given: the Arc of a call that found or inserted it.   *)
Given ==
  [t \in Thread |->
     IF stage[t] \in {"pinning", "evicting", "using"} THEN held[t] ELSE 0]

Cache == INSTANCE LruCache
           WITH newer <- NewerInList, got <- Given,
                Client <- Thread, Instance <- 1 .. MaxLoads

(* Every step of the registry is a step of LruCache or changes nothing     *)
(* LruCache sees: recency, the victim, the instance a caller is given.     *)
ImplementsLruCache == Cache!Spec
===============================================================================
