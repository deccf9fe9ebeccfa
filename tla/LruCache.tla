------------------------------- MODULE LruCache -------------------------------
(***************************************************************************)
(* What the model registry of vqtrs-api promises its callers, with no      *)
(* list, no lock and no loading in sight: a map from model names to loaded *)
(* instances that                                                          *)
(*   - answers a call with the instance it caches for the name, and makes  *)
(*     that name the most recently used one;                               *)
(*   - never replaces an instance it holds, only drops it;                 *)
(*   - never drops a pinned name;                                          *)
(*   - drops a name only while it holds more than MaxLoaded, and then the  *)
(*     one used longest ago among those that are not pinned.               *)
(* "Used longest ago" is said by the relation newer: newer[k] is the set   *)
(* of names used since k was last used.  Lines 1-7 of registry.rs are the  *)
(* prose of this module.                                                   *)
(***************************************************************************)
EXTENDS Naturals, FiniteSets

CONSTANTS
  Key,      \* names under which models are requested
  Client,   \* callers
  Instance, \* loaded models, told apart; 0 is none of them
  MaxLoaded \* most models kept loaded, 0 = unbounded

VARIABLES
  models,   \* models[k]: the instance cached for k, 0 when there is none
  pinned,   \* names that must not be dropped
  newer,    \* newer[k]: cached names used since k was last used
  got       \* got[c]: the instance client c was given and still has, or 0

vars == <<models, pinned, newer, got>>

Cached == {k \in Key : models[k] # 0}

Init ==
  /\ models = [k \in Key |-> 0]
  /\ pinned = {}
  /\ newer  = [k \in Key |-> {}]
  /\ got    = [c \in Client |-> 0]

(* k becomes the most recently used name of the set C.                     *)
Newest(C, k) ==
  newer' = [j \in Key |-> IF j = k \/ j \notin C THEN {} ELSE newer[j] \cup {k}]

(* Pinning only ever concerns the name of the call.                        *)
MayPin(k) == pinned' \in {pinned, pinned \cup {k}}

(* A call is answered from the cache.                                      *)
Use(c, k) ==
  /\ got[c] = 0
  /\ k \in Cached
  /\ got' = [got EXCEPT ![c] = models[k]]
  /\ Newest(Cached, k)
  /\ MayPin(k)
  /\ UNCHANGED models

(* A call for a name that is not cached adds a new instance.               *)
Add(c, k) ==
  /\ got[c] = 0
  /\ k \notin Cached
  /\ \E i \in Instance : /\ models' = [models EXCEPT ![k] = i]
                         /\ got' = [got EXCEPT ![c] = i]
  /\ Newest(Cached \cup {k}, k)
  /\ MayPin(k)

Pin(k) ==
  /\ k \in Cached
  /\ pinned' = pinned \cup {k}
  /\ UNCHANGED <<models, newer, got>>

(* The least recently used name that is not pinned is dropped.             *)
Drop(k) ==
  /\ MaxLoaded # 0
  /\ Cardinality(Cached) > MaxLoaded
  /\ k \in Cached \ pinned
  /\ (Cached \ pinned) \ {k} \subseteq newer[k]
  /\ models' = [models EXCEPT ![k] = 0]
  /\ newer'  = [j \in Key |-> IF j = k THEN {} ELSE newer[j] \ {k}]
  /\ UNCHANGED <<pinned, got>>

(* A client is done with the instance it was given.                        *)
Return(c) ==
  /\ got[c] # 0
  /\ got' = [got EXCEPT ![c] = 0]
  /\ UNCHANGED <<models, pinned, newer>>

Next ==
  \/ \E c \in Client, k \in Key : Use(c, k) \/ Add(c, k)
  \/ \E k \in Key : Pin(k) \/ Drop(k)
  \/ \E c \in Client : Return(c)

Spec == Init /\ [][Next]_vars
===============================================================================
