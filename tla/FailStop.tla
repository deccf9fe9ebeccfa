------------------------------- MODULE FailStop -------------------------------
(***************************************************************************)
(* What a native engine promises its callers, with no process, no pipe and *)
(* no thread in sight: calls are answered while the engine is up; the      *)
(* first failure takes it down, and a call that is answered afterwards     *)
(* fails.  A call that fails finds, or has put, the engine down: there is  *)
(* no failure of one call only, no retry and no way back up.               *)
(***************************************************************************)
CONSTANT Caller   \* threads that call the engine

VARIABLES
  engine,         \* "starting", "up" or "down"
  phase           \* phase[c]: "idle", "asked", "ok" or "err"

vars == <<engine, phase>>

Init ==
  /\ engine = "starting"
  /\ phase = [c \in Caller |-> "idle"]

Start ==
  /\ engine = "starting"
  /\ engine' = "up"
  /\ UNCHANGED phase

(* Any failure, a failed start, or the last owner drops the engine.        *)
Break ==
  /\ engine # "down"
  /\ engine' = "down"
  /\ UNCHANGED phase

Ask(c) ==
  /\ engine # "starting"
  /\ phase[c] = "idle"
  /\ phase' = [phase EXCEPT ![c] = "asked"]
  /\ UNCHANGED engine

Answer(c) ==
  /\ phase[c] = "asked"
  /\ phase' = [phase EXCEPT ![c] = IF engine = "up" THEN "ok" ELSE "err"]
  /\ UNCHANGED engine

Take(c) ==
  /\ phase[c] \in {"ok", "err"}
  /\ phase' = [phase EXCEPT ![c] = "idle"]
  /\ UNCHANGED engine

(* The process that owns the engine dies with its callers.                 *)
Crash ==
  /\ engine' = "down"
  /\ phase' = [c \in Caller |-> "idle"]

Next ==
  \/ Start \/ Break \/ Crash
  \/ \E c \in Caller : Ask(c) \/ Answer(c) \/ Take(c)

Spec == Init /\ [][Next]_vars
===============================================================================
