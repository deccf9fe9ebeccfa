------------------------------- MODULE Settings -------------------------------
(***************************************************************************)
(* crates/vqtrs-api/src/config.rs and the start of try_main in main.rs:    *)
(* the settings of the server.  An option is what the command line or the  *)
(* environment gives, else what the configuration file gives, else what is *)
(* built in.  The addresses it listens on are in Service; a file that does *)
(* not parse ends the process before anything else happens.                *)
(***************************************************************************)
EXTENDS Naturals, Sequences

CONSTANTS
  Flags,  \* options given on the command line or in the environment
  File    \* options given in the configuration file

(* ServerConfig::default.                                                  *)
BuiltIn ==
  [model           |-> "Qdrant/all-MiniLM-L6-v2-onnx",
   rerank_model    |-> "BAAI/bge-reranker-base",
   sparse_model    |-> "Qdrant/Splade_PP_en_v1",
   m3_model        |-> "BAAI/bge-m3",
   warm            |-> <<>>,
   max_loaded      |-> 0,
   max_inflight    |-> 4,
   max_batch_texts |-> 256]

(* The command line has no flag for the models to keep warm and for how    *)
(* many to keep loaded.                                                    *)
FlagOptions == DOMAIN BuiltIn \ {"warm", "max_loaded"}

(* ServerConfig::load: what a file leaves out, or no file at all, is built *)
(* in.                                                                     *)
Configured(o) == IF o \in DOMAIN File THEN File[o] ELSE BuiltIn[o]

Setting(o) == IF o \in DOMAIN Flags THEN Flags[o] ELSE Configured(o)

ASSUME SettingsAssumption ==
  /\ DOMAIN Flags \subseteq FlagOptions
  /\ DOMAIN File \subseteq DOMAIN BuiltIn
  /\ Setting("max_inflight") \in Nat
  /\ Setting("max_batch_texts") \in Nat

(* Mutant: zero is passed on.                                              *)
NoFloor(n) == n

(* A semaphore without permits would reject everything for ever.           *)
AtLeastOne(n) == IF n = 0 THEN 1 ELSE n

MaxInflight == AtLeastOne(Setting("max_inflight"))

BatchCap == AtLeastOne(Setting("max_batch_texts"))
===============================================================================
