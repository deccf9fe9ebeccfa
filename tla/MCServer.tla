-------------------------------- MODULE MCServer -------------------------------
(***************************************************************************)
(* An instance of Server for TLC: the default model of config.rs, which is *)
(* preloaded, EmbeddingGemma 2, and EmbeddingGemma 2 under a spelling that *)
(* the check of media accepts and the catalog does not resolve.  The file  *)
(* asks for no requests in flight at all, and a flag overrides its limit   *)
(* of the batch.                                                           *)
(***************************************************************************)
EXTENDS Server

Onnx  == "Qdrant/all-MiniLM-L6-v2-onnx"
Second == "BGEM3"
Gemma == "google/embeddinggemma-2"
Upper == "Google/EmbeddingGemma-2"

MCName     == {Onnx, Second, Gemma, Upper}
MCFile     == [max_inflight |-> 0, max_loaded |-> 2, max_batch_texts |-> 3]
MCFlags    == [max_batch_texts |-> 1]
MCCaseFold == [n \in {Upper} |-> Gemma]
MCFeatures == {"qwen3", "embeddinggemma2", "embeddinggemma2-coreml",
               "embeddinggemma2-mlx"}
===============================================================================
