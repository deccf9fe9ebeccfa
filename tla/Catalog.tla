-------------------------------- MODULE Catalog --------------------------------
(***************************************************************************)
(* crates/vqtrs-core/src/catalog.rs: the models that vqtrs knows and how a *)
(* name becomes one of them, together with the users of the tables: the    *)
(* list of the server (crates/vqtrs-api/src/main.rs), its check of a media *)
(* model (multimodal.rs) and `vqtrs pull` (crates/vqtrs-cli/src/pull.rs).  *)
(*                                                                         *)
(* A name is an atomic value.  Two names that differ only in the case of   *)
(* their letters have the same image under CaseFold.                       *)
(***************************************************************************)
EXTENDS Naturals, Sequences, SequencesExt

CONSTANTS
  Features,  \* cargo features of the build
  CaseFold   \* spellings that are not in the catalog, to the one that is

ASSUME CatalogAssumption ==
  Features \subseteq {"qwen3", "embeddinggemma2", "embeddinggemma2-coreml",
                      "embeddinggemma2-mlx"}

(* What a lookup that returns None or an error is modelled by.             *)
None == "none"

-------------------------------------------------------------------------------
(* The tables.                                                             *)

Row(code, variant, backend) ==
  [code |-> code, variant |-> variant, backend |-> backend]

DenseModels ==
  <<
     Row("Qdrant/all-MiniLM-L6-v2-onnx", "AllMiniLML6V2", "Onnx"),
     Row("Xenova/all-MiniLM-L6-v2", "AllMiniLML6V2Q", "Onnx"),
     Row("Xenova/all-MiniLM-L12-v2", "AllMiniLML12V2", "Onnx"),
     Row("Xenova/all-mpnet-base-v2", "AllMpnetBaseV2", "Onnx"),
     Row("Xenova/bge-small-en-v1.5", "BGESmallENV15", "Onnx"),
     Row("Xenova/bge-base-en-v1.5", "BGEBaseENV15", "Onnx"),
     Row("Xenova/bge-large-en-v1.5", "BGELargeENV15", "Onnx"),
     Row("Xenova/bge-small-zh-v1.5", "BGESmallZHV15", "Onnx"),
     Row("Xenova/bge-large-zh-v1.5", "BGELargeZHV15", "Onnx"),
     Row("BAAI/bge-m3", "BGEM3", "Onnx"),
     Row("Alibaba-NLP/gte-base-en-v1.5", "GTEBaseENV15", "Onnx"),
     Row("Alibaba-NLP/gte-large-en-v1.5", "GTELargeENV15", "Onnx"),
     Row("nomic-ai/nomic-embed-text-v1", "NomicEmbedTextV1", "Onnx"),
     Row("nomic-ai/nomic-embed-text-v1.5", "NomicEmbedTextV15", "Onnx"),
     Row("mixedbread-ai/mxbai-embed-large-v1", "MxbaiEmbedLargeV1", "Onnx"),
     Row("lightonai/modernbert-embed-large", "ModernBertEmbedLarge", "Onnx"),
     Row("intfloat/multilingual-e5-small", "MultilingualE5Small", "Onnx"),
     Row("intfloat/multilingual-e5-base", "MultilingualE5Base", "Onnx"),
     Row("Qdrant/multilingual-e5-large-onnx", "MultilingualE5Large", "Onnx"),
     Row("Qdrant/paraphrase-multilingual-MiniLM-L12-v2-onnx-Q", "ParaphraseMLMiniLML12V2", "Onnx"),
     Row("Xenova/paraphrase-multilingual-mpnet-base-v2", "ParaphraseMLMpnetBaseV2", "Onnx"),
     Row("jinaai/jina-embeddings-v2-base-code", "JinaEmbeddingsV2BaseCode", "Onnx"),
     Row("jinaai/jina-embeddings-v2-base-en", "JinaEmbeddingsV2BaseEN", "Onnx"),
     Row("onnx-community/embeddinggemma-300m-ONNX", "EmbeddingGemma300M", "Onnx"),
     Row("google/embeddinggemma-2", "", "EmbeddingGemma2"),
     Row("vqtrs/embeddinggemma-2-coreml-fp16-3f978ddf", "", "EmbeddingGemma2CoreMl"),
     Row("vqtrs/embeddinggemma-2-mlx-regular-bf16-4f4634bb", "", "EmbeddingGemma2Mlx"),
     Row("snowflake/snowflake-arctic-embed-xs", "SnowflakeArcticEmbedXS", "Onnx"),
     Row("Snowflake/snowflake-arctic-embed-m", "SnowflakeArcticEmbedM", "Onnx"),
     Row("snowflake/snowflake-arctic-embed-l", "SnowflakeArcticEmbedL", "Onnx"),
     Row("Qwen/Qwen3-Embedding-0.6B", "", "Qwen3"),
     Row("Qwen/Qwen3-Embedding-4B", "", "Qwen3"),
     Row("Qwen/Qwen3-Embedding-8B", "", "Qwen3")
  >>

SparseRow(code, variant, joint) ==
  [code |-> code, variant |-> variant, joint_dense |-> joint]

SparseModels ==
  << SparseRow("Qdrant/Splade_PP_en_v1", "SPLADEPPV1", FALSE),
     SparseRow("BAAI/bge-m3", "BGEM3", TRUE) >>

RerankRow(code, variant) == [code |-> code, variant |-> variant]

RerankModels ==
  << RerankRow("BAAI/bge-reranker-base", "BGERerankerBase"),
     RerankRow("rozgo/bge-reranker-v2-m3", "BGERerankerV2M3"),
     RerankRow("jinaai/jina-reranker-v1-turbo-en", "JINARerankerV1TurboEn"),
     RerankRow("jinaai/jina-reranker-v2-base-multilingual",
               "JINARerankerV2BaseMultiligual") >>

Multimodal == {"EmbeddingGemma2", "EmbeddingGemma2CoreMl", "EmbeddingGemma2Mlx"}

-------------------------------------------------------------------------------
(* Resolution.                                                             *)

Answers(row, name) ==
  row.code = name \/ (row.variant # "" /\ row.variant = name)

(* The first row of a table that answers to the name: rows, or none.       *)
Find(table, name) ==
  LET first == SelectInSeq(table, LAMBDA row : Answers(row, name))
  IN  IF first = 0 THEN <<>> ELSE <<table[first]>>

(* fastembed knows the variants of the ONNX rows (and others, which the    *)
(* catalog does not list and which differ in nothing that is modelled).    *)
Parses(variant) ==
  variant \in {row.variant : row \in {r \in ToSet(DenseModels) : r.backend = "Onnx"}}

Feature ==
  [b \in Multimodal \cup {"Qwen3"} |->
     CASE b = "Qwen3" -> "qwen3"
       [] b = "EmbeddingGemma2" -> "embeddinggemma2"
       [] b = "EmbeddingGemma2CoreMl" -> "embeddinggemma2-coreml"
       [] b = "EmbeddingGemma2Mlx" -> "embeddinggemma2-mlx"]

(* resolve_dense and resolve_native: the row to load, or none where the    *)
(* name is unknown or needs a feature that was not built.                  *)
ResolveDense(name) ==
  LET found == Find(DenseModels, name) IN
  IF found = <<>> THEN <<>>
  ELSE IF found[1].backend = "Onnx"
       THEN IF Parses(found[1].variant) THEN found ELSE <<>>
       ELSE IF Feature[found[1].backend] \in Features THEN found ELSE <<>>

ResolveReranker(name) ==
  CASE name \in {"BAAI/bge-reranker-base", "BGERerankerBase"} -> "BGERerankerBase"
    [] name \in {"rozgo/bge-reranker-v2-m3", "BGERerankerV2M3"} -> "BGERerankerV2M3"
    [] name \in {"jinaai/jina-reranker-v1-turbo-en", "JINARerankerV1TurboEn"} ->
         "JINARerankerV1TurboEn"
    [] name \in {"jinaai/jina-reranker-v2-base-multilingual",
                 "JINARerankerV2BaseMultiligual"} -> "JINARerankerV2BaseMultiligual"
    [] OTHER -> None

(* Mutant: the variant of the table is not among the names.                *)
ResolveSparseByCode(name) ==
  CASE name \in {"Qdrant/Splade_PP_en_v1", "prithivida/Splade_PP_en_v1", "splade"} ->
         "SPLADEPPV1"
    [] name \in {"BAAI/bge-m3", "BGEM3"} -> "BGEM3"
    [] OTHER -> None

ResolveSparse(name) ==
  CASE name \in {"Qdrant/Splade_PP_en_v1", "prithivida/Splade_PP_en_v1",
                 "SPLADEPPV1", "splade"} -> "SPLADEPPV1"
    [] name \in {"BAAI/bge-m3", "BGEM3"} -> "BGEM3"
    [] OTHER -> None

ResolveM3(name) ==
  IF name \in {"BAAI/bge-m3", "BGEM3Q", "BGEM3", "bge-m3"} THEN "BGEM3Q" ELSE None

Folded(name) == IF name \in DOMAIN CaseFold THEN CaseFold[name] ELSE name

(* A name that the catalog has is no spelling of another one.              *)
ASSUME FoldAssumption == \A n \in DOMAIN CaseFold : Find(DenseModels, n) = <<>>

(* The check of the media handler: the first row whose code is the name up *)
(* to case has a multimodal backend.                                       *)
MediaModel(name) ==
  LET first == SelectInSeq(DenseModels, LAMBDA row : row.code = Folded(name))
  IN  first # 0 /\ DenseModels[first].backend \in Multimodal

-------------------------------------------------------------------------------
(* What the server lists and what `vqtrs pull` offers: the same rows.      *)

Listed(row, task) == [code |-> row.code, variant |-> row.variant, task |-> task]

Rows ==
  [i \in DOMAIN DenseModels |-> Listed(DenseModels[i], "embedding")]
  \o [i \in DOMAIN SparseModels |->
        Listed(SparseModels[i],
               IF SparseModels[i].joint_dense THEN "dense+sparse" ELSE "sparse")]
  \o [i \in DOMAIN RerankModels |-> Listed(RerankModels[i], "rerank")]

(* The model that the engine of a task loads for a name.  download of pull *)
(* chooses the engine the same way as the endpoints do.                    *)
Loaded(task, name) ==
  CASE task = "rerank" -> ResolveReranker(name)
    [] task = "sparse" -> ResolveSparse(name)
    [] task = "dense+sparse" -> ResolveM3(name)
    [] task = "embedding" ->
         IF ResolveDense(name) = <<>> THEN None ELSE ResolveDense(name)[1].code

(* `vqtrs pull q` with an exact code or variant: the first row that        *)
(* answers to it is downloaded.                                            *)
Pulled(q) ==
  LET row == Find(Rows, q) IN
  IF row = <<>> THEN None ELSE Loaded(row[1].task, row[1].code)

-------------------------------------------------------------------------------
(* For the property ListedLoads of Server.                                 *)

(* Rows that their engine does not load under each of their names.         *)
Misfits ==
  {row \in ToSet(Rows) :
     LET names == {row.code, row.variant} \ {""}
         needs == IF row.variant = ""
                  THEN {Feature[Find(DenseModels, row.code)[1].backend]} ELSE {}
     IN  \/ \E n \in names : Loaded(row.task, n) # Loaded(row.task, row.code)
         \/ (Loaded(row.task, row.code) = None) # ~ (needs \subseteq Features)
         \/ needs \subseteq Features /\ \E n \in names : Pulled(n) = None}
===============================================================================
