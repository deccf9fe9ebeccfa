-------------------------------- MODULE Embedding --------------------------------
(***************************************************************************)
(* One call of EmbeddingGemma 2, from its input to its vectors:            *)
(* crates/vqtrs-core/src/embedding_gemma2/mod.rs and text.rs for the       *)
(* towers run here (on the CPU or a GPU), native.rs, native/prepare.rs and *)
(* the Python backends for the workers.                                    *)
(*                                                                         *)
(* Values are kept as what they were computed from: a soft token by its    *)
(* patches or frames, a token by the tokens that its layers have mixed in, *)
(* a sum by its terms.                                                     *)
(***************************************************************************)
EXTENDS Images, Pixels, Entropy, Speech, Kernels, Fft

CONSTANTS
  Backends,       \* of "cpu", "gpu", "coreml", "mlx"
  Inputs,         \* the calls; see the MC module
  FftLength,      \* fft_length (512)
  ImageTokens,    \* soft tokens of an image (280)
  VideoTokens,    \* of a video frame (140), and of one without a
  DefaultVideo,   \*   processor_config.json (70)
  TableSize,      \* position_embedding_size (1024)
  MaxBytes,       \* MAX_CONTAINER_BYTES (16,777,216)
  MaxText,        \* bytes of a text for a worker (262,144)
  MaxTokens,      \* EMBEDDING_GEMMA2_MAX_TOKENS, and the limit of mlx (8192)
  CoremlTokens,   \* the limit of coreml (512), and where an mlx text is long
  CoremlSamples,  \* 160,000
  MelFrames,      \* the frames mlx_backend.py takes (3200)
  Widths,         \* of the CoreML text functions (32 ... 512)
  Batch,          \* texts sent to a worker together (16)
  Window,         \* sliding_window of the text tower
  LayerTypes,     \* layer_types
  Sizes           \* hidden sizes of a checkpoint

(* What a call may be.  `known` are the numbers that a video declares: the *)
(* rate num / den, the duration span / unit, the count; a container has a  *)
(* rate.  Frames are `alike` if all have the dimensions given and the bytes *)
(* that go with them, and a file without a video stream has dimensions 0.  *)
Legal(i) ==
  \/ /\ i.kind = "texts"
     /\ i.lengths \in Seq(Nat) /\ i.bytes \in [DOMAIN i.lengths -> Nat] /\ (i.marked => i.lengths # <<>>)
  \/ i.kind = "image" /\ {i.width, i.height} \subseteq Nat
  \/ i.kind = "jpeg" /\ {i.width, i.height} \subseteq Nat \ {0}
  \/ /\ i.kind \in {"container", "frames"}
     /\ {i.width, i.height, i.total, i.declared, i.den, i.unit} \subseteq Nat
     /\ {i.num, i.span} \subseteq Int
     /\ i.known \subseteq {"rate", "duration", "count"}
     /\ i.kind = "container" => i.size \in Nat
  \/ /\ i.kind = "audio"
     /\ {i.file.size, i.file.riff} \cup DOMAIN i.file.chunks \subseteq Nat
     /\ \A at \in DOMAIN i.file.chunks :
          LET chunk == i.file.chunks[at]
          IN {chunk.len, chunk.fmt.channels, chunk.fmt.rate, chunk.fmt.width, chunk.fmt.align} \subseteq Nat

ASSUME EmbeddingAssumption ==
  /\ \A i \in Inputs : Legal(i)
  /\ Sizes \subseteq Nat \ {0}
  /\ {ImageTokens, VideoTokens, DefaultVideo, TableSize, MaxTokens, Window} \subseteq Nat
  /\ {MaxBytes, MaxText} \subseteq Nat
  /\ Widths \subseteq Nat \ {0} /\ CoremlTokens \in Widths
  /\ LayerTypes \in Seq({"sliding", "full"})
  /\ CoremlTokens <= MaxTokens /\ PadLeft < CoremlSamples /\ CoremlSamples <= MaxSamples

(* What host, towers and workers take for granted of each other's sizes.   *)
ASSUME AgreementAssumption ==
  /\ Backends \subseteq {"cpu", "gpu", "coreml", "mlx"}
  /\ Batch \in Nat \ {0} /\ {CoremlSamples, MelFrames} \subseteq Nat
  /\ \A soft \in {ImageTokens, VideoTokens, DefaultVideo} : soft > 0 /\ soft * Pool <= TableSize
  /\ ImageTokens <= MaxSampled * VideoTokens
  /\ FrameLength = 2 * PadLeft /\ PadLeft + Hop <= FrameLength + 1
  /\ (PadLeft + CeilDiv(MaxSamples, PadMultiple) * PadMultiple - (FrameLength + 1)) \div Hop < MelFrames
  /\ {ImageTokens, CeilDiv(CoremlSamples \div Hop, 4)} \subseteq 0 .. CoremlTokens - 4
  /\ CeilDiv(MelFrames, 4) + 4 <= MaxTokens

(* What the properties read of a file, in the terms of its chunks: the     *)
(* files of the calls have one for the format, at f, and one for data, at  *)
(* d.  A good file is a chain of chunks, up to its end, in a known format. *)
Described(file) ==
  LET end(at) == at + 8 + file.chunks[at].len + (file.chunks[at].len % 2)
  IN \E f, d \in DOMAIN file.chunks :
       LET fmt == file.chunks[f].fmt
           len == file.chunks[d].len
       IN /\ \A at \in DOMAIN file.chunks :
               (file.chunks[at].id = "fmt" <=> at = f) /\ (file.chunks[at].id = "data" <=> at = d)
          /\ fmt.align > 0 =>
               file.content = [s \in 1 .. len \div fmt.align |->
                 {d + 8 + (s - 1) * fmt.align + b : b \in 0 .. fmt.align - 1}]
          /\ file.good =>
               /\ file.riff \in 12 .. file.size /\ 12 \in DOMAIN file.chunks
               /\ \A at \in DOMAIN file.chunks :
                    /\ 12 <= at /\ end(at) \in DOMAIN file.chunks \cup {file.riff} /\ end(at) <= file.riff
                    /\ \A other \in DOMAIN file.chunks : at < other => end(at) <= other
               /\ fmt.valid /\ fmt.channels \in {1, 2} /\ fmt.width > 0 /\ fmt.align = fmt.channels * fmt.width
               /\ len % fmt.align = 0 /\ fmt.rate = file.rate /\ file.rate > 0

ASSUME DescriptionAssumption == \A i \in Inputs : i.kind = "audio" => Described(i.file)

VARIABLES
  backend,   \* chosen when the model is loaded
  plan,      \* MelFrontEnd's transform
  hidden,    \* the hidden size
  input,     \* the call
  pc,        \* its next step
  media,     \* what was decoded: pictures, or the clip's mask and rows
  layer,     \* layers run, or pictures through the tower
  rows,      \* soft tokens
  ids,       \* of each item: the tokens
  embeds,    \* of each token: what its embedding is
  seen,      \* of each token: the tokens it depends on
  sums,      \* the reductions that ran: <<number of terms, terms>>
  answers,   \* the vectors, each by its item and embeddings
  refusal    \* who is at fault: the caller's input, or the program

vars == <<backend, plan, hidden, input, pc, media, layer, rows, ids, embeds, seen, sums, answers, refusal>>

Candle == backend \in {"cpu", "gpu"}
None   == [pictures |-> <<>>, indices |-> <<>>, shown |-> <<>>, samples |-> <<>>, mask |-> <<>>, rows |-> <<>>, scored |-> {},
           scans |-> <<>>, frame |-> <<>>, jpeg |-> <<>>]

-------------------------------------------------------------------------------
(* What an input decodes to: a set, as sizes and samples may be rounded    *)
(* either way; empty if the caller's input is refused.                     *)

VideoBudget == IF Candle /\ ~input.processor THEN DefaultVideo ELSE VideoTokens

Pictures(width, height, most, budget) ==
  IF width * height \notin 1 .. most THEN {} ELSE Preprocess(height, width, budget)

DecodeImage ==
  {[None EXCEPT !.pictures = <<p>>] : p \in Pictures(input.width, input.height, MaxPixels, ImageTokens)}

(* prepare_selected: the frames at s, each preprocessed.                   *)
Shots == Pictures(input.width, input.height, FramePixels, VideoBudget)
Video(s, p, shown) == [None EXCEPT !.pictures = [i \in DOMAIN s |-> p], !.indices = s, !.shown = shown]

(* parse_probe, of what ffprobe reports of the stream.                     *)
Probed ==
  [total |-> IF "count" \in input.known THEN input.declared ELSE 1, known |-> {"rate", "duration"},
   num |-> input.num, den |-> input.den, span |-> input.span, unit |-> input.unit,
   rounded |-> FALSE, above |-> FALSE]

ParseProbe ==
  /\ input.width * input.height \in 1 .. FramePixels
  /\ "duration" \in input.known
  /\ Validate(Probed)
  /\ Within(input.span * input.num, input.unit * input.den, MaxSource + 1,
            (Rounded(input.unit) \/ Rounded(input.den)) /\ input.above)

(* decode_container: the frames counted, and those that ffmpeg selects.    *)
Counted ==
  [total |-> input.total, known |-> {"rate", "duration"}, num |-> input.num, den |-> input.den,
   span |-> input.total * input.den, unit |-> input.num, rounded |-> Rounded(input.den), above |-> input.above]

Sampling ==
  IF input.size \notin 1 .. MaxBytes \/ ~ParseProbe \/ ~input.alike THEN {} ELSE SampleFrames(Counted)

DecodeContainer == {Video(s, p, SelectedFrames(s)) : s \in Sampling, p \in Shots}

(* preprocess_decoded: those of an array, with the metadata given.         *)
Given ==
  [total |-> input.declared, known |-> input.known, num |-> input.num, den |-> input.den,
   span |-> input.span, unit |-> input.unit, rounded |-> FALSE, above |-> FALSE]

Choosing == IF input.total # input.declared \/ ~input.alike THEN {} ELSE SampleFrames(Given)

PreprocessDecoded == {Video(s, p, s) : s \in Choosing, p \in Shots}

DecodeClip ==
  LET wav  == DecodeWav(input.file)
      n    == Len(wav.samples)
      mask == Features(n).mask
  IN IF \/ ~wav.ok \/ wav.rate # 16000
        \/ Candle /\ ~\E f \in DOMAIN mask : mask[f]
        \/ ~Candle /\ n \notin PadLeft + 1 .. (IF backend = "coreml" THEN CoremlSamples ELSE MaxSamples)
     THEN {}
     ELSE {[None EXCEPT !.samples = wav.samples, !.mask = mask]}

Decodings ==
  CASE input.kind = "texts"             -> {None}
    [] input.kind \in {"image", "jpeg"} -> DecodeImage
    [] input.kind = "container"         -> DecodeContainer
    [] input.kind = "frames"            -> PreprocessDecoded
    [] input.kind = "audio"             -> DecodeClip

-------------------------------------------------------------------------------
(* Tokens, and the rows they take.                                         *)

Words(n) == <<"bos">> \o [i \in 1 .. n |-> "word"] \o <<"eos">>

(* media_ids, and the prompts of mod.rs between the template's tokens.     *)
MediaIds(count, times) ==
  <<"bos">> \o FlattenSeq([f \in 1 .. times |->
     <<"start">> \o [i \in 1 .. count |-> "soft"] \o <<"end">>]) \o <<"eos">>

Placeholders(tokens) == {i \in DOMAIN tokens : tokens[i] = "soft"}

(* masked_scatter: the placeholders take the rows in order.                *)
MaskedScatter(tokens, features) ==
  [i \in DOMAIN tokens |->
    IF tokens[i] = "soft" THEN features[Cardinality({j \in Placeholders(tokens) : j <= i})]
    ELSE [at |-> i, from |-> "table"]]

PictureRows(f, pooled) == [r \in DOMAIN pooled |-> [at |-> f, from |-> pooled[r]]]

-------------------------------------------------------------------------------

Refuse(who) ==
  /\ refusal' = who
  /\ pc' = "refused"
  /\ UNCHANGED <<backend, plan, hidden, input, media, layer, rows, ids, embeds, seen, sums, answers>>

Init ==
  /\ backend \in Backends /\ hidden \in Sizes
  /\ pc = "load"
  /\ plan = <<>> /\ input = [kind |-> "none"] /\ media = None /\ layer = 0
  /\ rows = <<>> /\ ids = <<>> /\ embeds = <<>> /\ seen = <<>>
  /\ sums = {} /\ answers = <<>> /\ refusal = "none"

(* The model is loaded, with its front end for audio.                      *)
Load ==
  /\ pc = "load"
  /\ plan' = Plan(FftLength)
  /\ pc' = "ready"
  /\ UNCHANGED <<backend, hidden, input, media, layer, rows, ids, embeds, seen, sums, answers, refusal>>

(* One call.  A model run here is given its texts one by one.              *)
Accept ==
  /\ pc = "ready"
  /\ input' \in Inputs
  /\ Candle /\ input'.kind = "texts" => Len(input'.lengths) = 1
  /\ plan' = <<>>
  /\ pc' = IF input'.kind = "jpeg" THEN "jpeg" ELSE "decode"
  /\ UNCHANGED <<backend, hidden, media, layer, rows, ids, embeds, seen, sums, answers, refusal>>

(* decode_rgb on a JPEG file: its markers and scans, then from their        *)
(* coefficients, which are Jpeg's subject, the pixels.  Other files, too   *)
(* large ones and those that this decoder returns None for go to Decode.   *)
ReadJpeg ==
  /\ pc = "jpeg"
  /\ IF input.width * input.height > MaxPixels
     THEN pc' = "decode" /\ UNCHANGED media
     ELSE /\ pc' = "finish"
          /\ media' = [None EXCEPT
               !.scans = [s \in input.scans |-> ReadScan(s.data, input.counts, input.values, s.segments)],
               !.frame = <<Frame(input)>>]
  /\ UNCHANGED <<backend, plan, hidden, input, layer, rows, ids, embeds, seen, sums, answers, refusal>>

Finish ==
  /\ pc = "finish"
  /\ media' = [media EXCEPT !.jpeg = IF Supported(input) THEN <<FinishJpeg(input, media.frame[1])>> ELSE <<>>]
  /\ pc' = "decode"
  /\ UNCHANGED <<backend, plan, hidden, input, layer, rows, ids, embeds, seen, sums, answers, refusal>>

-------------------------------------------------------------------------------
(* The towers run here.                                                    *)

(* run and forward_*: decode and preprocess.                               *)
Decode ==
  /\ pc = "decode" /\ Candle
  /\ IF Decodings = {} THEN Refuse("input")
     ELSE /\ media' \in Decodings
          /\ pc' = IF input.kind = "texts" THEN "scatter" ELSE "tower"
          /\ ids' = IF input.kind = "texts" THEN <<Words(input.lengths[1])>> ELSE <<>>
          /\ UNCHANGED <<backend, plan, hidden, input, layer, rows, embeds, seen, sums, answers, refusal>>

OnCpu(reductions) == IF backend = "cpu" THEN sums \cup reductions ELSE sums

Sum(n, terms) == <<n, terms>>

(* VisionModel::forward on the next picture.                               *)
VisionTower ==
  /\ pc = "tower" /\ layer < Len(media.pictures)
  /\ LET patches == media.pictures[layer + 1].patches
     IN IF ~PoolFits(patches, TableSize) THEN Refuse("program")
        ELSE /\ rows' = rows \o PictureRows(layer + 1, PooledRows(patches))
             /\ sums' = OnCpu({Sum(Len(patches), ReduceAll(UpTo(Len(patches)))),
                               Sum(hidden, SumRow(UpTo(hidden)))})
             /\ layer' = layer + 1
             /\ UNCHANGED <<backend, plan, hidden, input, pc, media, ids, embeds, seen, answers, refusal>>

(* AudioModel::forward: the subsampling, a layer, the rows that are valid. *)
AudioSubsample ==
  /\ pc = "tower" /\ input.kind = "audio" /\ layer = 0
  /\ LET s == Subsampled(media.mask, backend = "gpu")
     IN media' = [media EXCEPT !.rows = s.rows, !.mask = s.mask]
  /\ sums' = OnCpu({Sum(hidden, Moments(UpTo(hidden)))})
  /\ layer' = 1
  /\ UNCHANGED <<backend, plan, hidden, input, pc, rows, ids, embeds, seen, answers, refusal>>

AudioLayer ==
  /\ pc = "tower" /\ input.kind = "audio" /\ layer \in 1 .. AudioLayers
  /\ media' = [media EXCEPT !.rows = ConformerLayer(@, media.mask, backend = "gpu"),
                            !.scored = Scored(media.mask, backend = "gpu")]
  /\ sums' = OnCpu({Sum(Context, ReduceAll(UpTo(Context)))}
                   \cup {Sum(hidden, SumCol(UpTo(hidden), Rows(media.mask), c)) : c \in DOMAIN media.mask})
  /\ layer' = layer + 1
  /\ UNCHANGED <<backend, plan, hidden, input, pc, rows, ids, embeds, seen, answers, refusal>>

AudioRows ==
  /\ pc = "tower" /\ input.kind = "audio" /\ layer = AudioLayers + 1
  /\ rows' = LET valid == ValidRows(media.rows, media.mask)
             IN [r \in DOMAIN valid |-> [at |-> r, from |-> valid[r]]]
  /\ layer' = layer + 1
  /\ UNCHANGED <<backend, plan, hidden, input, pc, media, ids, embeds, seen, sums, answers, refusal>>

Prompt ==
  /\ pc = "tower"
  /\ layer = IF input.kind = "audio" THEN AudioLayers + 2 ELSE Len(media.pictures)
  /\ ids' = IF input.kind = "audio" THEN <<MediaIds(Len(rows), 1)>>
            ELSE <<MediaIds(media.pictures[1].soft, Len(media.pictures))>>
  /\ pc' = "scatter"
  /\ UNCHANGED <<backend, plan, hidden, input, media, layer, rows, embeds, seen, sums, answers, refusal>>

(* forward_sequence: the length, then the embeddings.                      *)
Scatter ==
  /\ pc = "scatter"
  /\ LET tokens == ids[1]
     IN CASE Len(tokens) > MaxTokens -> Refuse("input")
          [] Len(tokens) <= MaxTokens /\ Cardinality(Placeholders(tokens)) # Len(rows) -> Refuse("program")
          [] OTHER ->
             /\ embeds' = MaskedScatter(tokens, rows)
             /\ seen' = [i \in DOMAIN tokens |-> {i}]
             /\ layer' = 0
             /\ pc' = "layers"
             /\ UNCHANGED <<backend, plan, hidden, input, media, rows, ids, sums, answers, refusal>>

(* sliding_window_mask: none if the window covers the sequence.            *)
Attended(q, n, type) ==
  IF type = "full" \/ n <= Window + 1 THEN 1 .. n
  ELSE {k \in 1 .. n : q - k <= Window /\ k - q <= Window}

TextLayer ==
  /\ pc = "layers" /\ layer < Len(LayerTypes)
  /\ LET n == Len(embeds)
     IN /\ seen' = [q \in 1 .. n |-> UNION {seen[k] : k \in Attended(q, n, LayerTypes[layer + 1])}]
        /\ sums' = OnCpu({Sum(n, ReduceAll(UpTo(n))), Sum(hidden, SumRow(UpTo(hidden)))})
  /\ layer' = layer + 1
  /\ UNCHANGED <<backend, plan, hidden, input, pc, media, rows, ids, embeds, answers, refusal>>

(* mean_pool_normalize.                                                    *)
PoolTokens ==
  /\ pc = "layers" /\ layer = Len(LayerTypes)
  /\ LET n == Len(embeds)
     IN sums' = OnCpu({Sum(n, SumCol(UpTo(n), hidden, c)) : c \in {0, hidden - 1}}
                      \cup {Sum(hidden, NormRow(UpTo(hidden)))})
  /\ answers' = <<1>>
  /\ pc' = "done"
  /\ UNCHANGED <<backend, plan, hidden, input, media, layer, rows, ids, embeds, seen, refusal>>

-------------------------------------------------------------------------------
(* The workers.                                                            *)

Limit == IF backend = "coreml" THEN CoremlTokens ELSE MaxTokens

(* Native::tokens for each text.                                           *)
PrepareTexts ==
  /\ pc = "decode" /\ ~Candle /\ input.kind = "texts"
  /\ IF \/ input.marked
        \/ \E i \in DOMAIN input.lengths : input.bytes[i] \notin 1 .. MaxText \/ Len(Words(input.lengths[i])) > Limit
     THEN Refuse("input")
     ELSE /\ ids' = [i \in DOMAIN input.lengths |-> Words(input.lengths[i])]
          /\ pc' = IF input.lengths = <<>> THEN "done" ELSE "send"
          /\ UNCHANGED <<backend, plan, hidden, input, media, layer, rows, embeds, seen, sums, answers, refusal>>

(* Native::prepare of media, with the soft tokens it announces.            *)
SoftTokens(m) ==
  CASE input.kind # "audio"  -> m.pictures[1].soft
    [] input.kind = "audio" /\ backend = "coreml" ->
         CeilDiv((PadLeft + Len(m.samples) - (FrameLength + 1)) \div Hop + 1, 4)
    [] input.kind = "audio" /\ backend = "mlx" ->
         CeilDiv(Cardinality({f \in DOMAIN m.mask : m.mask[f]}), 4)

PrepareMedia ==
  /\ pc = "decode" /\ ~Candle /\ input.kind # "texts"
  /\ IF Decodings = {} THEN Refuse("input")
     ELSE \E m \in Decodings :
       LET tokens == MediaIds(SoftTokens(m), Max({1, Len(m.pictures)}))
       IN IF Len(tokens) > Limit THEN Refuse("input")
          ELSE /\ media' = m
               /\ ids' = <<tokens>>
               /\ pc' = "send"
               /\ UNCHANGED <<backend, plan, hidden, input, layer, rows, embeds, seen, sums, answers, refusal>>

(* Native::texts: up to Batch texts together, or the first alone if one of *)
(* them is long.                                                           *)

(* Mutant: long texts go with the others.                                  *)
BatchEndNear(from) == Min({from + Batch - 1, Len(ids)})

BatchEnd(from) ==
  LET end == Min({from + Batch - 1, Len(ids)})
  IN IF \E i \in from .. end : Len(ids[i]) > CoremlTokens THEN from ELSE end

Send ==
  /\ pc = "send"
  /\ layer' = BatchEnd(Len(answers) + 1)
  /\ pc' = "worker"
  /\ UNCHANGED <<backend, plan, hidden, input, media, rows, ids, embeds, seen, sums, answers, refusal>>

(* What the worker computes of the media: rows by its own arithmetic.      *)
WorkerRows ==
  CASE input.kind = "texts" -> <<>>
    [] input.kind = "audio" /\ backend = "coreml" ->
         LET valid == Min({CoremlSamples \div Hop, (PadLeft + Len(media.samples) - (FrameLength + 1)) \div Hop + 1})
         IN [r \in 1 .. CeilDiv(valid, 4) |-> [at |-> r, from |-> {}]]
    [] input.kind = "audio" /\ backend = "mlx" ->
         LET tower == SubsampledMask(SubsampledMask(media.mask))
         IN [r \in 1 .. Cardinality({t \in DOMAIN tower : tower[t]}) |-> [at |-> r, from |-> {}]]
    [] OTHER ->
         FlattenSeq([f \in DOMAIN media.pictures |->
           PictureRows(f, IF backend = "coreml" THEN CoremlRows(media.pictures[f].patches)
                          ELSE PooledRows(media.pictures[f].patches))])

(* What the worker refuses, and so dies of.                                *)
WorkerFits(items) ==
  /\ Len(items) \in 1 .. Batch
  /\ \A i \in DOMAIN items : Len(items[i]) \in 1 .. Limit
  /\ input.kind \notin {"texts", "audio"} =>
       /\ Len(media.pictures) \in 1 .. MaxSampled
       /\ \A p \in ToSet(media.pictures) :
            /\ Len(p.patches) \in {MaxPatches(VideoTokens), MaxPatches(ImageTokens)}
            /\ Len(media.pictures) * Len(p.patches) <= MaxSampled * MaxPatches(VideoTokens)
            /\ backend = "coreml" => CoremlVisionFits(p.patches, p.soft, TableSize)
            /\ backend = "mlx" => PoolFits(p.patches, TableSize)
  /\ input.kind = "audio" =>
       IF backend = "coreml" THEN Len(media.samples) \in PadLeft + 1 .. CoremlSamples
       ELSE Rows(media.mask) \in 1 .. MelFrames
  /\ input.kind # "texts" =>
       /\ Len(items) = 1
       /\ Cardinality(Placeholders(items[1])) = Len(WorkerRows)
  /\ backend = "coreml" => \A i \in DOMAIN items : \E w \in Widths : w >= Len(items[i])
  /\ backend = "mlx" /\ Len(items) > 1 => \A i \in DOMAIN items : Len(items[i]) <= CoremlTokens

(* embed, its reply and what Native does with it.                          *)
Work ==
  /\ pc = "worker"
  /\ LET from == Len(answers) + 1
     IN IF ~WorkerFits(SubSeq(ids, from, layer)) THEN Refuse("program")
        ELSE /\ answers' = answers \o [i \in 1 .. layer - Len(answers) |-> from + i - 1]
             /\ rows' = WorkerRows
             /\ embeds' = MaskedScatter(ids[1], WorkerRows)
             /\ pc' = IF layer = Len(ids) THEN "done" ELSE "send"
             /\ UNCHANGED <<backend, plan, hidden, input, media, layer, ids, seen, sums, refusal>>

-------------------------------------------------------------------------------

Done == pc \in {"done", "refused"} /\ UNCHANGED vars

Next ==
  \/ Load \/ Accept \/ ReadJpeg \/ Finish
  \/ Decode \/ VisionTower \/ AudioSubsample \/ AudioLayer \/ AudioRows \/ Prompt
  \/ Scatter \/ TextLayer \/ PoolTokens
  \/ PrepareTexts \/ PrepareMedia \/ Send \/ Work
  \/ Done

Spec == Init /\ [][Next]_vars

-------------------------------------------------------------------------------
(* References for the properties.                                          *)

(* What is asked of an input.                                              *)
TextsAllowed ==
  \A i \in DOMAIN input.lengths :
    /\ Len(Words(input.lengths[i])) <= Limit
    /\ ~Candle => input.bytes[i] \in 1 .. MaxText /\ ~input.marked

PictureAllowed == input.width * input.height \in 1 .. MaxPixels

ClipAllowed ==
  LET n == Len(input.file.content)
  IN /\ input.file.good /\ input.file.rate = 16000
     /\ n > PadLeft
     /\ backend = "mlx" => n <= MaxSamples
     /\ backend = "coreml" => n <= CoremlSamples

(* The frames of a video: one for each whole second, if it has timing.     *)
Asked ==
  CASE input.kind = "container"                         -> Max({1, (input.total * input.den) \div input.num})
    [] input.kind = "frames" /\ Timed(input.known)  -> Max({1, input.span \div input.unit})
    [] input.kind = "frames" /\ ~Timed(input.known) -> input.total

(* a / b is positive and up to a limit, and just that only if exact.       *)
Bounded(a, b, limit, exact) == 0 < b /\ 0 < a /\ a <= limit * b /\ (a = limit * b => exact)

(* A container states what it holds and holds no more than is allowed.     *)
ContainerAllowed ==
  /\ input.size \in 1 .. MaxBytes /\ input.alike
  /\ "duration" \in input.known
  /\ "count" \in input.known => input.declared \in 1 .. MaxSource
  /\ Bounded(input.num, input.den, MaxRate, TRUE)
  /\ Bounded(input.span, input.unit, MaxSeconds, TRUE)
  /\ Bounded(input.span * input.num, input.unit * input.den, MaxSource + 1,
             ~Rounded(input.unit) /\ ~Rounded(input.den))
  /\ input.total \in 1 .. MaxSource
  /\ Bounded(input.total * input.den, input.num, MaxSeconds, ~Rounded(input.den))

FramesAllowed ==
  /\ input.total = input.declared /\ input.alike
  /\ input.total \in 1 .. MaxSource
  /\ "rate" \in input.known => Bounded(input.num, input.den, MaxRate, TRUE)
  /\ "duration" \in input.known => Bounded(input.span, input.unit, MaxSeconds, TRUE)

VideoAllowed ==
  /\ input.width * input.height \in 1 .. FramePixels
  /\ IF input.kind = "container" THEN ContainerAllowed ELSE FramesAllowed
  /\ Len(MediaIds(VideoBudget, Min({Asked, MaxSampled}))) <= Limit

InputFits ==
  CASE input.kind = "texts"             -> TextsAllowed
    [] input.kind \in {"image", "jpeg"} -> PictureAllowed
    [] input.kind = "audio"             -> ClipAllowed
    [] OTHER                            -> VideoAllowed

(* The share of the source below soft token b of a picture.                *)
CoversItsShare(patches, places, b) ==
  LET across == (Max({p.x : p \in ToSet(patches)}) + 1) \div Pool
      down   == (Max({p.y : p \in ToSet(patches)}) + 1) \div Pool
      share(size, parts, part) == (size * part) \div parts .. (size * (part + 1) - 1) \div parts
  IN /\ Cardinality(places) = Pool * Pool
     /\ share(input.width, across, b % across) \subseteq UNION {patches[i].cols : i \in places}
     /\ share(input.height, down, b \div across) \subseteq UNION {patches[i].rows : i \in places}

(* Token r of a clip hears the valid frames of its own four, of the two    *)
(* halves before them and of what the layers look back to.                 *)
FramesHeard(r) ==
  LET mask == Features(Len(media.samples)).mask
      back == AudioLayers * ((Past - 1) + (KernelSize - 1))
  IN {f \in DOMAIN mask : mask[f] /\ f >= 4 * (r - 1 - back) - 3 /\ f <= 4 * (r - 1) + 3}

(* A full layer mixes all tokens, a sliding one those of its window.       *)
TokensMixed(q, n) ==
  LET ran == {i \in 1 .. layer : LayerTypes[i] = "full"}
  IN IF ran # {} THEN 1 .. n
     ELSE {k \in 1 .. n : q - k <= layer * Window /\ k - q <= layer * Window}

-------------------------------------------------------------------------------
(* Properties.                                                             *)

(* The real transform that the model is loaded with is a Fourier transform: *)
(* of each unit impulse it gives the sampled cosine and minus the sine.    *)
(* The twiddle tables, the order of the factors and the two butterflies of *)
(* pocketfft.rs have to agree for it.                                      *)
FftExact ==
  pc = "ready" =>
    \A j \in 0 .. FftLength - 1 :
      Rfft(plan, FftLength, [i \in 1 .. j + 1 |-> IF i = j + 1 THEN 1 ELSE 0])
        = [k \in 0 .. FftLength \div 2 |->
            <<Cos(FftLength, 8 * j * k), Less(0, Sin(FftLength, 8 * j * k))>>]

(* Whatever a legal encoder writes, each symbol and each number of bits is *)
(* read back: over stuffed bytes, padding and the edges of the register,   *)
(* and up to the marker that ends the scan.  Bytes missing before a restart *)
(* change nothing after it.                                                *)
StreamExact ==
  \A s \in DOMAIN media.scans :
    /\ media.scans[s].got[2] = s.segments[2]
    /\ s.lost = 0 => media.scans[s].got[1] = s.segments[1]
    /\ media.scans[s].end = s.end

(* The samples of a JPEG file are those of its coefficients by the         *)
(* definition of the transform, to one step; its planes are interpolated   *)
(* between the centres of their samples, with nothing of what pads their   *)
(* blocks; and its colours are those that its markers declare, rounded.    *)
SamplesExact ==
  \A jpeg \in ToSet(media.jpeg) :
    /\ BasisExact
    /\ PlanesExact(input, jpeg.planes)
    /\ FullExact(input, jpeg.planes, jpeg.full)
    /\ \A p \in DOMAIN jpeg.data :
         LET at(c) == jpeg.full[c][p]
         IN CASE input.colours = "grey" -> jpeg.data[p] = <<at(1), at(1), at(1)>>
              [] input.colours = "rgb"  -> jpeg.data[p] = <<at(1), at(2), at(3)>>
              [] input.colours = "ycc"  -> ColourExact(at(1), at(2), at(3), jpeg.data[p])

(* Every reduction that ran on the CPU added each of its terms once:       *)
(* cascades flush, and tails, lanes and merges neither drop nor repeat.    *)
EachOnce ==
  \A s \in sums : Len(s[2]) = s[1] /\ ToSet(s[2]) = 0 .. s[1] - 1

(* A call is refused only for what its input is: host and worker agree on  *)
(* every count of tokens, rows, patches and frames, no index is out of its *)
(* table, and no batch is one that the worker turns down.                  *)
OnlyInputRefused ==
  /\ refusal # "program"
  /\ refusal = "input" => ~InputFits

(* The soft token at a place shows what belongs there: the picture of its  *)
(* frame, which is the one sampled, and in it Pool x Pool patches that     *)
(* cover its share of the source in reading order; or its turn in the      *)
(* clip, whose samples are those of the file.  Answers come in the order   *)
(* of the texts.                                                           *)
RowsInPlace ==
  /\ media.shown = media.indices
  /\ input.kind = "audio" => media.samples \in {<<>>, input.file.content}
  /\ \A i \in DOMAIN answers : answers[i] = i
  /\ embeds # <<>> /\ Placeholders(ids[1]) # {} =>
       \A i \in Placeholders(ids[1]) :
         LET r == Cardinality({j \in Placeholders(ids[1]) : j <= i})
         IN IF input.kind = "audio" THEN embeds[i].at = r
            ELSE LET soft == media.pictures[1].soft
                 IN /\ embeds[i].at = (r - 1) \div soft + 1
                    /\ CoversItsShare(media.pictures[embeds[i].at].patches, embeds[i].from, (r - 1) % soft)

(* What runs here depends on what it should: a soft token of a clip on the *)
(* frames that convolutions and attention reach back to, whole, valid and  *)
(* none later; a distance is scored by its own embedding; and a token of   *)
(* the text tower on the windows of the layers so far.                     *)
Reach ==
  /\ input.kind = "audio" /\ Candle /\ pc \in {"scatter", "layers", "done"} =>
       \A r \in DOMAIN rows : rows[r].from = FramesHeard(r)
  /\ \A s \in media.scored : s[1] = s[2]
  /\ pc = "layers" => \A q \in DOMAIN seen : seen[q] = TokensMixed(q, Len(seen))
===============================================================================
