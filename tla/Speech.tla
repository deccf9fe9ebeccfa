--------------------------------- MODULE Speech ---------------------------------
(***************************************************************************)
(* A clip becomes soft tokens: crates/vqtrs-core/src/embedding_gemma2/     *)
(* mel.rs (WAV, framing, masks) and audio.rs (the conformer tower), with   *)
(* both of its forms, for the CPU and for a GPU.                           *)
(*                                                                         *)
(* What is computed is kept as the set of frames, and a frame as the range *)
(* of samples, that it depends on; a row of zeros depends on none.         *)
(***************************************************************************)
EXTENDS Integers, Sequences, FiniteSetsExt, SequencesExt

CONSTANTS
  Hop,           \* samples from a frame to the next (160)
  FrameLength,   \* samples (320)
  PadMultiple,   \* samples (128)
  MaxSamples,    \* samples, longer clips are cut (480,000)
  Freq,          \* mel features (128)
  Chunk,         \* attention_chunk_size (12)
  ContextLeft,   \* attention_context_left (13)
  KernelSize,    \* conv_kernel_size (5)
  AudioLayers    \* layers of the tower (12)

ASSUME SpeechAssumption ==
  /\ {Hop, FrameLength, PadMultiple, MaxSamples, Freq, Chunk, KernelSize, AudioLayers} \subseteq Nat \ {0}
  /\ ContextLeft \in Nat \ {0, 1}

PadLeft   == FrameLength \div 2
Past      == ContextLeft - 1
Context   == Chunk + Past
Positions == Context \div 2 + 1
CeilDiv(a, b) == (a + b - 1) \div b

-------------------------------------------------------------------------------
(* decode_wav.  A file is [size, riff, chunks]: its length, the end that    *)
(* its header declares, and its chunks [id, len, fmt] by their first byte. *)

WavChunk(file, w) ==
  LET chunk == IF w.pos \in DOMAIN file.chunks THEN file.chunks[w.pos]
               ELSE [id |-> "other", len |-> 0, fmt |-> w.fmt]
      body  == w.pos + 8
      end   == body + chunk.len
      next  == end + (chunk.len % 2)
  IN IF w.refused \/ w.pos >= file.riff THEN w
     ELSE IF next > file.riff \/ (chunk.id = "fmt" /\ ~chunk.fmt.valid)
     THEN [w EXCEPT !.refused = TRUE]
     ELSE [w EXCEPT !.pos = next,
                    !.fmt = IF chunk.id = "fmt" THEN chunk.fmt ELSE @,
                    !.data = IF chunk.id = "data" THEN body .. end - 1 ELSE @,
                    !.found = @ \/ chunk.id = "data"]

(* The bytes of each sample, all its channels together.  A chunk takes at  *)
(* least the eight bytes of its header.                                    *)
DecodeWav(file) ==
  LET start == [pos |-> 12, refused |-> FALSE, found |-> FALSE, data |-> {},
                fmt |-> [valid |-> FALSE, channels |-> 0, rate |-> 0, width |-> 0, align |-> 0]]
      read[n \in 0 .. file.size \div 8] ==
        IF n = 0 THEN start ELSE WavChunk(file, read[n - 1])
      w     == read[file.size \div 8]
      ok    == /\ file.riff \in 12 .. file.size /\ ~w.refused /\ w.found
               /\ w.fmt.channels \in {1, 2} /\ w.fmt.rate > 0 /\ w.fmt.width > 0
               /\ w.fmt.align = w.fmt.channels * w.fmt.width
               /\ Cardinality(w.data) % w.fmt.align = 0
  IN [ok |-> ok, rate |-> w.fmt.rate,
      samples |-> IF ~ok THEN <<>>
                  ELSE [s \in 1 .. Cardinality(w.data) \div w.fmt.align |->
                    {Min(w.data) + (s - 1) * w.fmt.align + b : b \in 0 .. w.fmt.align - 1}]]

-------------------------------------------------------------------------------
(* MelFrontEnd::features for a clip of n samples: FrameLength / 2 zeros in *)
(* front and zeros behind up to a multiple of PadMultiple.                 *)

Features(n) ==
  LET real   == Min({n, MaxSamples})
      length == PadLeft + CeilDiv(real, PadMultiple) * PadMultiple
      unfold == FrameLength + 1
      frames == IF length >= unfold THEN (length - unfold) \div Hop + 1 ELSE 0
      end(f) == f * Hop + unfold - 1
  IN [real    |-> real,
      window  |-> [f \in 0 .. frames - 1 |-> f * Hop - PadLeft .. f * Hop - PadLeft + FrameLength - 1],
      mask    |-> [f \in 0 .. frames - 1 |-> end(f) >= PadLeft /\ end(f) - PadLeft < real]]

Rows(mask) == Cardinality(DOMAIN mask)

-------------------------------------------------------------------------------
(* SubsampleLayer: a 3 x 3 convolution with stride two, of rows x[t].  The *)
(* mask applies to its input and every second row keeps its own.           *)

SubsampledMask(mask) == [t \in 0 .. CeilDiv(Rows(mask), 2) - 1 |-> mask[2 * t]]

Subsample(x, mask) ==
  [t \in 0 .. CeilDiv(Rows(mask), 2) - 1 |->
    UNION {x[i] : i \in {i \in 2 * t - 1 .. 2 * t + 1 : i \in DOMAIN mask /\ mask[i]}}]

(* On a GPU the columns are gathered from the padded, flattened input.     *)
SubsampleNative(x, mask, freq) ==
  LET time   == Rows(mask)
      width  == freq + 2
      index(kt, kf, t, f) == (2 * t + kt) * width + (2 * f + kf)
      padded(i) == LET row == (i \div width) - 1
                       col == (i % width) - 1
                   IN IF row \in DOMAIN mask /\ mask[row] /\ col \in 0 .. freq - 1 THEN x[row] ELSE {}
  IN [t \in 0 .. CeilDiv(time, 2) - 1 |->
       UNION {padded(index(kt, kf, t, f)) : kt \in 0 .. 2, kf \in 0 .. 2, f \in 0 .. CeilDiv(freq, 2) - 1}]

-------------------------------------------------------------------------------
(* Attention.  Block b has the queries b * Chunk + row and the context     *)
(* b * Chunk + at - Past, for row < Chunk and at < Context.                *)

(* Mutant: the context reaches one row further back.                       *)
ValidNear(mask, q, k) == q \in DOMAIN mask /\ k \in DOMAIN mask /\ mask[k] /\ q >= k /\ q - k <= Past

Valid(mask, q, k) == q \in DOMAIN mask /\ k \in DOMAIN mask /\ mask[k] /\ q >= k /\ q - k < Past

(* The context of a query: by copies on the CPU, by the indices of         *)
(* AttentionLayout on a GPU, where the row after the last is zeros.        *)
InContext(x, i) == IF i \in DOMAIN x THEN x[i] ELSE {}
Gathered(x, i)  == LET at == IF i >= 0 /\ i < Rows(x) THEN i ELSE Rows(x)
                   IN IF at = Rows(x) THEN {} ELSE x[at]

(* Softmax of a row without a valid key is uniform.                        *)
Attend(x, mask, gpu) ==
  LET value(i) == IF gpu THEN Gathered(x, i) ELSE InContext(x, i)
      keys(q)  == {(q \div Chunk) * Chunk + at - Past : at \in 0 .. Context - 1}
      seen(q)  == {k \in keys(q) : Valid(mask, q, k)}
  IN [q \in DOMAIN mask |->
       x[q] \cup UNION {value(k) : k \in IF seen(q) = {} THEN keys(q) ELSE seen(q)}]

(* The distance whose embedding scores `row` against `at`: row r of the    *)
(* table is distance Positions - 1 - r.  The CPU reads the table's row of  *)
(* the padded, flattened and truncated scores; -1 is the padding's zero,   *)
(* and -2 the row of another query.                                        *)
ShiftedDistance(row, at) ==
  LET flat == row * Context + at
      sr   == flat \div (Context + 1)
      sc   == flat % (Context + 1)
  IN CASE sr # row        -> -2
       [] sc >= Positions -> -1
       [] OTHER           -> Positions - 1 - sc

(* relative_shift pads each row of the scores to Context + 1, then flattens *)
(* a block's rows and takes the first Chunk * Context.                     *)
ShiftedDistanceNative(row, at) ==
  LET padded == FlattenSeq([r \in 1 .. Chunk |->
                  [c \in 1 .. Context + 1 |-> <<r - 1, IF c <= Positions THEN Positions - c ELSE -1>>]])
      kept   == SubSeq(padded, 1, Chunk * Context)
      score  == kept[row * Context + at + 1]
  IN IF score[1] = row THEN score[2] ELSE -2

(* Each distance that a valid key is at, with the one it is scored by.     *)
Scored(mask, gpu) ==
  UNION {LET q == (t \div Chunk) * Chunk + row
             k == (t \div Chunk) * Chunk + at - Past
         IN IF ~Valid(mask, q, k) THEN {}
            ELSE {<<q - k, IF gpu THEN ShiftedDistanceNative(row, at) ELSE ShiftedDistance(row, at)>>}
         : t \in DOMAIN mask, row \in 0 .. Chunk - 1, at \in 0 .. Context - 1}

(* LightConv: depthwise over the last KernelSize rows, on a GPU from a     *)
(* left-padded copy.                                                       *)
Convolve(x) ==
  [t \in DOMAIN x |-> x[t] \cup UNION {x[t + k - (KernelSize - 1)] :
     k \in {k \in 0 .. KernelSize - 1 : t + k >= KernelSize - 1}}]

ConvolveNative(x) ==
  LET padded(i) == IF i < KernelSize - 1 THEN {} ELSE x[i - (KernelSize - 1)]
  IN [t \in DOMAIN x |-> x[t] \cup UNION {padded(k + t) : k \in 0 .. KernelSize - 1}]

(* Layer::forward: the feed-forwards keep rows apart.                      *)
ConformerLayer(x, mask, gpu) ==
  IF gpu THEN ConvolveNative(Attend(x, mask, TRUE)) ELSE Convolve(Attend(x, mask, FALSE))

(* AudioModel::forward before and after the layers.                        *)
Subsampled(mask, gpu) ==
  LET frames == [f \in DOMAIN mask |-> IF mask[f] THEN {f} ELSE {}]
      half   == SubsampledMask(mask)
      quarter == SubsampledMask(half)
      first  == IF gpu THEN SubsampleNative(frames, mask, Freq) ELSE Subsample(frames, mask)
      second == IF gpu THEN SubsampleNative(first, half, CeilDiv(Freq, 2)) ELSE Subsample(first, half)
  IN [rows |-> second, mask |-> quarter]

ValidRows(x, mask) ==
  LET valid == {t \in DOMAIN mask : mask[t]}
  IN [r \in 1 .. Cardinality(valid) |-> x[CHOOSE t \in valid : Cardinality({u \in valid : u < t}) = r - 1]]
===============================================================================
