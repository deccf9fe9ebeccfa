--------------------------------- MODULE Images ---------------------------------
(***************************************************************************)
(* Pictures become soft tokens: crates/vqtrs-core/src/embedding_gemma2/    *)
(* image.rs (size, resize, patches), video.rs (frames), the pooling of     *)
(* vision.rs and its counterpart in coreml_backend.py.                     *)
(*                                                                         *)
(* A pixel is its place in the source: what is computed is kept as the set *)
(* of source columns and rows it depends on.  A patch of the padding is at *)
(* <<-1, -1>>.                                                             *)
(***************************************************************************)
EXTENDS Integers, Sequences, FiniteSetsExt, SequencesExt

CONSTANTS
  PatchSize,   \* pixels (16)
  Pool,        \* patches pooled to a soft token, per axis (3)
  MaxPixels,   \* of an image (16,777,216)
  FramePixels, \* MAX_PIXELS of a video frame (2,097,152)
  MaxSampled,  \* MAX_SAMPLED_FRAMES (32)
  MaxSource,   \* MAX_SOURCE_FRAMES (3600)
  MaxRate,     \* MAX_FPS (120)
  MaxSeconds   \* MAX_SECONDS (120)

ASSUME ImageAssumption ==
  /\ {PatchSize, Pool, MaxPixels, FramePixels, MaxSource, MaxRate, MaxSeconds} \subseteq Nat \ {0}
  /\ MaxSampled \in Nat \ {0, 1}

Side == PatchSize * Pool

(* The r-th of a set of integers.                                          *)
Nth(S, r) == CHOOSE s \in S : Cardinality({t \in S : t < s}) = r - 1

MaxPatches(soft) == soft * Pool * Pool

-------------------------------------------------------------------------------
(* target_size, in soft tokens: an ideal side is sqrt(soft * a / b) sides  *)
(* of a soft token, whose floor f64 may miss by one if it is exact.  The   *)
(* result is empty where the code refuses the image.                       *)

Snapped(a, b, soft) ==
  LET k == CHOOSE k \in 0 .. soft * a : k * k * b <= soft * a /\ (k + 1) * (k + 1) * b > soft * a
  IN IF k * k * b = soft * a /\ k > 0 THEN {k, k - 1} ELSE {k}

TargetSize(height, width, soft) ==
  {t \in {CASE h = 0 /\ w > 0 -> <<1, Min({width \div height, soft})>>
            [] w = 0 /\ h > 0 -> <<Min({height \div width, soft}), 1>>
            [] OTHER          -> <<h, w>>
          : h \in Snapped(height, width, soft), w \in Snapped(width, height, soft)} :
     t # <<0, 0>> /\ t[1] * t[2] <= soft}

(* axis_weights: the source pixels below each output pixel of an axis.     *)
AxisSources(input, output) ==
  LET d       == 2 * output
      support == 4 * Max({input, output})
      ksize   == 2 * ((support + d - 1) \div d) + 1
      center(i) == input * (2 * i + 1)
      lo(i) == Max({0, (center(i) - support + output) \div d})
      hi(i) == Min({input, (center(i) + support + output) \div d})
  IN [i \in 0 .. output - 1 |->
       IF input = output THEN {i} ELSE lo(i) .. Min({hi(i), lo(i) + ksize}) - 1]

(* resize and patchify: the patches in reading order, then the padding.    *)
PatchAt(width, height, tw, th, x, y) ==
  LET cols == AxisSources(width, tw)
      rows == AxisSources(height, th)
  IN [x |-> x, y |-> y,
      cols |-> UNION {cols[i] : i \in x * PatchSize .. (x + 1) * PatchSize - 1},
      rows |-> UNION {rows[i] : i \in y * PatchSize .. (y + 1) * PatchSize - 1}]

(* preprocess: one image for each size it may be given.                    *)
Preprocess(height, width, soft) ==
  {LET pw == t[2] * Pool
       ph == t[1] * Pool
   IN [patches |-> [i \in 1 .. MaxPatches(soft) |->
         IF i <= ph * pw
         THEN PatchAt(width, height, t[2] * Side, t[1] * Side, (i - 1) % pw, (i - 1) \div pw)
         ELSE [x |-> -1, y |-> -1, cols |-> {}, rows |-> {}]],
       soft |-> (ph * pw) \div (Pool * Pool)]
   : t \in TargetSize(height, width, soft)}

-------------------------------------------------------------------------------
(* VisionModel::pool.  A padding row is zeroed and counted at <<0, 0>>.    *)

(* Mutant: blocks are numbered down the columns.                           *)
BlockDown(patches, p) ==
  LET maxY == Max({q.y : q \in ToSet(patches)}) + 1
  IN Max({0, p.y}) \div Pool + (maxY \div Pool) * (Max({0, p.x}) \div Pool)

Block(patches, p) ==
  LET maxX == Max({q.x : q \in ToSet(patches)}) + 1
  IN Max({0, p.x}) \div Pool + (maxX \div Pool) * (Max({0, p.y}) \div Pool)

(* The position tables and the one-hot matrix are indexed without a check. *)
PoolFits(patches, table) ==
  \A p \in ToSet(patches) :
    /\ p.x < table /\ p.y < table
    /\ Block(patches, p) < Len(patches) \div (Pool * Pool)

(* The pooled rows, each the places of the patches that it averages.       *)
PooledRows(patches) ==
  LET used == {Block(patches, p) : p \in ToSet(patches)}
  IN [r \in 1 .. Cardinality(used) |->
       LET block == Nth(used, r)
       IN {i \in DOMAIN patches : patches[i].x >= 0 /\ Block(patches, patches[i]) = block}]

(* The same by CoreML.vision: the host's groups, and the checks it makes.  *)
CoremlRows(patches) ==
  LET keep    == {i \in DOMAIN patches : patches[i].x >= 0}
      columns == (Max({patches[i].x : i \in keep}) + 1) \div Pool
      group(i) == (patches[i].y \div Pool) * columns + patches[i].x \div Pool
  IN [r \in 1 .. Max({group(i) : i \in keep}) + 1 |-> {i \in keep : group(i) = r - 1}]

CoremlVisionFits(patches, soft, table) ==
  LET keep == {p \in ToSet(patches) : p.x >= 0}
  IN /\ keep # {}
     /\ \A p \in keep : p.x < table /\ p.y < table
     /\ Len(CoremlRows(patches)) = soft
     /\ soft <= Len(patches) \div (Pool * Pool)

-------------------------------------------------------------------------------
(* sample_frames: a frame per second, thinned to MaxSampled.  Metadata has  *)
(* the frames' number, the rate num / den and the duration span / unit, of *)
(* which those in `known` are given, and whether the duration was computed *)
(* from a rate that f64 rounds.  A denominator of 0 stands for what is no  *)
(* finite number.                                                          *)

(* What truncating a product or quotient of f64s gives, whose exact value  *)
(* is a / b: one less is possible where it is an integer and the operands  *)
(* were rounded.                                                           *)
Rounded(den) == den \notin {2 ^ k : k \in 0 .. den}

Truncated(a, b, rounded) ==
  IF a % b = 0 /\ rounded THEN {a \div b, Max({0, a \div b - 1})} ELSE {a \div b}

(* a / b is positive and at most `most`.  Where it is just that, operands  *)
(* that were rounded may take it `above`.                                  *)
Within(a, b, most, above) == b > 0 /\ a > 0 /\ (a < most * b \/ (a = most * b /\ ~above))

(* VideoMetadata::validate.                                                *)
Validate(m) ==
  /\ m.total \in 1 .. MaxSource
  /\ "rate" \in m.known => Within(m.num, m.den, MaxRate, FALSE)
  /\ "duration" \in m.known => Within(m.span, m.unit, MaxSeconds, m.rounded /\ m.above)

(* The samples of valid metadata; num = 0 stands for frames without timing. *)
SampledFrames(total, num, den, seconds) ==
  LET count == IF num = 0 THEN total ELSE Max({1, seconds})
      selected == Min({count, MaxSampled})
      positions(i) ==
        CASE selected = count -> {i}
          [] count > selected /\ i + 1 = selected -> {count - 1}
          [] OTHER -> Truncated(i * (count - 1), selected - 1, (count - 1) % (selected - 1) # 0)
      frames(p) == IF num = 0 THEN {p}
                   ELSE {Min({f, total - 1}) : f \in Truncated(p * num, den, Rounded(den))}
      chosen[n \in 0 .. selected] ==
        IF n = 0 THEN {<<>>}
        ELSE {Append(s, f) : s \in chosen[n - 1], f \in UNION {frames(p) : p \in positions(n - 1)}}
  IN chosen[selected]

Timed(known) == {"rate", "duration"} \subseteq known

SampleFrames(m) ==
  IF ~Validate(m) THEN {}
  ELSE IF Timed(m.known)
  THEN UNION {SampledFrames(m.total, m.num, m.den, s) : s \in Truncated(m.span, m.unit, m.rounded)}
  ELSE SampledFrames(m.total, 0, 1, 0)

(* decode: ffmpeg selects each sampled frame once, and each sample finds   *)
(* its own by a binary search of the selected.                             *)
SelectedFrames(indices) ==
  LET starts   == {i \in DOMAIN indices : i = 1 \/ indices[i] # indices[i - 1]}
      distinct == [j \in 1 .. Cardinality(starts) |-> indices[Nth(starts, j)]]
      decoded(j) == Nth(ToSet(distinct), j)
  IN [i \in DOMAIN indices |-> decoded(CHOOSE j \in DOMAIN distinct : distinct[j] = indices[i])]
===============================================================================
