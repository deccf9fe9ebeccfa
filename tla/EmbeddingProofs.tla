---------------------------- MODULE EmbeddingProofs ----------------------------
(***************************************************************************)
(* Theorems about Embedding, for every length of input and every value of  *)
(* the constants: the reductions add each term once, every token depends   *)
(* on exactly what it should, no call is refused for anything but its      *)
(* input, and every soft token shows what belongs at its place.            *)
(*                                                                         *)
(* Inv is the inductive invariant of the first two; Placing adds to it     *)
(* what the last two need, and uses AgreementAssumption and                *)
(* DescriptionAssumption besides.                                          *)
(***************************************************************************)
EXTENDS EmbeddingLemmas

-------------------------------------------------------------------------------
(* The inductive invariant, a part at a time.                              *)

Control ==
  /\ hidden \in Sizes
  /\ DOMAIN media = DOMAIN None
  /\ pc \notin {"load", "ready"} =>
       input \in Inputs /\ (Candle /\ input.kind = "texts" => Len(input.lengths) = 1)
  /\ pc \in {"load", "ready", "jpeg", "finish", "decode"} => layer = 0
  /\ pc \in {"tower", "scatter", "layers"} => Candle
  /\ pc \in {"send", "worker"} => ~Candle
  /\ pc = "tower" => input.kind # "texts"

(* The pictures that are left, in the tower.                               *)
PicturesShown ==
  pc = "tower" /\ input.kind # "audio" =>
    Shown(media.pictures) /\ layer \in 0 .. Len(media.pictures)

(* A clip in the tower: each of its layers reaches Lag frames further.     *)
ClipFrames == Rows(Features(Len(media.samples)).mask)
ClipValid  == Valids(Features(Len(media.samples)).mask)

LayerOutput ==
  /\ Masked(media.mask, Quarter(ClipFrames), Quarter(ClipValid))
  /\ Output(media.rows, Quarter(ClipFrames), Quarter(ClipValid), ClipValid, (layer - 1) * Lag)

ClipHeard ==
  pc = "tower" /\ input.kind = "audio" =>
    /\ Len(media.samples) \in Nat
    /\ media.pictures = <<>>
    /\ layer \in 0 .. AudioLayers + 2
    /\ layer = 0 => media.mask = Features(Len(media.samples)).mask
    /\ layer \in 1 .. AudioLayers + 1 => LayerOutput
    /\ layer = AudioLayers + 2 => Len(rows) \in Nat

(* Its soft tokens, once they are cut from the last layer's output.        *)
RowsHeard ==
  /\ Candle /\ input.kind = "audio"
  /\ pc \in {"scatter", "layers", "done"} \/ (pc = "tower" /\ layer = AudioLayers + 2)
  => \A r \in DOMAIN rows : rows[r].from = FramesHeard(r)

TokensTyped == pc = "scatter" => ids[1] \in Seq(Token)

WindowsMixed ==
  pc = "layers" =>
    /\ Len(embeds) \in Nat
    /\ layer \in 0 .. Len(LayerTypes)
    /\ seen = [q \in 1 .. Len(embeds) |-> TokensMixed(q, Len(embeds))]

DistancesTrue == \A s \in media.scored : s[1] = s[2]

Assumptions == KernelAssumption /\ SpeechAssumption /\ ImageAssumption /\ EmbeddingAssumption

Inv ==
  /\ Control /\ PicturesShown /\ ClipHeard /\ RowsHeard /\ TokensTyped /\ WindowsMixed /\ EachOnce
  /\ Balanced => DistancesTrue

LEMMA InitInv ==
  ASSUME Init
  PROVE  Inv
<1> USE DEF Init
<1>1. Control
  BY DEF Control
<1>2. PicturesShown /\ ClipHeard /\ RowsHeard /\ TokensTyped /\ WindowsMixed
  BY DEF PicturesShown, ClipHeard, RowsHeard, TokensTyped, WindowsMixed
<1>3. EachOnce
  BY DEF EachOnce
<1>4. DistancesTrue
  BY DEF DistancesTrue, None
<1> QED BY <1>1, <1>2, <1>3, <1>4 DEF Inv

(* Only what is in the towers is constrained further than Control.         *)
LEMMA Outside ==
  ASSUME Inv, Control', pc' \notin {"tower", "scatter", "layers"}, pc' = "done" => ~Candle',
         UNCHANGED sums, DistancesTrue => DistancesTrue'
  PROVE  Inv'
<1>1. (PicturesShown /\ ClipHeard /\ TokensTyped /\ WindowsMixed)'
  BY DEF PicturesShown, ClipHeard, TokensTyped, WindowsMixed
<1>2. RowsHeard'
  BY DEF RowsHeard
<1>3. EachOnce'
  BY DEF Inv, EachOnce
<1>4. (Balanced => DistancesTrue)'
  BY DEF Inv, Balanced, Context, Past
<1> QED BY <1>1, <1>2, <1>3, <1>4 DEF Inv

LEMMA RefuseInv ==
  ASSUME Inv, NEW who, Refuse(who), pc \notin {"load", "ready"}
  PROVE  Inv'
<1>1. Control'
  BY DEF Inv, Control, Refuse, Candle, None
<1> QED BY <1>1, Outside DEF Refuse, DistancesTrue

LEMMA LoadInv ==
  ASSUME Inv, Load
  PROVE  Inv'
<1>1. Control'
  BY DEF Inv, Control, Load, Candle, None
<1> QED BY <1>1, Outside DEF Load, DistancesTrue

LEMMA AcceptInv ==
  ASSUME Inv, Accept
  PROVE  Inv'
<1>1. Control'
  BY DEF Inv, Control, Accept, Candle, None
<1>2. pc' \in {"jpeg", "decode"}
  BY DEF Accept
<1> QED BY <1>1, <1>2, Outside DEF Accept, DistancesTrue

LEMMA ReadJpegInv ==
  ASSUME Inv, ReadJpeg
  PROVE  Inv'
<1>1. pc' \in {"decode", "finish"} /\ pc = "jpeg" /\ UNCHANGED <<hidden, input, layer, backend, sums>>
  BY DEF ReadJpeg
<1>2. DOMAIN media' = DOMAIN None /\ (media' = media \/ media'.scored = {})
  BY DEF ReadJpeg, None, Inv, Control
<1>3. Control'
  BY <1>1, <1>2 DEF Inv, Control, Candle, None
<1> QED BY <1>1, <1>2, <1>3, Outside DEF DistancesTrue

LEMMA FinishInv ==
  ASSUME Inv, Finish
  PROVE  Inv'
<1>1. pc' = "decode" /\ pc = "finish" /\ UNCHANGED <<hidden, input, layer, backend, sums>>
  BY DEF Finish
<1>2. DOMAIN media = DOMAIN None
  BY DEF Inv, Control
<1>3. DOMAIN media' = DOMAIN None /\ media'.scored = media.scored
  BY <1>2 DEF Finish, None
<1>4. Control'
  BY <1>1, <1>3 DEF Inv, Control, Candle, None
<1> QED BY <1>1, <1>3, <1>4, Outside DEF DistancesTrue

LEMMA PrepareTextsInv ==
  ASSUME Inv, PrepareTexts
  PROVE  Inv'
<1>1. CASE Refuse("input")
  BY <1>1, RefuseInv DEF PrepareTexts
<1>2. CASE ~Refuse("input")
  <2>1. pc' \in {"done", "send"} /\ pc = "decode" /\ ~Candle /\ UNCHANGED <<hidden, input, media, layer, backend, sums>>
    BY <1>2 DEF PrepareTexts
  <2>2. Control'
    BY <2>1 DEF Inv, Control, Candle, None
  <2> QED BY <2>1, <2>2, Outside DEF DistancesTrue, Candle
<1> QED BY <1>1, <1>2

LEMMA PrepareMediaInv ==
  ASSUME Assumptions, Inv, PrepareMedia
  PROVE  Inv'
<1>1. CASE Refuse("input")
  BY <1>1, RefuseInv DEF PrepareMedia
<1>2. CASE ~Refuse("input")
  <2>1. pc = "decode" /\ ~Candle
    BY DEF PrepareMedia
  <2>2. PICK m \in Decodings :
          media' = m /\ pc' = "send" /\ UNCHANGED <<hidden, input, layer, backend, sums>>
    BY <1>2 DEF PrepareMedia
  <2>3. input \in Inputs
    BY <2>1 DEF Inv, Control
  <2>4. m.scored = {} /\ DOMAIN m = DOMAIN None
    BY <2>3, DecodedShape DEF Assumptions
  <2>5. Control'
    BY <2>1, <2>2, <2>4 DEF Inv, Control, Candle, None
  <2> QED BY <2>2, <2>4, <2>5, Outside DEF DistancesTrue
<1> QED BY <1>1, <1>2

LEMMA SendInv ==
  ASSUME Inv, Send
  PROVE  Inv'
<1>1. Control'
  BY DEF Inv, Control, Send, Candle, None
<1> QED BY <1>1, Outside DEF Send, DistancesTrue

LEMMA WorkInv ==
  ASSUME Inv, Work
  PROVE  Inv'
<1>1. CASE Refuse("program")
  BY <1>1, RefuseInv DEF Work
<1>2. CASE ~Refuse("program")
  <2>1. pc = "worker" /\ pc' \in {"done", "send"} /\ UNCHANGED <<hidden, input, media, layer, backend, sums>>
    BY <1>2 DEF Work
  <2>2. Control' /\ ~Candle'
    BY <2>1 DEF Inv, Control, Candle, None
  <2> QED BY <2>1, <2>2, Outside DEF DistancesTrue
<1> QED BY <1>1, <1>2

LEMMA StutterInv ==
  ASSUME Inv, UNCHANGED vars
  PROVE  Inv'
<1> USE DEF vars
<1>1. Control'
  BY DEF Inv, Control, Candle, None
<1>2. PicturesShown' /\ TokensTyped'
  BY DEF Inv, PicturesShown, TokensTyped
<1>3. ClipHeard'
  BY DEF Inv, ClipHeard, LayerOutput, ClipFrames, ClipValid
<1>4. RowsHeard'
  BY DEF Inv, RowsHeard, Candle, FramesHeard
<1>5. WindowsMixed'
  BY DEF Inv, WindowsMixed, TokensMixed
<1>6. EachOnce' /\ (Balanced => DistancesTrue)'
  BY DEF Inv, EachOnce, Balanced, DistancesTrue, Context, Past
<1> QED BY <1>1, <1>2, <1>3, <1>4, <1>5, <1>6 DEF Inv

-------------------------------------------------------------------------------
(* The towers keep the invariant.                                          *)

LEMMA SizesAre ==
  ASSUME Assumptions, Inv
  PROVE  /\ KernelAssumption /\ SpeechAssumption /\ ImageAssumption /\ EmbeddingAssumption
         /\ hidden \in Nat /\ Context \in Nat /\ Past \in Nat \ {0} /\ Lag \in Nat /\ AudioLayers \in Nat \ {0}
<1>1. KernelAssumption /\ SpeechAssumption /\ ImageAssumption /\ EmbeddingAssumption
  BY DEF Assumptions
<1>2. hidden \in Nat
  BY <1>1 DEF Inv, Control, EmbeddingAssumption
<1>3. Past \in Nat \ {0} /\ {Chunk, KernelSize, AudioLayers} \subseteq Nat \ {0}
  BY <1>1 DEF SpeechAssumption, Past
<1>4. Context \in Nat /\ Lag \in Nat
  BY <1>3 DEF Context, Lag
<1> QED BY <1>1, <1>2, <1>3, <1>4

LEMMA DecodeInv ==
  ASSUME Assumptions, Inv, Decode
  PROVE  Inv'
<1>1. CASE Refuse("input")
  BY <1>1, RefuseInv DEF Decode
<1>2. CASE ~Refuse("input")
  <2>1. /\ pc = "decode" /\ Candle
        /\ pc' = IF input.kind = "texts" THEN "scatter" ELSE "tower"
        /\ ids' = IF input.kind = "texts" THEN <<Words(input.lengths[1])>> ELSE <<>>
        /\ UNCHANGED <<backend, hidden, input, layer, sums>>
    BY <1>2 DEF Decode
  <2>2. PICK m \in Decodings : media' = m
    BY <1>2 DEF Decode
  <2>3. input \in Inputs /\ layer = 0 /\ (input.kind = "texts" => Len(input.lengths) = 1)
    BY <2>1 DEF Inv, Control
  <2>4. /\ m.scored = {} /\ DOMAIN m = DOMAIN None
        /\ input.kind \notin {"texts", "audio"} => Shown(m.pictures)
        /\ input.kind = "audio" =>
             m.pictures = <<>> /\ Len(m.samples) \in Nat /\ m.mask = Features(Len(m.samples)).mask
    BY <2>3, DecodedShape DEF Assumptions
  <2>5. Control'
    BY <2>1, <2>2, <2>4 DEF Inv, Control, Candle, None
  <2>6. PicturesShown'
    BY <2>1, <2>2, <2>3, <2>4 DEF PicturesShown, Shown
  <2>7. ClipHeard'
    <3>1. AudioLayers \in Nat
      BY SizesAre
    <3> QED BY <2>1, <2>2, <2>3, <2>4, <3>1 DEF ClipHeard
  <2>8. RowsHeard'
    <3>1. AudioLayers \in Nat
      BY SizesAre
    <3> QED BY <2>1, <2>3, <3>1 DEF RowsHeard
  <2>9. TokensTyped'
    <3>1. SUFFICES ASSUME input.kind = "texts"
                   PROVE  Words(input.lengths[1]) \in Seq(Token)
      BY <2>1 DEF TokensTyped
    <3>2. input.lengths \in Seq(Nat)
      BY <2>3, <3>1 DEF Assumptions, EmbeddingAssumption, Legal
    <3> QED BY <2>3, <3>1, <3>2, WordsType
  <2>10. WindowsMixed' /\ EachOnce' /\ (Balanced => DistancesTrue)'
    BY <2>1, <2>2, <2>4 DEF Inv, WindowsMixed, EachOnce, DistancesTrue
  <2> QED BY <2>5, <2>6, <2>7, <2>8, <2>9, <2>10 DEF Inv
<1> QED BY <1>1, <1>2

LEMMA VisionTowerInv ==
  ASSUME Assumptions, Inv, VisionTower
  PROVE  Inv'
<1>1. CASE Refuse("program")
  BY <1>1, RefuseInv DEF VisionTower
<1>2. CASE ~Refuse("program")
  <2> DEFINE n == Len(media.pictures[layer + 1].patches)
  <2>1. /\ pc = "tower" /\ layer < Len(media.pictures) /\ layer' = layer + 1
        /\ sums' = OnCpu({Sum(n, ReduceAll(UpTo(n))), Sum(hidden, SumRow(UpTo(hidden)))})
        /\ UNCHANGED <<backend, hidden, input, pc, media>>
    BY <1>2 DEF VisionTower
  <2>2. input.kind # "audio"
    <3>1. SUFFICES ASSUME input.kind = "audio" PROVE FALSE
      OBVIOUS
    <3>2. media.pictures = <<>> /\ layer \in 0 .. AudioLayers + 2 /\ AudioLayers \in Nat
      BY <2>1, <3>1, SizesAre DEF Inv, ClipHeard
    <3> QED BY <2>1, <3>2
  <2>3. Shown(media.pictures) /\ layer \in 0 .. Len(media.pictures)
    BY <2>1, <2>2 DEF Inv, PicturesShown
  <2>4. layer + 1 \in 1 .. Len(media.pictures) /\ Len(media.pictures) \in Nat
    BY <2>1, <2>3 DEF Shown
  <2>5. n \in Nat /\ hidden \in Nat
    BY <2>3, <2>4, SizesAre DEF Shown, Picture
  <2> HIDE DEF n
  <2>6. EachOnce'
    <3>1. Added({Sum(n, ReduceAll(UpTo(n)))}) /\ Added({Sum(hidden, SumRow(UpTo(hidden)))})
      BY <2>5, RowSums DEF Assumptions
    <3>2. Added({Sum(n, ReduceAll(UpTo(n))), Sum(hidden, SumRow(UpTo(hidden)))})
      BY <3>1 DEF Added
    <3> QED BY <2>1, <3>2, OnCpuAdded DEF Inv
  <2>7. Control'
    BY <2>1 DEF Inv, Control, Candle, None
  <2>8. PicturesShown'
    BY <2>1, <2>3, <2>4 DEF PicturesShown
  <2>9. (ClipHeard /\ RowsHeard /\ TokensTyped /\ WindowsMixed)'
    BY <2>1, <2>2 DEF ClipHeard, RowsHeard, TokensTyped, WindowsMixed
  <2>10. (Balanced => DistancesTrue)'
    BY <2>1 DEF Inv, DistancesTrue, Balanced, Context, Past
  <2> QED BY <2>6, <2>7, <2>8, <2>9, <2>10 DEF Inv
<1> QED BY <1>1, <1>2

(* What the three actions of a clip have in common.                        *)
LEMMA InClip ==
  ASSUME Inv, pc = "tower", input.kind = "audio",
         UNCHANGED <<backend, hidden, input, pc>>, DOMAIN media' = DOMAIN None
  PROVE  (Control /\ PicturesShown /\ TokensTyped /\ WindowsMixed)'
<1>1. Control'
  BY DEF Inv, Control, Candle, None
<1> QED BY <1>1 DEF PicturesShown, TokensTyped, WindowsMixed

LEMMA AudioSubsampleInv ==
  ASSUME Assumptions, Inv, AudioSubsample
  PROVE  Inv'
<1> DEFINE s == Subsampled(media.mask, backend = "gpu")
<1>1. /\ pc = "tower" /\ input.kind = "audio" /\ layer = 0 /\ layer' = 1
      /\ media' = [media EXCEPT !.rows = s.rows, !.mask = s.mask]
      /\ sums' = OnCpu({Sum(hidden, Moments(UpTo(hidden)))})
      /\ UNCHANGED <<backend, hidden, input, pc, rows>>
  BY DEF AudioSubsample
<1>2. DOMAIN media = DOMAIN None
  BY DEF Inv, Control
<1>3. /\ media'.rows = s.rows /\ media'.mask = s.mask /\ media'.samples = media.samples
      /\ media'.pictures = media.pictures /\ media'.scored = media.scored /\ DOMAIN media' = DOMAIN None
  <2> HIDE DEF s
  <2> QED BY <1>1, <1>2 DEF None
<1>4. /\ Len(media.samples) \in Nat /\ media.pictures = <<>>
      /\ media.mask = Features(Len(media.samples)).mask
  BY <1>1 DEF Inv, ClipHeard
<1>5. Masked(media.mask, ClipFrames, ClipValid)
  BY <1>4, FeaturesMasked DEF Assumptions, ClipFrames, ClipValid
<1>6. /\ Masked(s.mask, Quarter(ClipFrames), Quarter(ClipValid))
      /\ Output(s.rows, Quarter(ClipFrames), Quarter(ClipValid), ClipValid, 0)
  <2>1. PICK gpu \in BOOLEAN : gpu = (backend = "gpu")
    OBVIOUS
  <2>2. PICK mask, F, V : mask = media.mask /\ F = ClipFrames /\ V = ClipValid
    OBVIOUS
  <2>3. s = Subsampled(mask, gpu)
    BY <2>1, <2>2
  <2> HIDE DEF s
  <2>4. SpeechAssumption /\ Masked(mask, F, V)
    BY <1>5, <2>2 DEF Assumptions
  <2>5. LET o == Subsampled(mask, gpu)
        IN /\ Masked(o.mask, Quarter(F), Quarter(V))
           /\ DOMAIN o.rows = 0 .. Quarter(F) - 1
           /\ \A t \in 0 .. Quarter(V) - 1 : o.rows[t] = Heard(V, t, 0)
    BY <2>4, SubsampledHeard
  <2> QED BY <2>2, <2>3, <2>5 DEF Output
<1> HIDE DEF s
<1>7. ClipFrames' = ClipFrames /\ ClipValid' = ClipValid
  BY <1>3 DEF ClipFrames, ClipValid
<1>8. LayerOutput'
  <2>1. (layer' - 1) * Lag = 0
    <3>1. Lag \in Nat
      BY SizesAre
    <3> QED BY <1>1, <3>1
  <2> QED BY <1>3, <1>6, <1>7, <2>1 DEF LayerOutput
<1>9. AudioLayers \in Nat \ {0} /\ hidden \in Nat
  BY SizesAre
<1>10. ClipHeard'
  BY <1>1, <1>3, <1>4, <1>8, <1>9 DEF ClipHeard
<1>11. RowsHeard'
  BY <1>1, <1>9 DEF RowsHeard
<1>12. EachOnce'
  BY <1>1, <1>9, RowSums, OnCpuAdded DEF Inv, Assumptions
<1>13. (Balanced => DistancesTrue)'
  BY <1>3 DEF Inv, DistancesTrue, Balanced, Context, Past
<1>14. (Control /\ PicturesShown /\ TokensTyped /\ WindowsMixed)'
  BY <1>1, <1>3, InClip
<1> QED BY <1>10, <1>11, <1>12, <1>13, <1>14 DEF Inv

LEMMA AudioLayerInv ==
  ASSUME Assumptions, Inv, AudioLayer
  PROVE  Inv'
<1> DEFINE gpu == backend = "gpu"
           x   == ConformerLayer(media.rows, media.mask, gpu)
<1>1. /\ pc = "tower" /\ input.kind = "audio" /\ layer \in 1 .. AudioLayers /\ layer' = layer + 1
      /\ media' = [media EXCEPT !.rows = x, !.scored = Scored(media.mask, gpu)]
      /\ sums' = OnCpu({Sum(Context, ReduceAll(UpTo(Context)))}
                       \cup {Sum(hidden, SumCol(UpTo(hidden), Rows(media.mask), c)) : c \in DOMAIN media.mask})
      /\ UNCHANGED <<backend, hidden, input, pc, rows>>
  BY DEF AudioLayer
<1>2. DOMAIN media = DOMAIN None /\ gpu \in BOOLEAN
  BY DEF Inv, Control
<1>3. /\ media'.rows = x /\ media'.mask = media.mask /\ media'.samples = media.samples
      /\ media'.pictures = media.pictures /\ media'.scored = Scored(media.mask, gpu) /\ DOMAIN media' = DOMAIN None
  <2> HIDE DEF x, gpu
  <2> QED BY <1>1, <1>2 DEF None
<1>4. AudioLayers \in Nat \ {0} /\ hidden \in Nat /\ Lag \in Nat /\ Context \in Nat
  BY SizesAre
<1>5. /\ Len(media.samples) \in Nat /\ media.pictures = <<>> /\ LayerOutput
  BY <1>1, <1>4 DEF Inv, ClipHeard
<1>6. ClipFrames' = ClipFrames /\ ClipValid' = ClipValid
  BY <1>3 DEF ClipFrames, ClipValid
<1> HIDE DEF gpu
<1>7. LayerOutput'
  <2>1. PICK back : back = (layer - 1) * Lag
    OBVIOUS
  <2>2. back \in Nat /\ (layer' - 1) * Lag = back + Lag
    BY <1>1, <1>4, <2>1
  <2>3. ClipValid \in Nat
    <3>1. Masked(Features(Len(media.samples)).mask, ClipFrames, ClipValid)
      BY <1>5, FeaturesMasked DEF Assumptions, ClipFrames, ClipValid
    <3> QED BY <3>1 DEF Masked
  <2>4. Output(x, Quarter(ClipFrames), Quarter(ClipValid), ClipValid, back + Lag)
    <3>1. /\ Masked(media.mask, Quarter(ClipFrames), Quarter(ClipValid))
          /\ Output(media.rows, Quarter(ClipFrames), Quarter(ClipValid), ClipValid, back)
      BY <1>5, <2>1 DEF LayerOutput
    <3> QED BY <1>2, <2>2, <2>3, <3>1, LayerHeard DEF Assumptions
  <2> HIDE DEF x
  <2>5. Masked(media.mask, Quarter(ClipFrames), Quarter(ClipValid))
    BY <1>5 DEF LayerOutput
  <2> QED BY <1>3, <1>6, <2>2, <2>4, <2>5 DEF LayerOutput
<1> HIDE DEF x
<1>8. ClipHeard'
  BY <1>1, <1>3, <1>4, <1>5, <1>7 DEF ClipHeard
<1>9. RowsHeard'
  BY <1>1, <1>4 DEF RowsHeard
<1>10. EachOnce'
  <2>1. PICK C, F : C = DOMAIN media.mask /\ F = Rows(media.mask)
    OBVIOUS
  <2>2. Added({Sum(hidden, SumCol(UpTo(hidden), F, c)) : c \in C})
    BY <1>4, ColumnSums DEF Assumptions
  <2>3. Added({Sum(Context, ReduceAll(UpTo(Context)))})
    BY <1>4, RowSums DEF Assumptions
  <2> QED BY <1>1, <2>1, <2>2, <2>3, AddedBoth, OnCpuAdded DEF Inv
<1>11. (Balanced => DistancesTrue)'
  <2>1. SUFFICES ASSUME Balanced, NEW s \in Scored(media.mask, gpu)
                 PROVE  s[1] = s[2]
    BY <1>3 DEF DistancesTrue, Balanced, Context, Past
  <2>2. DOMAIN media.mask \subseteq Nat
    BY <1>5 DEF LayerOutput, Masked
  <2> QED BY <1>2, <2>1, <2>2, ScoredTrue DEF Assumptions
<1>12. (Control /\ PicturesShown /\ TokensTyped /\ WindowsMixed)'
  BY <1>1, <1>3, InClip
<1> QED BY <1>8, <1>9, <1>10, <1>11, <1>12 DEF Inv

LEMMA AudioRowsInv ==
  ASSUME Assumptions, Inv, AudioRows
  PROVE  Inv'
<1> DEFINE valid == ValidRows(media.rows, media.mask)
<1>1. /\ pc = "tower" /\ input.kind = "audio" /\ layer = AudioLayers + 1 /\ layer' = layer + 1
      /\ rows' = [r \in DOMAIN valid |-> [at |-> r, from |-> valid[r]]]
      /\ UNCHANGED <<backend, hidden, input, pc, media, sums>>
  BY DEF AudioRows
<1>2. AudioLayers \in Nat \ {0} /\ Lag \in Nat
  BY SizesAre
<1>3. Len(media.samples) \in Nat /\ media.pictures = <<>> /\ LayerOutput
  BY <1>1, <1>2 DEF Inv, ClipHeard
<1>4. Masked(Features(Len(media.samples)).mask, ClipFrames, ClipValid)
  BY <1>3, FeaturesMasked DEF Assumptions, ClipFrames, ClipValid
<1>5. PICK Q, W, back : Q = Quarter(ClipFrames) /\ W = Quarter(ClipValid) /\ back = AudioLayers * Lag
  OBVIOUS
<1>6. Masked(media.mask, Q, W) /\ Output(media.rows, Q, W, ClipValid, back) /\ W \in Nat /\ back \in Nat
  <2>1. (layer - 1) * Lag = AudioLayers * Lag
    BY <1>1, <1>2
  <2> QED BY <1>2, <1>3, <1>5, <2>1 DEF LayerOutput, Masked
<1>7. DOMAIN valid = 1 .. W /\ \A r \in 1 .. W : valid[r] = media.rows[r - 1]
  BY <1>6, ValidRowsFirst
<1> HIDE DEF valid
<1>8. DOMAIN rows' = 1 .. W /\ \A r \in 1 .. W : rows'[r].from = media.rows[r - 1]
  BY <1>1, <1>7
<1>9. Len(rows') \in Nat
  <2>1. PICK S : S = {rows'[r] : r \in 1 .. W}
    OBVIOUS
  <2>2. rows' \in [1 .. W -> S]
    BY <1>1, <1>7, <1>8, <2>1
  <2> QED BY <1>6, <2>2, FunctionSeq
<1>10. ASSUME NEW r \in 1 .. W
       PROVE  FramesHeard(r) = Heard(ClipValid, r - 1, back)
  <2>1. PICK mask : mask = Features(Len(media.samples)).mask
    OBVIOUS
  <2>2. ClipFrames \in Nat /\ ClipValid \in 0 .. ClipFrames /\ DOMAIN mask = 0 .. ClipFrames - 1
        /\ \A f \in 0 .. ClipFrames - 1 : mask[f] <=> f < ClipValid
    BY <1>4, <2>1, RowsMasked
  <2>3. AudioLayers * ((Past - 1) + (KernelSize - 1)) = back
    BY <1>5 DEF Lag
  <2>4. FramesHeard(r) = {f \in DOMAIN mask : mask[f] /\ f >= 4 * (r - 1 - back) - 3 /\ f <= 4 * (r - 1) + 3}
    BY <2>1, <2>3 DEF FramesHeard
  <2>5. PICK V, F : V = ClipValid /\ F = ClipFrames
    OBVIOUS
  <2>6. {f \in DOMAIN mask : mask[f] /\ f >= 4 * (r - 1 - back) - 3 /\ f <= 4 * (r - 1) + 3}
          = {f \in 0 .. V - 1 : f >= 4 * (r - 1 - back) - 3 /\ f <= 4 * (r - 1) + 3}
    BY <1>6, <2>2, <2>5
  <2> QED BY <2>4, <2>5, <2>6 DEF Heard
<1>11. RowsHeard'
  <2>1. ASSUME NEW r \in 1 .. W PROVE rows'[r].from = FramesHeard(r)
    <3>1. r - 1 \in 0 .. W - 1
      BY <1>6
    <3>2. media.rows[r - 1] = Heard(ClipValid, r - 1, back)
      BY <1>6, <3>1 DEF Output
    <3> QED BY <1>8, <1>10, <3>2
  <2>2. \A r : FramesHeard(r)' = FramesHeard(r)
    BY <1>1 DEF FramesHeard
  <2> QED BY <1>8, <2>1, <2>2 DEF RowsHeard
<1>12. ClipHeard'
  BY <1>1, <1>2, <1>3, <1>9 DEF ClipHeard
<1>13. EachOnce' /\ (Balanced => DistancesTrue)'
  BY <1>1 DEF Inv, EachOnce, DistancesTrue, Balanced, Context, Past
<1>14. (Control /\ PicturesShown /\ TokensTyped /\ WindowsMixed)'
  <2>1. DOMAIN media' = DOMAIN None
    BY <1>1 DEF Inv, Control
  <2> QED BY <1>1, <2>1, InClip
<1> QED BY <1>11, <1>12, <1>13, <1>14 DEF Inv

LEMMA PromptInv ==
  ASSUME Assumptions, Inv, Prompt
  PROVE  Inv'
<1>1. /\ pc = "tower" /\ pc' = "scatter"
      /\ layer = IF input.kind = "audio" THEN AudioLayers + 2 ELSE Len(media.pictures)
      /\ ids' = IF input.kind = "audio" THEN <<MediaIds(Len(rows), 1)>>
                ELSE <<MediaIds(media.pictures[1].soft, Len(media.pictures))>>
      /\ UNCHANGED <<backend, hidden, input, media, layer, rows, sums>>
  BY DEF Prompt
<1>2. AudioLayers \in Nat \ {0}
  BY SizesAre
<1>3. Control'
  BY <1>1 DEF Inv, Control, Candle, None
<1>4. (PicturesShown /\ ClipHeard /\ WindowsMixed)'
  BY <1>1 DEF PicturesShown, ClipHeard, WindowsMixed
<1>5. EachOnce' /\ (Balanced => DistancesTrue)'
  BY <1>1 DEF Inv, EachOnce, DistancesTrue, Balanced, Context, Past
<1>6. (RowsHeard /\ TokensTyped)'
  <2>1. CASE input.kind = "audio"
    <3>1. Len(rows) \in Nat
      BY <1>1, <1>2, <2>1 DEF Inv, ClipHeard
    <3>2. MediaIds(Len(rows), 1) \in Seq(Token)
      BY <3>1, MediaIdsType
    <3>3. TokensTyped'
      BY <1>1, <2>1, <3>2 DEF TokensTyped
    <3>4. RowsHeard'
      <4>1. \A r : FramesHeard(r)' = FramesHeard(r)
        BY <1>1 DEF FramesHeard
      <4> QED BY <1>1, <2>1, <4>1 DEF Inv, RowsHeard, Candle
    <3> QED BY <3>3, <3>4
  <2>2. CASE input.kind # "audio"
    <3>1. Len(media.pictures) \in Nat \ {0} /\ media.pictures[1].soft \in Nat
      <4>1. Shown(media.pictures)
        BY <1>1, <2>2 DEF Inv, PicturesShown
      <4>2. Len(media.pictures) \in Nat \ {0} /\ 1 \in 1 .. Len(media.pictures)
        BY <4>1 DEF Shown
      <4> QED BY <4>1, <4>2 DEF Shown, Picture
    <3>2. MediaIds(media.pictures[1].soft, Len(media.pictures)) \in Seq(Token)
      BY <3>1, MediaIdsType
    <3> QED BY <1>1, <2>2, <3>2 DEF TokensTyped, RowsHeard
  <2> QED BY <2>1, <2>2
<1> QED BY <1>3, <1>4, <1>5, <1>6 DEF Inv

-------------------------------------------------------------------------------
(* The text tower.                                                         *)

WindowOf(q, n, w) == {k \in 1 .. n : q - k <= w /\ k - q <= w}

(* A window of the windows of w more is a window of their sum.             *)
LEMMA WindowsJoin ==
  ASSUME NEW n \in Nat, NEW q \in 1 .. n, NEW r \in Nat, NEW w \in Nat
  PROVE  UNION {WindowOf(k, n, r) : k \in WindowOf(q, n, w)} = WindowOf(q, n, r + w)
<1>1. ASSUME NEW k \in WindowOf(q, n, w), NEW j \in WindowOf(k, n, r)
      PROVE  j \in WindowOf(q, n, r + w)
  BY DEF WindowOf
<1>2. ASSUME NEW j \in WindowOf(q, n, r + w)
      PROVE  \E k \in WindowOf(q, n, w) : j \in WindowOf(k, n, r)
  <2>1. j \in 1 .. n /\ q - j <= r + w /\ j - q <= r + w
    BY DEF WindowOf
  <2>2. CASE q - j > w
    <3>1. q - w \in WindowOf(q, n, w) /\ j \in WindowOf(q - w, n, r)
      BY <2>1, <2>2 DEF WindowOf
    <3> QED BY <3>1
  <2>3. CASE j - q > w
    <3>1. q + w \in WindowOf(q, n, w) /\ j \in WindowOf(q + w, n, r)
      BY <2>1, <2>3 DEF WindowOf
    <3> QED BY <3>1
  <2>4. CASE q - j <= w /\ j - q <= w
    <3>1. j \in WindowOf(q, n, w) /\ j \in WindowOf(j, n, r)
      BY <2>1, <2>4 DEF WindowOf
    <3> QED BY <3>1
  <2> QED BY <2>1, <2>2, <2>3, <2>4
<1> QED BY <1>1, <1>2

Full(l) == {i \in 1 .. l : LayerTypes[i] = "full"}

(* The reach after `l` layers.                                             *)
MixedAfter(l, q, n) == IF Full(l) # {} THEN 1 .. n ELSE WindowOf(q, n, l * Window)

LEMMA MixedIs ==
  ASSUME NEW q, NEW n
  PROVE  TokensMixed(q, n) = MixedAfter(layer, q, n)
BY DEF TokensMixed, MixedAfter, Full, WindowOf

LEMMA MixedItself ==
  ASSUME Window \in Nat, NEW l \in Nat, NEW n \in Nat, NEW q \in 1 .. n
  PROVE  q \in MixedAfter(l, q, n) /\ MixedAfter(l, q, n) \subseteq 1 .. n
<1>1. PICK r : r = l * Window
  OBVIOUS
<1>2. r \in Nat
  BY <1>1
<1> QED BY <1>1, <1>2 DEF MixedAfter, WindowOf

LEMMA LayerMixes ==
  ASSUME Window \in Nat, NEW l \in Nat, NEW n \in Nat, NEW q \in 1 .. n
  PROVE  UNION {MixedAfter(l, k, n) : k \in Attended(q, n, LayerTypes[l + 1])} = MixedAfter(l + 1, q, n)
<1>1. PICK A : A = Attended(q, n, LayerTypes[l + 1])
  OBVIOUS
<1>2. SUFFICES UNION {MixedAfter(l, k, n) : k \in A} = MixedAfter(l + 1, q, n)
  BY <1>1
<1>3. A \subseteq 1 .. n /\ q \in A
  BY <1>1 DEF Attended
<1>4. Full(l + 1) = Full(l) \cup (IF LayerTypes[l + 1] = "full" THEN {l + 1} ELSE {})
  BY DEF Full
<1>5. CASE Full(l) # {}
  <2>1. \A k : MixedAfter(l, k, n) = 1 .. n
    BY <1>5 DEF MixedAfter
  <2>2. MixedAfter(l + 1, q, n) = 1 .. n
    BY <1>4, <1>5 DEF MixedAfter
  <2> QED BY <1>3, <2>1, <2>2
<1>6. CASE Full(l) = {} /\ LayerTypes[l + 1] = "full"
  <2>1. MixedAfter(l + 1, q, n) = 1 .. n
    BY <1>4, <1>6 DEF MixedAfter
  <2>2. A = 1 .. n
    BY <1>6, <1>1 DEF Attended
  <2>3. \A k \in 1 .. n : k \in MixedAfter(l, k, n) /\ MixedAfter(l, k, n) \subseteq 1 .. n
    BY MixedItself
  <2> QED BY <2>1, <2>2, <2>3
<1>7. CASE Full(l) = {} /\ LayerTypes[l + 1] # "full"
  <2>1. PICK r, w : r = l * Window /\ w = Window
    OBVIOUS
  <2>2. r \in Nat /\ w \in Nat /\ (l + 1) * Window = r + w
    BY <2>1
  <2>3. MixedAfter(l + 1, q, n) = WindowOf(q, n, r + w) /\ \A k : MixedAfter(l, k, n) = WindowOf(k, n, r)
    BY <1>4, <1>7, <2>1, <2>2 DEF MixedAfter
  <2>4. CASE n <= Window + 1
    <3>1. A = 1 .. n
      BY <2>4, <1>1 DEF Attended
    <3>2. WindowOf(q, n, r + w) = 1 .. n
      BY <2>1, <2>2, <2>4 DEF WindowOf
    <3>3. \A k \in 1 .. n : k \in WindowOf(k, n, r) /\ WindowOf(k, n, r) \subseteq 1 .. n
      BY <2>2 DEF WindowOf
    <3> QED BY <2>3, <3>1, <3>2, <3>3
  <2>5. CASE n > Window + 1
    <3>1. A = WindowOf(q, n, w)
      BY <1>7, <1>1, <2>1, <2>5 DEF Attended, WindowOf
    <3>2. UNION {MixedAfter(l, k, n) : k \in A} = UNION {WindowOf(k, n, r) : k \in WindowOf(q, n, w)}
      BY <2>3, <3>1
    <3> QED BY <2>2, <2>3, <3>2, WindowsJoin
  <2> QED BY <2>4, <2>5
<1> QED BY <1>5, <1>6, <1>7

LEMMA ScatterInv ==
  ASSUME Assumptions, Inv, Scatter
  PROVE  Inv'
<1> DEFINE tokens == ids[1]
<1>1. CASE Refuse("input") \/ Refuse("program")
  BY <1>1, RefuseInv DEF Scatter
<1>2. CASE ~Refuse("input") /\ ~Refuse("program")
  <2>1. /\ pc = "scatter" /\ pc' = "layers" /\ layer' = 0
        /\ embeds' = MaskedScatter(tokens, rows)
        /\ seen' = [i \in DOMAIN tokens |-> {i}]
        /\ UNCHANGED <<backend, hidden, input, media, rows, sums>>
    BY <1>2 DEF Scatter
  <2>2. PICK n \in Nat : DOMAIN tokens = 1 .. n
    <3>1. tokens \in Seq(Token)
      BY <2>1 DEF Inv, TokensTyped
    <3> HIDE DEF tokens
    <3> QED BY <3>1, LenProperties
  <2>3. Len(embeds') = n
    <3>1. PICK S : S = {embeds'[i] : i \in 1 .. n}
      OBVIOUS
    <3>2. embeds' \in [1 .. n -> S]
      <4>1. DOMAIN embeds' = 1 .. n /\ embeds' = [i \in 1 .. n |-> embeds'[i]]
        BY <2>1, <2>2 DEF MaskedScatter
      <4> QED BY <3>1, <4>1
    <3> QED BY <3>2, FunctionSeq
  <2>4. ASSUME NEW q \in 1 .. n
        PROVE  TokensMixed(q, n)' = {q}
    <3>1. {i \in 1 .. layer' : LayerTypes[i] = "full"} = {}
      BY <2>1
    <3>2. layer' * Window = 0
      BY <2>1 DEF Assumptions, EmbeddingAssumption
    <3>3. {k \in 1 .. n : q - k <= 0 /\ k - q <= 0} = {q}
      OBVIOUS
    <3> QED BY <3>1, <3>2, <3>3 DEF TokensMixed
  <2>5. WindowsMixed'
    <3>1. seen' = [q \in 1 .. n |-> TokensMixed(q, n)']
      BY <2>1, <2>2, <2>4
    <3>2. LayerTypes \in Seq({"sliding", "full"})
      BY DEF Assumptions, EmbeddingAssumption
    <3> QED BY <2>1, <2>3, <3>1, <3>2 DEF WindowsMixed, TokensMixed
  <2>6. RowsHeard'
    <3>1. \A r : FramesHeard(r)' = FramesHeard(r)
      BY <2>1 DEF FramesHeard
    <3> QED BY <2>1, <3>1 DEF Inv, RowsHeard, Candle
  <2>7. Control'
    BY <2>1 DEF Inv, Control, Candle, None
  <2>8. (PicturesShown /\ ClipHeard /\ TokensTyped)'
    BY <2>1 DEF PicturesShown, ClipHeard, TokensTyped
  <2>9. EachOnce' /\ (Balanced => DistancesTrue)'
    BY <2>1 DEF Inv, EachOnce, DistancesTrue, Balanced, Context, Past
  <2> QED BY <2>5, <2>6, <2>7, <2>8, <2>9 DEF Inv
<1> QED BY <1>1, <1>2

LEMMA TextLayerInv ==
  ASSUME Assumptions, Inv, TextLayer
  PROVE  Inv'
<1>1. PICK n : n = Len(embeds)
  OBVIOUS
<1>2. /\ pc = "layers" /\ layer < Len(LayerTypes) /\ layer' = layer + 1
      /\ seen' = [q \in 1 .. n |-> UNION {seen[k] : k \in Attended(q, n, LayerTypes[layer + 1])}]
      /\ sums' = OnCpu({Sum(n, ReduceAll(UpTo(n))), Sum(hidden, SumRow(UpTo(hidden)))})
      /\ UNCHANGED <<backend, hidden, input, pc, media, rows, embeds>>
  BY <1>1 DEF TextLayer
<1>3. n \in Nat /\ layer \in 0 .. Len(LayerTypes) /\ seen = [q \in 1 .. n |-> TokensMixed(q, n)]
  BY <1>1, <1>2 DEF Inv, WindowsMixed
<1>4. Window \in Nat /\ hidden \in Nat /\ Len(LayerTypes) \in Nat
  BY SizesAre DEF EmbeddingAssumption
<1>5. WindowsMixed'
  <2>1. ASSUME NEW q \in 1 .. n
        PROVE  UNION {seen[k] : k \in Attended(q, n, LayerTypes[layer + 1])} = MixedAfter(layer + 1, q, n)
    <3>1. PICK A : A = Attended(q, n, LayerTypes[layer + 1])
      OBVIOUS
    <3>2. A \subseteq 1 .. n
      BY <3>1 DEF Attended
    <3>3. \A k \in A : seen[k] = MixedAfter(layer, k, n)
      BY <1>3, <3>2, MixedIs
    <3>4. UNION {seen[k] : k \in A} = UNION {MixedAfter(layer, k, n) : k \in A}
      BY <3>3
    <3>5. UNION {MixedAfter(layer, k, n) : k \in A} = MixedAfter(layer + 1, q, n)
      BY <1>3, <1>4, <3>1, LayerMixes
    <3> QED BY <3>1, <3>4, <3>5
  <2>2. seen' = [q \in 1 .. n |-> MixedAfter(layer + 1, q, n)]
    BY <1>2, <2>1
  <2>3. seen' = [q \in 1 .. n |-> TokensMixed(q, n)']
    BY <1>2, <2>2 DEF TokensMixed, MixedAfter, Full, WindowOf
  <2>4. layer' \in 0 .. Len(LayerTypes)
    BY <1>2, <1>3, <1>4
  <2> QED BY <1>1, <1>2, <1>3, <2>3, <2>4 DEF WindowsMixed, TokensMixed
<1>6. EachOnce'
  <2>1. Added({Sum(n, ReduceAll(UpTo(n)))}) /\ Added({Sum(hidden, SumRow(UpTo(hidden)))})
    BY <1>3, <1>4, RowSums DEF Assumptions
  <2>2. Added({Sum(n, ReduceAll(UpTo(n))), Sum(hidden, SumRow(UpTo(hidden)))})
    BY <2>1 DEF Added
  <2> QED BY <1>2, <2>2, OnCpuAdded DEF Inv
<1>7. RowsHeard'
  <2>1. \A r : FramesHeard(r)' = FramesHeard(r)
    BY <1>2 DEF FramesHeard
  <2> QED BY <1>2, <2>1 DEF Inv, RowsHeard, Candle
<1>8. Control'
  BY <1>2 DEF Inv, Control, Candle, None
<1>9. (PicturesShown /\ ClipHeard /\ TokensTyped)'
  BY <1>2 DEF PicturesShown, ClipHeard, TokensTyped
<1>10. (Balanced => DistancesTrue)'
  BY <1>2 DEF Inv, DistancesTrue, Balanced, Context, Past
<1> QED BY <1>5, <1>6, <1>7, <1>8, <1>9, <1>10 DEF Inv

LEMMA PoolTokensInv ==
  ASSUME Assumptions, Inv, PoolTokens
  PROVE  Inv'
<1> DEFINE n == Len(embeds)
<1>1. /\ pc = "layers" /\ pc' = "done"
      /\ sums' = OnCpu({Sum(n, SumCol(UpTo(n), hidden, c)) : c \in {0, hidden - 1}}
                       \cup {Sum(hidden, NormRow(UpTo(hidden)))})
      /\ UNCHANGED <<backend, hidden, input, media, layer, rows, embeds>>
  BY DEF PoolTokens
<1>2. n \in Nat /\ hidden \in Nat
  BY <1>1, SizesAre DEF Inv, WindowsMixed
<1> HIDE DEF n
<1>3. EachOnce'
  <2>1. PICK C : C = {0, hidden - 1}
    OBVIOUS
  <2>2. Added({Sum(n, SumCol(UpTo(n), hidden, c)) : c \in C})
    BY <1>2, ColumnSums DEF Assumptions
  <2>3. Added({Sum(hidden, NormRow(UpTo(hidden)))})
    BY <1>2, RowSums DEF Assumptions
  <2> QED BY <1>1, <2>1, <2>2, <2>3, AddedBoth, OnCpuAdded DEF Inv
<1>4. RowsHeard'
  <2>1. \A r : FramesHeard(r)' = FramesHeard(r)
    BY <1>1 DEF FramesHeard
  <2> QED BY <1>1, <2>1 DEF Inv, RowsHeard, Candle
<1>5. Control'
  BY <1>1 DEF Inv, Control, Candle, None
<1>6. (PicturesShown /\ ClipHeard /\ TokensTyped /\ WindowsMixed)'
  BY <1>1 DEF PicturesShown, ClipHeard, TokensTyped, WindowsMixed
<1>7. (Balanced => DistancesTrue)'
  BY <1>1 DEF Inv, DistancesTrue, Balanced, Context, Past
<1> QED BY <1>3, <1>4, <1>5, <1>6, <1>7 DEF Inv

-------------------------------------------------------------------------------
(* The theorems.                                                           *)

LEMMA NextInv ==
  ASSUME Assumptions, Inv, [Next]_vars
  PROVE  Inv'
<1>1. CASE Load \/ Accept \/ ReadJpeg \/ Finish
  BY <1>1, LoadInv, AcceptInv, ReadJpegInv, FinishInv
<1>2. CASE Decode \/ VisionTower \/ AudioSubsample \/ AudioLayer \/ AudioRows \/ Prompt
  BY <1>2, DecodeInv, VisionTowerInv, AudioSubsampleInv, AudioLayerInv, AudioRowsInv, PromptInv
<1>3. CASE Scatter \/ TextLayer \/ PoolTokens
  BY <1>3, ScatterInv, TextLayerInv, PoolTokensInv
<1>4. CASE PrepareTexts \/ PrepareMedia \/ Send \/ Work
  BY <1>4, PrepareTextsInv, PrepareMediaInv, SendInv, WorkInv
<1>5. CASE Done \/ UNCHANGED vars
  BY <1>5, StutterInv DEF Done
<1> QED BY <1>1, <1>2, <1>3, <1>4, <1>5 DEF Next

LEMMA Invariance == Spec => []Inv
<1>1. Assumptions
  BY KernelAssumption, SpeechAssumption, ImageAssumption, EmbeddingAssumption DEF Assumptions
<1>2. Init => Inv
  BY InitInv
<1>3. Inv /\ [Next]_vars => Inv'
  BY <1>1, NextInv
<1> QED BY <1>2, <1>3, PTL DEF Spec

(* Every reduction that runs on the CPU adds each of its terms exactly     *)
(* once: the cascades of row_sum and sum_cols, the lanes and tails of      *)
(* sum_row, reduce_all and l2_norm_row, and the merges of rowwise_moments, *)
(* for all lengths of pictures, clips and prompts and all widths of lanes, *)
(* levels and chunks.                                                      *)
THEOREM SumsAddOnce == Spec => []EachOnce
<1>1. Inv => EachOnce
  BY DEF Inv
<1> QED BY <1>1, Invariance, PTL

(* Reach without its distances.                                            *)
TokensReach ==
  /\ input.kind = "audio" /\ Candle /\ pc \in {"scatter", "layers", "done"} =>
       \A r \in DOMAIN rows : rows[r].from = FramesHeard(r)
  /\ pc = "layers" => \A q \in DOMAIN seen : seen[q] = TokensMixed(q, Len(seen))

LEMMA InvReach ==
  ASSUME Inv
  PROVE  TokensReach
<1>1. ASSUME pc = "layers"
      PROVE  \A q \in DOMAIN seen : seen[q] = TokensMixed(q, Len(seen))
  <2>1. PICK n \in Nat : n = Len(embeds) /\ seen = [q \in 1 .. n |-> TokensMixed(q, n)]
    BY <1>1 DEF Inv, WindowsMixed
  <2>2. Len(seen) = n
    <3>1. PICK S : S = {seen[q] : q \in 1 .. n}
      OBVIOUS
    <3>2. seen \in [1 .. n -> S]
      <4>1. DOMAIN seen = 1 .. n /\ seen = [q \in 1 .. n |-> seen[q]]
        BY <2>1
      <4> QED BY <3>1, <4>1
    <3> QED BY <3>2, FunctionSeq
  <2> QED BY <2>1, <2>2
<1> QED BY <1>1 DEF Inv, RowsHeard, TokensReach

(* A soft token of a clip depends on exactly the frames that the two       *)
(* convolutions over time and the layers' attention and convolutions reach *)
(* back to, none invalid, none later; and a token of the text tower on     *)
(* exactly the windows of the layers so far: AudioModel::forward and       *)
(* TextModel::forward, for every length, chunk, context, kernel, window    *)
(* and list of layers, on the CPU and on a GPU.                            *)
THEOREM TokensReachExactly == Spec => []TokensReach
<1>1. Inv => TokensReach
  BY InvReach
<1> QED BY <1>1, Invariance, PTL

(* Where the context of a block is twice its past, as in the checkpoint,   *)
(* the relative position that scores a pair is also that of its distance,  *)
(* by the shift of Attention::forward and by the indices of                *)
(* AttentionLayout::relative_shift.                                        *)
THEOREM ReachHolds ==
  ASSUME Balanced
  PROVE  Spec => []Reach
<1>1. Inv => Reach
  <2>1. ASSUME Inv PROVE Reach
    BY <2>1, InvReach DEF Inv, TokensReach, DistancesTrue, Reach
  <2> QED BY <2>1
<1> QED BY <1>1, Invariance, PTL

-------------------------------------------------------------------------------
(* What a call of pictures decodes to.                                     *)

Agreements == Assumptions /\ AgreementAssumption /\ DescriptionAssumption

Budget == IF input.kind \in {"image", "jpeg"} THEN ImageTokens ELSE VideoBudget

(* n pictures, all as p.                                                   *)
Album(pictures, n, p, tw, th) ==
  /\ n \in 1 .. MaxSampled /\ tw \in Nat \ {0} /\ th \in Nat \ {0}
  /\ input.width \in Nat \ {0} /\ input.height \in Nat \ {0}
  /\ pictures = [i \in 1 .. n |-> p]
  /\ Grid(p, input.width, input.height, Budget, tw, th)

(* An album of as many pictures as the call is for.                        *)
Taken(pictures, n, p, tw, th) ==
  /\ Album(pictures, n, p, tw, th)
  /\ IF input.kind \in {"image", "jpeg"} THEN n = 1 ELSE Asked \in Nat /\ n <= Min({Asked, MaxSampled})

LEMMA AllowedIs ==
  /\ input.kind = "texts" => (InputFits <=> TextsAllowed)
  /\ input.kind \in {"image", "jpeg"} => (InputFits <=> PictureAllowed)
  /\ input.kind = "audio" => (InputFits <=> ClipAllowed)
  /\ input.kind \notin {"texts", "audio", "image", "jpeg"} => (InputFits <=> VideoAllowed)
<1>1. CASE input.kind = "texts"
  BY <1>1 DEF InputFits
<1>2. CASE input.kind \in {"image", "jpeg"}
  BY <1>2 DEF InputFits
<1>3. CASE input.kind = "audio"
  BY <1>3 DEF InputFits
<1>4. CASE input.kind \notin {"texts", "audio", "image", "jpeg"}
  BY <1>4 DEF InputFits
<1> QED BY <1>1, <1>2, <1>3, <1>4

LEMMA BudgetIs ==
  ASSUME Agreements
  PROVE  /\ Budget \in Nat \ {0} /\ Budget * Pool <= TableSize /\ TableSize \in Nat
         /\ ImageTokens \in Nat \ {0} /\ VideoBudget \in Nat \ {0}
<1>1. \A soft \in {ImageTokens, VideoTokens, DefaultVideo} : soft \in Nat \ {0} /\ soft * Pool <= TableSize
  <2>1. \A soft \in {ImageTokens, VideoTokens, DefaultVideo} : soft > 0 /\ soft * Pool <= TableSize
    BY Zenon DEF Agreements, AgreementAssumption
  <2>2. {ImageTokens, VideoTokens, DefaultVideo} \subseteq Nat
    BY DEF Agreements, Assumptions, EmbeddingAssumption
  <2> QED BY <2>1, <2>2
<1>2. TableSize \in Nat
  BY DEF Agreements, Assumptions, EmbeddingAssumption
<1> QED BY <1>1, <1>2 DEF Budget, VideoBudget

LEMMA PicturesGrid ==
  ASSUME ImageAssumption, NEW w \in Nat, NEW h \in Nat, NEW most \in Nat, NEW budget \in Nat \ {0}
  PROVE  /\ w * h \in 1 .. most => Pictures(w, h, most, budget) # {}
         /\ \A p \in Pictures(w, h, most, budget) :
              /\ w \in Nat \ {0} /\ h \in Nat \ {0}
              /\ \E tw, th \in Nat \ {0} : Grid(p, w, h, budget, tw, th)
<1>1. CASE w * h \in 1 .. most
  <2>1. w \in Nat \ {0} /\ h \in Nat \ {0}
    BY <1>1, NoneEmpty
  <2>2. Preprocess(h, w, budget) # {}
    BY <2>1, PreprocessSome
  <2>3. \A p \in Preprocess(h, w, budget) : \E tw, th \in Nat \ {0} : Grid(p, w, h, budget, tw, th)
    BY <2>1, PreprocessGrid
  <2>4. Pictures(w, h, most, budget) = Preprocess(h, w, budget)
    BY <1>1 DEF Pictures
  <2> QED BY <2>1, <2>2, <2>3, <2>4
<1>2. CASE w * h \notin 1 .. most
  <2>1. Pictures(w, h, most, budget) = {}
    BY <1>2 DEF Pictures
  <2> QED BY <1>2, <2>1
<1> QED BY <1>1, <1>2

LEMMA ImageAlbum ==
  ASSUME Agreements, input \in Inputs, input.kind \in {"image", "jpeg"}
  PROVE  /\ InputFits => Decodings # {}
         /\ \A m \in Decodings :
              /\ \E p, tw, th : Album(m.pictures, 1, p, tw, th)
              /\ m.shown = m.indices /\ m.samples = <<>>
<1>1. Decodings = DecodeImage
  BY Zenon DEF Decodings
<1>2. input.width \in Nat /\ input.height \in Nat
  BY DEF Agreements, Assumptions, EmbeddingAssumption, Legal
<1>3. ImageAssumption /\ MaxPixels \in Nat /\ 1 \in 1 .. MaxSampled
  BY DEF Agreements, Assumptions, ImageAssumption
<1>4. PICK S : S = Pictures(input.width, input.height, MaxPixels, ImageTokens)
  OBVIOUS
<1>5. /\ input.width * input.height \in 1 .. MaxPixels => S # {}
      /\ \A p \in S :
           /\ input.width \in Nat \ {0} /\ input.height \in Nat \ {0}
           /\ \E tw, th \in Nat \ {0} : Grid(p, input.width, input.height, ImageTokens, tw, th)
  BY <1>2, <1>3, <1>4, BudgetIs, PicturesGrid
<1>6. DecodeImage = {[None EXCEPT !.pictures = <<p>>] : p \in S}
  BY <1>4 DEF DecodeImage
<1>7. ASSUME InputFits PROVE Decodings # {}
  <2>1. input.width * input.height \in 1 .. MaxPixels
    BY <1>7, AllowedIs DEF PictureAllowed
  <2> QED BY <1>1, <1>5, <1>6, <2>1
<1>8. ASSUME NEW m \in Decodings
      PROVE  /\ \E p, tw, th : Album(m.pictures, 1, p, tw, th)
             /\ m.shown = m.indices /\ m.samples = <<>>
  <2>1. PICK p \in S : m = [None EXCEPT !.pictures = <<p>>]
    BY <1>1, <1>6
  <2>2. m.pictures = <<p>> /\ m.shown = m.indices /\ m.samples = <<>>
    BY <2>1 DEF None
  <2>3. <<p>> = [i \in 1 .. 1 |-> p]
    OBVIOUS
  <2>4. Budget = ImageTokens
    BY DEF Budget
  <2>5. PICK tw, th \in Nat \ {0} : Grid(p, input.width, input.height, ImageTokens, tw, th)
    BY <1>5
  <2>6. Album(m.pictures, 1, p, tw, th)
    BY <1>3, <1>5, <2>1, <2>2, <2>3, <2>4, <2>5 DEF Album
  <2> QED BY <2>2, <2>6
<1> QED BY <1>7, <1>8

LEMMA VideoAlbum ==
  ASSUME Agreements, input \in Inputs, input.kind \in {"container", "frames"},
         NEW s, NEW n, InOrder(s, n), n \in 1 .. MaxSampled, NEW p \in Shots, NEW shown, shown = s
  PROVE  LET m == Video(s, p, shown)
         IN /\ \E tw, th : Album(m.pictures, n, p, tw, th)
            /\ m.shown = m.indices /\ m.samples = <<>>
<1>1. input.width \in Nat /\ input.height \in Nat
  BY DEF Agreements, Assumptions, EmbeddingAssumption, Legal
<1>2. ImageAssumption /\ FramePixels \in Nat
  BY DEF Agreements, Assumptions, ImageAssumption
<1>3. PICK tw, th \in Nat \ {0} :
        /\ input.width \in Nat \ {0} /\ input.height \in Nat \ {0}
        /\ Grid(p, input.width, input.height, VideoBudget, tw, th)
  BY <1>1, <1>2, BudgetIs, PicturesGrid DEF Shots
<1>4. DOMAIN s = 1 .. n
  BY DEF InOrder
<1>5. PICK m : m = Video(s, p, shown)
  OBVIOUS
<1>6. m.pictures = [i \in 1 .. n |-> p] /\ m.shown = m.indices /\ m.samples = <<>>
  BY <1>4, <1>5 DEF Video, None
<1>7. Budget = VideoBudget
  BY DEF Budget
<1>8. Album(m.pictures, n, p, tw, th)
  BY <1>3, <1>6, <1>7 DEF Album
<1> QED BY <1>5, <1>6, <1>8

LEMMA SizeAsked ==
  ASSUME Agreements, NEW total, NEW num, NEW seconds, NEW asked \in Nat,
         SampleSize(total, num, seconds) \in 1 .. MaxSampled,
         SampleCount(total, num, seconds) \in Nat, SampleCount(total, num, seconds) <= asked
  PROVE  SampleSize(total, num, seconds) <= Min({asked, MaxSampled})
<1>1. MaxSampled \in Nat
  BY DEF Agreements, Assumptions, ImageAssumption
<1>2. PICK c : c = SampleCount(total, num, seconds)
  OBVIOUS
<1>3. Min({c, MaxSampled}) = IF c <= MaxSampled THEN c ELSE MaxSampled
  BY <1>1, <1>2, MinOfTwo
<1>4. Min({asked, MaxSampled}) = IF asked <= MaxSampled THEN asked ELSE MaxSampled
  BY <1>1, MinOfTwo
<1> QED BY <1>1, <1>2, <1>3, <1>4 DEF SampleSize

(* What sample_frames chooses of valid metadata: frames in order, at most  *)
(* as many as there are whole seconds, or frames without timing.           *)
AskedOf(m) == IF Timed(m.known) THEN Max({1, m.span \div m.unit}) ELSE m.total

TakenFrom(s, m) ==
  \E n \in 1 .. MaxSampled : InOrder(s, n) /\ AskedOf(m) \in Nat /\ n <= Min({AskedOf(m), MaxSampled})

LEMMA SampledAsked ==
  ASSUME Agreements, NEW m, NEW total \in Nat \ {0}, NEW num \in Nat, NEW den \in Nat \ {0}, NEW seconds \in Nat,
         NEW asked \in Nat, asked = AskedOf(m), SampleCount(total, num, seconds) <= asked
  PROVE  /\ SampledFrames(total, num, den, seconds) # {}
         /\ \A s \in SampledFrames(total, num, den, seconds) : TakenFrom(s, m)
<1>1. ImageAssumption
  BY DEF Agreements, Assumptions
<1>2. PICK n : n = SampleSize(total, num, seconds)
  OBVIOUS
<1>3. n \in 1 .. MaxSampled
  BY <1>1, <1>2, SampleSizeIs
<1>4. SampleCount(total, num, seconds) \in Nat
  BY MaxOfTwo DEF SampleCount
<1>5. n <= Min({asked, MaxSampled})
  BY <1>2, <1>3, <1>4, SizeAsked
<1>6. /\ SampledFrames(total, num, den, seconds) # {}
      /\ \A s \in SampledFrames(total, num, den, seconds) : InOrder(s, n)
  BY <1>1, <1>2, SamplesInOrder
<1> QED BY <1>3, <1>5, <1>6 DEF TakenFrom

LEMMA SampleFramesChosen ==
  ASSUME Agreements, NEW m, Metadata(m)
  PROVE  /\ Validate(m) => SampleFrames(m) # {}
         /\ \A s \in SampleFrames(m) : TakenFrom(s, m)
<1>1. CASE ~Validate(m)
  BY <1>1 DEF SampleFrames
<1>2. CASE Validate(m) /\ Timed(m.known)
  <2>1. /\ m.total \in Nat \ {0} /\ m.num \in Nat \ {0} /\ m.den \in Nat \ {0}
        /\ m.span \in Nat \ {0} /\ m.unit \in Nat \ {0}
    BY <1>2, ValidIs
  <2>2. PICK D, q : D = Truncated(m.span, m.unit, m.rounded) /\ q = m.span \div m.unit
    OBVIOUS
  <2>3. q \in Nat
    BY <2>1, <2>2, Division
  <2>4. D # {} /\ \A d \in D : d \in Nat /\ d <= q
    <3>1. Max({0, q - 1}) \in Nat /\ Max({0, q - 1}) <= q
      BY <2>3, MaxOfTwo
    <3>2. q \in D /\ D \subseteq {q, Max({0, q - 1})}
      BY <2>2 DEF Truncated
    <3> QED BY <2>3, <3>1, <3>2
  <2>5. AskedOf(m) = Max({1, q}) /\ Max({1, q}) \in Nat
    BY <1>2, <2>2, <2>3, MaxOfTwo DEF AskedOf
  <2>6. ASSUME NEW d \in D
        PROVE  /\ SampledFrames(m.total, m.num, m.den, d) # {}
               /\ \A s \in SampledFrames(m.total, m.num, m.den, d) : TakenFrom(s, m)
    <3>1. d \in Nat /\ d <= q
      BY <2>4
    <3>2. SampleCount(m.total, m.num, d) = Max({1, d})
      BY <2>1 DEF SampleCount
    <3>3. Max({1, d}) <= Max({1, q})
      BY <2>3, <3>1, MaxOfTwo
    <3> QED BY <2>1, <2>5, <3>1, <3>2, <3>3, SampledAsked
  <2>7. SampleFrames(m) = UNION {SampledFrames(m.total, m.num, m.den, d) : d \in D}
    BY <1>2, <2>2 DEF SampleFrames
  <2> QED BY <2>4, <2>6, <2>7
<1>3. CASE Validate(m) /\ ~Timed(m.known)
  <2>1. m.total \in Nat \ {0}
    BY <1>3, ValidIs
  <2>2. AskedOf(m) = m.total
    BY <1>3 DEF AskedOf
  <2>3. SampleCount(m.total, 0, 0) = m.total
    BY DEF SampleCount
  <2>4. SampleFrames(m) = SampledFrames(m.total, 0, 1, 0)
    BY <1>3 DEF SampleFrames
  <2>5. m.total <= m.total
    BY <2>1
  <2> QED BY <2>1, <2>2, <2>3, <2>4, <2>5, SampledAsked
<1> QED BY <1>1, <1>2, <1>3

(* What is asked of an input is within what the code admits.               *)
LEMMA BoundedWithin ==
  ASSUME NEW a \in Int, NEW b \in Int, NEW limit \in Nat, NEW above,
         0 < a, 0 < b, a <= limit * b, a = limit * b => ~above
  PROVE  Within(a, b, limit, above)
<1>1. PICK c : c = limit * b
  OBVIOUS
<1>2. c \in Int
  BY <1>1
<1>3. a <= c
  BY <1>1
<1>4. a < c \/ a = c
  BY <1>2, <1>3
<1> QED BY <1>1, <1>4 DEF Within

(* The frames of a video are those of its metadata.                        *)
LEMMA VideoIs ==
  ASSUME Agreements, input \in Inputs, input.kind \in {"container", "frames"}
  PROVE  /\ input.width \in Nat /\ input.height \in Nat /\ FramePixels \in Nat
         /\ Metadata(Counted) /\ Metadata(Given)
         /\ {MaxSource, MaxRate, MaxSeconds} \subseteq Nat \ {0}
         /\ ImageAssumption /\ VideoBudget \in Nat \ {0}
<1>1. Legal(input)
  BY DEF Agreements, Assumptions, EmbeddingAssumption
<1>2. ImageAssumption
  BY DEF Agreements, Assumptions
<1>3. Metadata(Counted) /\ Metadata(Given)
  BY <1>1, MetadataAre
<1>4. input.width \in Nat /\ input.height \in Nat
  BY <1>1 DEF Legal
<1>5. FramePixels \in Nat /\ {MaxSource, MaxRate, MaxSeconds} \subseteq Nat \ {0}
  BY <1>2 DEF ImageAssumption
<1> QED BY <1>2, <1>3, <1>4, <1>5, BudgetIs

LEMMA ContainerSampled ==
  ASSUME Agreements, input \in Inputs, input.kind = "container", VideoAllowed
  PROVE  Sampling # {}
<1>1. PICK total, declared, num, den, span, unit :
        /\ total = input.total /\ declared = input.declared /\ num = input.num
        /\ den = input.den /\ span = input.span /\ unit = input.unit
  OBVIOUS
<1>2. total \in Nat /\ declared \in Nat /\ den \in Nat /\ unit \in Nat /\ num \in Int /\ span \in Int
  BY <1>1 DEF Agreements, Assumptions, EmbeddingAssumption, Legal
<1>3. {MaxSource, MaxRate, MaxSeconds} \subseteq Nat \ {0}
  BY VideoIs
<1>4. ContainerAllowed /\ input.width * input.height \in 1 .. FramePixels
  BY DEF VideoAllowed
<1>5. Within(num, den, MaxRate, FALSE)
  <2>1. 0 < den /\ 0 < num /\ num <= MaxRate * den
    BY <1>1, <1>4 DEF ContainerAllowed, Bounded
  <2>2. PICK c : c = MaxRate * den
    OBVIOUS
  <2>3. c \in Int /\ num <= c
    BY <1>2, <1>3, <2>1, <2>2
  <2>4. num < c \/ num = c
    BY <1>2, <2>3
  <2> QED BY <2>1, <2>2, <2>4 DEF Within
<1>6. ASSUME NEW above, above <=> FALSE PROVE Within(span, unit, MaxSeconds, above)
  <2>1. 0 < unit /\ 0 < span /\ span <= MaxSeconds * unit
    BY <1>1, <1>4 DEF ContainerAllowed, Bounded
  <2> QED BY <1>2, <1>3, <1>6, <2>1, BoundedWithin
<1>7. Within(span * num, unit * den, MaxSource + 1, (Rounded(unit) \/ Rounded(den)) /\ input.above)
  <2>1. PICK a, b : a = span * num /\ b = unit * den
    OBVIOUS
  <2>2. a \in Int /\ b \in Int /\ MaxSource + 1 \in Nat
    BY <1>2, <1>3, <2>1
  <2>3. Bounded(a, b, MaxSource + 1, ~Rounded(unit) /\ ~Rounded(den))
    BY <1>1, <1>4, <2>1 DEF ContainerAllowed
  <2>4. /\ 0 < b /\ 0 < a /\ a <= (MaxSource + 1) * b
        /\ a = (MaxSource + 1) * b => ~((Rounded(unit) \/ Rounded(den)) /\ input.above)
    BY <2>3 DEF Bounded
  <2> QED BY <2>1, <2>2, <2>4, BoundedWithin
<1>8. Within(total * den, num, MaxSeconds, Rounded(den) /\ input.above)
  <2>1. PICK a : a = total * den
    OBVIOUS
  <2>2. a \in Int
    BY <1>2, <2>1
  <2>3. Bounded(a, num, MaxSeconds, ~Rounded(den))
    BY <1>1, <1>4, <2>1 DEF ContainerAllowed
  <2>4. /\ 0 < num /\ 0 < a /\ a <= MaxSeconds * num
        /\ a = MaxSeconds * num => ~(Rounded(den) /\ input.above)
    BY <2>3 DEF Bounded
  <2> QED BY <1>2, <1>3, <2>1, <2>2, <2>4, BoundedWithin
<1>9. Validate(Probed)
  <2>1. /\ Probed.total = IF "count" \in input.known THEN declared ELSE 1
        /\ Probed.num = num /\ Probed.den = den /\ Probed.span = span /\ Probed.unit = unit
        /\ Probed.rounded = FALSE
    BY <1>1 DEF Probed
  <2>2. Probed.total \in 1 .. MaxSource
    BY <1>1, <1>3, <1>4, <2>1 DEF ContainerAllowed
  <2>3. (Probed.rounded /\ Probed.above) <=> FALSE
    BY <2>1
  <2>4. Within(Probed.span, Probed.unit, MaxSeconds, Probed.rounded /\ Probed.above)
    BY <1>6, <2>1, <2>3
  <2> QED BY <1>5, <2>1, <2>2, <2>4 DEF Validate
<1>10. Validate(Counted)
  <2>1. /\ Counted.total = total /\ Counted.num = num /\ Counted.den = den
        /\ Counted.span = total * den /\ Counted.unit = num
        /\ Counted.rounded = Rounded(den) /\ Counted.above = input.above
    BY <1>1 DEF Counted
  <2>2. total \in 1 .. MaxSource
    BY <1>1, <1>4 DEF ContainerAllowed
  <2> QED BY <1>5, <1>8, <2>1, <2>2 DEF Validate
<1>11. ParseProbe
  BY <1>1, <1>4, <1>7, <1>9 DEF ParseProbe, ContainerAllowed
<1>12. input.size \in 1 .. MaxBytes /\ input.alike
  BY <1>4 DEF ContainerAllowed
<1>13. Sampling = SampleFrames(Counted)
  BY <1>11, <1>12 DEF Sampling
<1>14. Metadata(Counted)
  BY VideoIs
<1> QED BY <1>10, <1>13, <1>14, SampleFramesChosen

LEMMA FramesSampled ==
  ASSUME Agreements, input \in Inputs, input.kind = "frames", VideoAllowed
  PROVE  Choosing # {}
<1>1. PICK total, num, den, span, unit :
        /\ total = input.total /\ num = input.num
        /\ den = input.den /\ span = input.span /\ unit = input.unit
  OBVIOUS
<1>2. total \in Nat /\ den \in Nat /\ unit \in Nat /\ num \in Int /\ span \in Int
  BY <1>1 DEF Agreements, Assumptions, EmbeddingAssumption, Legal
<1>3. {MaxSource, MaxRate, MaxSeconds} \subseteq Nat \ {0}
  BY VideoIs
<1>4. FramesAllowed
  BY DEF VideoAllowed
<1>5. "rate" \in input.known => Within(num, den, MaxRate, FALSE)
  <2>1. ASSUME "rate" \in input.known PROVE Within(num, den, MaxRate, FALSE)
    <3>1. 0 < den /\ 0 < num /\ num <= MaxRate * den
      BY <1>1, <1>4, <2>1 DEF FramesAllowed, Bounded
    <3>2. PICK c : c = MaxRate * den
      OBVIOUS
    <3>3. c \in Int /\ num <= c
      BY <1>2, <1>3, <3>1, <3>2
    <3>4. num < c \/ num = c
      BY <1>2, <3>3
    <3> QED BY <3>1, <3>2, <3>4 DEF Within
  <2> QED BY <2>1
<1>6. ASSUME NEW above, above <=> FALSE, "duration" \in input.known
      PROVE  Within(span, unit, MaxSeconds, above)
  <2>1. 0 < unit /\ 0 < span /\ span <= MaxSeconds * unit
    BY <1>1, <1>4, <1>6 DEF FramesAllowed, Bounded
  <2> QED BY <1>2, <1>3, <1>6, <2>1, BoundedWithin
<1>7. Validate(Given)
  <2>1. /\ Given.total = input.declared /\ Given.known = input.known
        /\ Given.num = num /\ Given.den = den /\ Given.span = span /\ Given.unit = unit
        /\ Given.rounded = FALSE
    BY <1>1 DEF Given
  <2>2. Given.total \in 1 .. MaxSource
    BY <1>4, <2>1 DEF FramesAllowed
  <2>3. (Given.rounded /\ Given.above) <=> FALSE
    BY <2>1
  <2>4. "duration" \in Given.known => Within(Given.span, Given.unit, MaxSeconds, Given.rounded /\ Given.above)
    BY <1>6, <2>1, <2>3
  <2> QED BY <1>5, <2>1, <2>2, <2>4 DEF Validate
<1>8. Choosing = SampleFrames(Given)
  BY <1>4 DEF Choosing, FramesAllowed
<1>9. Metadata(Given)
  BY VideoIs
<1> QED BY <1>7, <1>8, <1>9, SampleFramesChosen

(* A video decodes to an album of as many pictures as are asked, or fewer. *)
LEMMA ContainerAlbum ==
  ASSUME Agreements, input \in Inputs, input.kind = "container"
  PROVE  /\ InputFits => Decodings # {}
         /\ \A m \in Decodings :
              /\ \E n, p, tw, th : Taken(m.pictures, n, p, tw, th)
              /\ m.shown = m.indices /\ m.samples = <<>>
<1>1. Decodings = DecodeContainer
  BY Zenon DEF Decodings
<1>2. DecodeContainer = {Video(s, p, SelectedFrames(s)) : s \in Sampling, p \in Shots}
  BY DEF DecodeContainer
<1>3. ASSUME InputFits PROVE Decodings # {}
  <2>1. VideoAllowed
    BY <1>3, AllowedIs
  <2>2. Shots # {}
    BY <2>1, VideoIs, PicturesGrid DEF Shots, VideoAllowed
  <2>3. Sampling # {}
    BY <2>1, ContainerSampled
  <2> QED BY <1>1, <1>2, <2>2, <2>3
<1>4. ASSUME NEW m \in Decodings
      PROVE  /\ \E n, p, tw, th : Taken(m.pictures, n, p, tw, th)
             /\ m.shown = m.indices /\ m.samples = <<>>
  <2>1. PICK s \in Sampling, p \in Shots : m = Video(s, p, SelectedFrames(s))
    BY <1>1, <1>2
  <2>2. s \in SampleFrames(Counted)
    BY DEF Sampling
  <2>3. TakenFrom(s, Counted)
    BY <2>2, VideoIs, SampleFramesChosen
  <2>4. AskedOf(Counted) = Asked
    BY Zenon DEF AskedOf, Asked, Counted, Timed
  <2>5. PICK n \in 1 .. MaxSampled : InOrder(s, n) /\ Asked \in Nat /\ n <= Min({Asked, MaxSampled})
    BY <2>3, <2>4, Zenon DEF TakenFrom
  <2>6. SelectedFrames(s) = s
    BY <2>5, SelectedFramesAre
  <2>7. /\ \E tw, th : Album(m.pictures, n, p, tw, th)
        /\ m.shown = m.indices /\ m.samples = <<>>
    BY <2>1, <2>5, <2>6, VideoAlbum
  <2> QED BY <2>5, <2>7 DEF Taken
<1> QED BY <1>3, <1>4

LEMMA FramesAlbum ==
  ASSUME Agreements, input \in Inputs, input.kind = "frames"
  PROVE  /\ InputFits => Decodings # {}
         /\ \A m \in Decodings :
              /\ \E n, p, tw, th : Taken(m.pictures, n, p, tw, th)
              /\ m.shown = m.indices /\ m.samples = <<>>
<1>1. Decodings = PreprocessDecoded
  BY Zenon DEF Decodings
<1>2. PreprocessDecoded = {Video(s, p, s) : s \in Choosing, p \in Shots}
  BY DEF PreprocessDecoded
<1>3. ASSUME InputFits PROVE Decodings # {}
  <2>1. VideoAllowed
    BY <1>3, AllowedIs
  <2>2. Shots # {}
    BY <2>1, VideoIs, PicturesGrid DEF Shots, VideoAllowed
  <2>3. PICK s, p : s \in Choosing /\ p \in Shots
    BY <2>1, <2>2, FramesSampled
  <2>4. Video(s, p, s) \in PreprocessDecoded
    BY <1>2, <2>3
  <2> QED BY <1>1, <2>4
<1>4. ASSUME NEW m \in Decodings
      PROVE  /\ \E n, p, tw, th : Taken(m.pictures, n, p, tw, th)
             /\ m.shown = m.indices /\ m.samples = <<>>
  <2>1. PICK s \in Choosing, p \in Shots : m = Video(s, p, s)
    BY <1>1, <1>2
  <2>2. s \in SampleFrames(Given) /\ input.total = input.declared
    BY DEF Choosing
  <2>3. TakenFrom(s, Given)
    BY <2>2, VideoIs, SampleFramesChosen
  <2>4. AskedOf(Given) = Asked
    BY <2>2, Zenon DEF AskedOf, Asked, Given
  <2>5. PICK n \in 1 .. MaxSampled : InOrder(s, n) /\ Asked \in Nat /\ n <= Min({Asked, MaxSampled})
    BY <2>3, <2>4, Zenon DEF TakenFrom
  <2>6. /\ \E tw, th : Album(m.pictures, n, p, tw, th)
        /\ m.shown = m.indices /\ m.samples = <<>>
    BY <2>1, <2>5, VideoAlbum
  <2> QED BY <2>5, <2>6 DEF Taken
<1> QED BY <1>3, <1>4

LEMMA KindsAre ==
  ASSUME Agreements, input \in Inputs
  PROVE  input.kind \in {"texts", "image", "jpeg", "container", "frames", "audio"}
BY DEF Agreements, Assumptions, EmbeddingAssumption, Legal

LEMMA PicturesDecoded ==
  ASSUME Agreements, input \in Inputs, input.kind \notin {"texts", "audio"}
  PROVE  /\ InputFits => Decodings # {}
         /\ \A m \in Decodings :
              /\ \E n, p, tw, th : Taken(m.pictures, n, p, tw, th)
              /\ m.shown = m.indices /\ m.samples = <<>>
<1>1. CASE input.kind \in {"image", "jpeg"}
  <2>1. ASSUME NEW m \in Decodings
        PROVE  /\ \E n, p, tw, th : Taken(m.pictures, n, p, tw, th)
               /\ m.shown = m.indices /\ m.samples = <<>>
    <3>1. m.shown = m.indices /\ m.samples = <<>>
      BY <1>1, ImageAlbum
    <3>2. PICK p, tw, th : Album(m.pictures, 1, p, tw, th)
      BY <1>1, ImageAlbum
    <3>3. Taken(m.pictures, 1, p, tw, th)
      BY <1>1, <3>2 DEF Taken
    <3> QED BY <3>1, <3>3
  <2>2. InputFits => Decodings # {}
    BY <1>1, ImageAlbum
  <2> QED BY <2>1, <2>2
<1>2. CASE input.kind = "container"
  BY <1>2, ContainerAlbum
<1>3. CASE input.kind = "frames"
  BY <1>3, FramesAlbum
<1> QED BY <1>1, <1>2, <1>3, KindsAre

LEMMA AlbumIs ==
  ASSUME Agreements, NEW pictures, NEW n, NEW p, NEW tw, NEW th, Album(pictures, n, p, tw, th)
  PROVE  /\ n \in Nat \ {0} /\ n <= MaxSampled /\ MaxSampled \in Nat \ {0}
         /\ tw \in Nat \ {0} /\ th \in Nat \ {0}
         /\ DOMAIN pictures = 1 .. n /\ Len(pictures) = n /\ Max({1, Len(pictures)}) = n
         /\ \A i \in 1 .. n : pictures[i] = p
         /\ p.soft \in Nat \ {0} /\ p.soft <= Budget /\ p.soft = th * tw
         /\ Tiled(p.patches, tw, th, MaxPatches(Budget))
<1>1. MaxSampled \in Nat \ {0} /\ n \in Nat \ {0} /\ n <= MaxSampled
  BY DEF Agreements, Assumptions, ImageAssumption, Album
<1>2. pictures = [i \in 1 .. n |-> p]
  BY DEF Album
<1>3. DOMAIN pictures = 1 .. n /\ Len(pictures) = n /\ \A i \in 1 .. n : pictures[i] = p
  BY <1>1, <1>2
<1>4. Max({1, n}) = n
  BY <1>1, MaxOfTwo
<1>5. tw \in Nat \ {0} /\ th \in Nat \ {0} /\ tw * th <= Budget /\ p.soft = th * tw
      /\ Tiled(p.patches, tw, th, MaxPatches(Budget))
  BY DEF Album, Grid
<1>6. th * tw = tw * th /\ th * tw \in Nat \ {0}
  BY <1>5
<1> QED BY <1>1, <1>3, <1>4, <1>5, <1>6

LEMMA LimitIs ==
  ASSUME Agreements
  PROVE  Limit \in Nat /\ CoremlTokens \in Nat /\ CoremlTokens <= Limit /\ Limit <= MaxTokens /\ MaxTokens \in Nat
<1>1. CoremlTokens \in Nat /\ MaxTokens \in Nat /\ CoremlTokens <= MaxTokens
  BY DEF Agreements, Assumptions, EmbeddingAssumption
<1> QED BY <1>1 DEF Limit

(* The tokens of what is asked fit, and so do those of what is taken.      *)
LEMMA AlbumTokens ==
  ASSUME Agreements, input \in Inputs, input.kind \notin {"texts", "audio"}, InputFits,
         NEW pictures, NEW n, NEW p, NEW tw, NEW th, Taken(pictures, n, p, tw, th)
  PROVE  Len(MediaIds(p.soft, n)) <= Limit
<1>1. Album(pictures, n, p, tw, th)
  BY DEF Taken
<1>2. n \in Nat \ {0} /\ MaxSampled \in Nat \ {0} /\ p.soft \in Nat \ {0} /\ p.soft <= Budget /\ Budget \in Nat
  BY <1>1, AlbumIs, BudgetIs
<1>3. Len(MediaIds(p.soft, n)) = n * (p.soft + 2) + 2
  BY <1>2, MediaIdsAre
<1>4. CASE input.kind \in {"image", "jpeg"}
  <2>1. n = 1 /\ Budget = ImageTokens
    BY <1>4 DEF Taken, Budget
  <2>2. ImageTokens + 4 <= CoremlTokens
    <3>1. ImageTokens \in 0 .. CoremlTokens - 4 /\ CoremlTokens \in Nat
      BY LimitIs DEF Agreements, AgreementAssumption
    <3> QED BY <3>1
  <2> QED BY <1>2, <1>3, <2>1, <2>2, LimitIs
<1>5. CASE input.kind \notin {"image", "jpeg"}
  <2>1. PICK k : k = Min({Asked, MaxSampled})
    OBVIOUS
  <2>2. Asked \in Nat /\ n <= k /\ k \in Nat \ {0}
    <3>1. Asked \in Nat /\ n <= k
      BY <1>5, <2>1, Zenon DEF Taken
    <3>2. k \in Nat
      BY <1>2, <2>1, <3>1, MinOfTwo
    <3> QED BY <1>2, <3>1, <3>2
  <2>3. Budget = VideoBudget
    BY <1>5 DEF Budget
  <2>4. Len(MediaIds(VideoBudget, k)) <= Limit
    <3>1. input.kind # "texts" /\ input.kind # "audio"
      OBVIOUS
    <3>2. Len(MediaIds(VideoBudget, Min({Asked, MaxSampled}))) <= Limit
      BY <1>5, <3>1, AllowedIs DEF VideoAllowed
    <3> QED BY <2>1, <3>2
  <2>5. Len(MediaIds(VideoBudget, k)) = k * (Budget + 2) + 2
    BY <1>2, <2>2, <2>3, MediaIdsAre
  <2>6. n * (p.soft + 2) <= k * (Budget + 2)
    <3>1. PICK a, b : a = p.soft + 2 /\ b = Budget + 2
      OBVIOUS
    <3>2. a \in Nat /\ b \in Nat /\ a <= b
      BY <1>2, <3>1
    <3>3. n * a <= n * b /\ n * b <= k * b
      BY <1>2, <2>2, <3>2
    <3>4. n * a \in Nat /\ n * b \in Nat /\ k * b \in Nat
      BY <1>2, <2>2, <3>2
    <3>5. n * a <= k * b
      BY <3>3, <3>4
    <3> QED BY <3>1, <3>5
  <2>7. n * (p.soft + 2) \in Nat /\ k * (Budget + 2) \in Nat
    BY <1>2, <2>2
  <2> QED BY <1>3, <2>4, <2>5, <2>6, <2>7, LimitIs
<1> QED BY <1>4, <1>5

(* A clip is decoded to the samples of its file, or refused for them.      *)
LEMMA ClipDecoded ==
  ASSUME Agreements, input \in Inputs, input.kind = "audio", backend \in Backends
  PROVE  /\ InputFits => Decodings # {}
         /\ \A m \in Decodings :
              /\ m.shown = m.indices /\ m.pictures = <<>>
              /\ m.samples \in {<<>>, input.file.content}
              /\ Len(m.samples) \in Nat /\ m.mask = Features(Len(m.samples)).mask
              /\ ~Candle =>
                   Len(m.samples) \in PadLeft + 1 .. (IF backend = "coreml" THEN CoremlSamples ELSE MaxSamples)
<1>1. Decodings = DecodeClip
  BY Zenon DEF Decodings
<1>2. PICK file : file = input.file
  OBVIOUS
<1>3. LegalFile(file) /\ DOMAIN file.chunks \subseteq Nat /\ Described(file)
  <2>1. Legal(input) /\ Described(file)
    BY <1>2 DEF Agreements, Assumptions, EmbeddingAssumption, DescriptionAssumption
  <2>2. {file.size, file.riff} \cup DOMAIN file.chunks \subseteq Nat
    BY <1>2, <2>1 DEF Legal
  <2>3. \A at \in DOMAIN file.chunks :
          LET chunk == file.chunks[at]
          IN {chunk.len, chunk.fmt.channels, chunk.fmt.rate, chunk.fmt.width, chunk.fmt.align} \subseteq Nat
    BY <1>2, <2>1 DEF Legal
  <2> QED BY <2>1, <2>2, <2>3 DEF LegalFile
<1>4. PICK wav : wav = DecodeWav(file)
  OBVIOUS
<1>5. PICK n, mask : n = Len(wav.samples) /\ mask = Features(n).mask
  OBVIOUS
<1>6. n \in Nat /\ wav.samples \in {<<>>, file.content}
  BY <1>3, <1>4, <1>5, DecodeWavType, DecodedContent
<1> DEFINE Most == IF backend = "coreml" THEN CoremlSamples ELSE MaxSamples
           Bad  == \/ ~wav.ok \/ wav.rate # 16000
                   \/ Candle /\ ~\E f \in DOMAIN mask : mask[f]
                   \/ ~Candle /\ n \notin PadLeft + 1 .. Most
           clip == [None EXCEPT !.samples = wav.samples, !.mask = mask]
<1>7. DecodeClip = IF Bad THEN {} ELSE {clip}
  BY <1>2, <1>4, <1>5 DEF DecodeClip
<1>8. ASSUME InputFits PROVE ~Bad
  <2>1. /\ file.good /\ file.rate = 16000
        /\ Len(file.content) > PadLeft
        /\ backend = "mlx" => Len(file.content) <= MaxSamples
        /\ backend = "coreml" => Len(file.content) <= CoremlSamples
    <3>1. input.kind # "texts" /\ input.kind \notin {"image", "jpeg"}
      OBVIOUS
    <3>2. /\ input.file.good /\ input.file.rate = 16000
          /\ Len(input.file.content) > PadLeft
          /\ backend = "mlx" => Len(input.file.content) <= MaxSamples
          /\ backend = "coreml" => Len(input.file.content) <= CoremlSamples
      BY <1>8, <3>1, AllowedIs DEF ClipAllowed
    <3> QED BY <1>2, <3>2
  <2>2. wav.ok /\ wav.rate = 16000 /\ wav.samples = file.content
    BY <1>3, <1>4, <2>1, GoodDecoded
  <2>3. n > PadLeft /\ (backend = "mlx" => n <= MaxSamples) /\ (backend = "coreml" => n <= CoremlSamples)
    BY <1>5, <2>1, <2>2
  <2>4. SpeechAssumption /\ AgreementAssumption /\ PadLeft \in Nat /\ PadLeft < MaxSamples
        /\ MaxSamples \in Nat /\ CoremlSamples \in Nat
    <3>1. SpeechAssumption /\ AgreementAssumption /\ PadLeft < CoremlSamples /\ CoremlSamples <= MaxSamples
      BY DEF Agreements, Assumptions, EmbeddingAssumption
    <3>2. CoremlSamples \in Nat
      BY <3>1 DEF AgreementAssumption
    <3>3. MaxSamples \in Nat /\ FrameLength \in Nat
      BY <3>1 DEF SpeechAssumption
    <3>4. PadLeft \in Nat
      BY <3>3 DEF PadLeft
    <3> QED BY <3>1, <3>2, <3>3, <3>4
  <2>5. \E f \in DOMAIN mask : mask[f]
    <3>1. Valids(mask) > 0
      BY <1>5, <1>6, <2>3, <2>4, FramesCounted
    <3>2. CASE {f \in DOMAIN mask : mask[f]} = {}
      BY <3>1, <3>2, FS_EmptySet DEF Valids
    <3> QED BY <3>2
  <2>6. ~Candle => n \in PadLeft + 1 .. Most
    <3>1. backend \in {"cpu", "gpu", "coreml", "mlx"}
      BY DEF Agreements, AgreementAssumption
    <3> QED BY <1>6, <2>3, <2>4, <3>1 DEF Candle
  <2> QED BY <2>2, <2>5, <2>6
<1>9. InputFits => Decodings # {}
  <2> HIDE DEF Bad, clip
  <2> QED BY <1>1, <1>7, <1>8
<1>10. clip.shown = clip.indices /\ clip.pictures = <<>> /\ clip.samples = wav.samples /\ clip.mask = mask
  BY DEF None
<1>11. ~Bad => (~Candle => n \in PadLeft + 1 .. Most)
  OBVIOUS
<1>12. ASSUME NEW m \in Decodings PROVE m = clip /\ ~Bad
  <2> HIDE DEF Bad, clip
  <2> QED BY <1>1, <1>7
<1> HIDE DEF Bad, clip, Most
<1>13. ASSUME NEW m \in Decodings
       PROVE  /\ m.shown = m.indices /\ m.pictures = <<>>
              /\ m.samples \in {<<>>, input.file.content}
              /\ Len(m.samples) \in Nat /\ m.mask = Features(Len(m.samples)).mask
              /\ ~Candle => Len(m.samples) \in PadLeft + 1 .. Most
  BY <1>2, <1>5, <1>6, <1>10, <1>11, <1>12
<1> QED BY <1>9, <1>13 DEF Most

-------------------------------------------------------------------------------
(* The tokens of a call, and the rows that stand for its soft ones.        *)

Numbered(rs, k) == k \in Nat /\ DOMAIN rs = 1 .. k /\ Len(rs) = k /\ \A r \in 1 .. k : rs[r].at = r

(* The rows of n pictures as p, one picture after the other.               *)
AlbumRows(rs, n, p, tw, th) ==
  Laid(rs, [f \in 1 .. n |-> PictureRows(f, Pooled(p.patches, tw, th))], n, p.soft)

Prompted(tokens, rs) ==
  /\ input.kind = "texts" => Placeholders(tokens) = {} /\ rs = <<>>
  /\ input.kind = "audio" => \E k : Numbered(rs, k) /\ tokens = MediaIds(k, 1)
  /\ input.kind \notin {"texts", "audio"} =>
       \E n, p, tw, th : /\ Album(media.pictures, n, p, tw, th) /\ tokens = MediaIds(p.soft, n)
                         /\ AlbumRows(rs, n, p, tw, th)

(* Each soft token has a row.                                              *)
LEMMA PromptedCounts ==
  ASSUME Agreements, NEW tokens, NEW rs, Prompted(tokens, rs)
  PROVE  Cardinality(Placeholders(tokens)) = Len(rs)
<1>1. CASE input.kind = "texts"
  <2>1. Placeholders(tokens) = {} /\ rs = <<>>
    BY <1>1 DEF Prompted
  <2> QED BY <2>1, FS_EmptySet
<1>2. CASE input.kind = "audio"
  <2>1. PICK k : Numbered(rs, k) /\ tokens = MediaIds(k, 1)
    BY <1>2 DEF Prompted
  <2>2. k \in Nat /\ Len(rs) = k
    BY <2>1 DEF Numbered
  <2>3. Cardinality(Placeholders(tokens)) = 1 * k
    BY <2>1, <2>2, MediaIdsAre
  <2> QED BY <2>2, <2>3
<1>3. CASE input.kind \notin {"texts", "audio"}
  <2>1. PICK n, p, tw, th : /\ Album(media.pictures, n, p, tw, th) /\ tokens = MediaIds(p.soft, n)
                            /\ AlbumRows(rs, n, p, tw, th)
    BY <1>3 DEF Prompted
  <2>2. n \in Nat \ {0} /\ p.soft \in Nat
    BY <2>1, AlbumIs
  <2>3. Cardinality(Placeholders(tokens)) = n * p.soft
    BY <2>1, <2>2, MediaIdsAre
  <2> QED BY <2>1, <2>3 DEF AlbumRows, Laid
<1> QED BY <1>1, <1>2, <1>3

LEMMA ValidsBelow ==
  ASSUME SpeechAssumption, NEW n \in Nat
  PROVE  LET mask == Features(n).mask
         IN Masked(mask, Rows(mask), Valids(mask)) /\ Rows(mask) \in Nat /\ Valids(mask) \in 0 .. Rows(mask)
BY FeaturesMasked DEF Masked

(* The clip of a worker has as many rows as its prompt says, and room.     *)
LEMMA ClipRows ==
  ASSUME Agreements, input \in Inputs, input.kind = "audio", backend \in Backends, ~Candle, NEW m \in Decodings
  PROVE  \E k : /\ SoftTokens(m) = k /\ (media = m => Numbered(WorkerRows, k))
                /\ k \in Nat /\ k + 4 <= Limit
<1>1. PICK n : n = Len(m.samples)
  OBVIOUS
<1>2. n \in PadLeft + 1 .. (IF backend = "coreml" THEN CoremlSamples ELSE MaxSamples) /\ n \in Nat
      /\ m.mask = Features(n).mask
  BY <1>1, ClipDecoded
<1>3. SpeechAssumption /\ AgreementAssumption
  BY DEF Agreements, Assumptions
<1>4. backend \in {"coreml", "mlx"}
  BY DEF Agreements, AgreementAssumption, Candle
<1>5. ASSUME NEW k \in Nat
      PROVE  Numbered([r \in 1 .. k |-> [at |-> r, from |-> {}]], k)
  BY DEF Numbered
<1>6. CASE backend = "coreml"
  <2>1. PICK valid, all : valid = (PadLeft + n - (FrameLength + 1)) \div Hop + 1 /\ all = CoremlSamples \div Hop
    OBVIOUS
  <2>2. valid \in Nat \ {0} /\ valid <= all /\ all \in Nat
    BY <1>2, <1>3, <1>6, <2>1, CoremlCounts
  <2>3. CeilDiv(valid, 4) \in Nat /\ CeilDiv(valid, 4) <= CeilDiv(all, 4)
    BY <2>2, CeilDivGrows
  <2>4. CeilDiv(all, 4) \in 0 .. CoremlTokens - 4
    BY <1>3, <2>1 DEF AgreementAssumption
  <2>5. Min({all, valid}) = valid
    BY <2>2, MinOfTwo
  <2>6. SoftTokens(m) = CeilDiv(valid, 4)
    BY <1>1, <1>6, <2>1, Zenon DEF SoftTokens
  <2>7. ASSUME media = m PROVE WorkerRows = [r \in 1 .. CeilDiv(valid, 4) |-> [at |-> r, from |-> {}]]
    <3>1. WorkerRows = [r \in 1 .. CeilDiv(Min({all, valid}), 4) |-> [at |-> r, from |-> {}]]
      BY <1>1, <1>6, <2>1, <2>7 DEF WorkerRows
    <3> QED BY <2>5, <3>1
  <2>8. CeilDiv(valid, 4) + 4 <= Limit
    BY <2>3, <2>4, LimitIs
  <2> QED BY <1>5, <2>3, <2>6, <2>7, <2>8
<1>7. CASE backend = "mlx"
  <2>1. PICK F, V : F = Rows(m.mask) /\ V = Valids(m.mask)
    OBVIOUS
  <2>2. Masked(m.mask, F, V) /\ F \in Nat /\ V \in 0 .. F /\ F \in 0 .. MelFrames /\ MelFrames \in Nat
    BY <1>2, <1>3, <2>1, ValidsBelow, FramesCounted DEF AgreementAssumption
  <2>3. PICK tower : tower = SubsampledMask(SubsampledMask(m.mask))
    OBVIOUS
  <2>4. Masked(tower, Quarter(F), Quarter(V))
    BY <2>2, <2>3, SubsampledMasked DEF Quarter
  <2>5. Valids(tower) = Quarter(V)
    BY <2>4, MaskedCounts
  <2>6. CeilDiv(V, 4) = Quarter(V) /\ CeilDiv(V, 4) \in Nat /\ CeilDiv(V, 4) <= CeilDiv(MelFrames, 4)
    BY <2>2, QuarterCeil, CeilDivGrows
  <2>7. CeilDiv(MelFrames, 4) + 4 <= MaxTokens /\ CeilDiv(MelFrames, 4) \in Nat
    BY <1>3, <2>2, CeilDivGrows DEF AgreementAssumption
  <2>8. SoftTokens(m) = CeilDiv(V, 4)
    BY <1>7, <2>1 DEF SoftTokens, Valids
  <2>9. ASSUME media = m PROVE WorkerRows = [r \in 1 .. Quarter(V) |-> [at |-> r, from |-> {}]]
    <3>1. WorkerRows = [r \in 1 .. Valids(tower) |-> [at |-> r, from |-> {}]]
      BY <1>7, <2>3, <2>9 DEF WorkerRows, Valids
    <3> QED BY <2>5, <3>1
  <2>10. Limit = MaxTokens
    BY <1>7 DEF Limit
  <2>11. CeilDiv(V, 4) + 4 <= Limit
    BY <2>6, <2>7, <2>10, LimitIs
  <2> QED BY <1>5, <2>6, <2>8, <2>9, <2>11
<1> QED BY <1>4, <1>6, <1>7

Row == [at : Nat, from : SUBSET Nat]

LEMMA ShotRows ==
  ASSUME Agreements, NEW pictures, NEW n, NEW p, NEW tw, NEW th, Album(pictures, n, p, tw, th), NEW f \in Nat
  PROVE  /\ PictureRows(f, Pooled(p.patches, tw, th)) \in [1 .. p.soft -> Row]
         /\ \A r \in 1 .. p.soft :
              PictureRows(f, Pooled(p.patches, tw, th))[r] = [at |-> f, from |-> PatchesOf(p.patches, tw, th, r - 1)]
         /\ PooledRows(p.patches) = Pooled(p.patches, tw, th)
         /\ CoremlRows(p.patches) = Pooled(p.patches, tw, th)
<1>1. ImageAssumption
  BY DEF Agreements, Assumptions
<1>2. /\ Tiled(p.patches, tw, th, MaxPatches(Budget))
      /\ p.soft = th * tw /\ p.soft \in Nat
  BY AlbumIs
<1>3. PooledRows(p.patches) = Pooled(p.patches, tw, th) /\ CoremlRows(p.patches) = Pooled(p.patches, tw, th)
  BY <1>1, <1>2, PooledRowsAre, CoremlRowsAre
<1>4. (tw * Pool) * (th * Pool) \in Nat
  BY <1>1, <1>2, TiledPlaces
<1>5. ASSUME NEW b PROVE PatchesOf(p.patches, tw, th, b) \in SUBSET Nat
  <2>1. PICK k : k = (tw * Pool) * (th * Pool)
    OBVIOUS
  <2>2. 1 .. k \subseteq Nat
    BY <1>4, <2>1
  <2> QED BY <2>1, <2>2 DEF PatchesOf
<1>6. Pooled(p.patches, tw, th) = [r \in 1 .. p.soft |-> PatchesOf(p.patches, tw, th, r - 1)]
  BY <1>2 DEF Pooled
<1>7. PictureRows(f, Pooled(p.patches, tw, th))
        = [r \in 1 .. p.soft |-> [at |-> f, from |-> PatchesOf(p.patches, tw, th, r - 1)]]
  BY <1>6 DEF PictureRows
<1> QED BY <1>3, <1>5, <1>7 DEF Row

LEMMA AlbumWorkerRows ==
  ASSUME Agreements, input.kind \notin {"texts", "audio"},
         NEW n, NEW p, NEW tw, NEW th, Album(media.pictures, n, p, tw, th)
  PROVE  AlbumRows(WorkerRows, n, p, tw, th)
<1>1. n \in Nat \ {0} /\ DOMAIN media.pictures = 1 .. n /\ (\A f \in 1 .. n : media.pictures[f] = p) /\ p.soft \in Nat
  <2>1. n \in Nat \ {0} /\ DOMAIN media.pictures = 1 .. n /\ p.soft \in Nat \ {0}
    BY AlbumIs
  <2>2. \A f \in 1 .. n : media.pictures[f] = p
    BY DEF Album
  <2> QED BY <2>1, <2>2
<1>2. PICK seqs : seqs = [f \in 1 .. n |-> PictureRows(f, Pooled(p.patches, tw, th))]
  OBVIOUS
<1>3. seqs \in [1 .. n -> [1 .. p.soft -> Row]]
  BY <1>1, <1>2, ShotRows
<1>4. WorkerRows = FlattenSeq(seqs)
  <2>1. PICK own : own = [f \in DOMAIN media.pictures |->
                           PictureRows(f, IF backend = "coreml" THEN CoremlRows(media.pictures[f].patches)
                                          ELSE PooledRows(media.pictures[f].patches))]
    OBVIOUS
  <2>2. WorkerRows = FlattenSeq(own)
    <3>1. input.kind # "texts" /\ input.kind # "audio"
      OBVIOUS
    <3> QED BY <2>1, <3>1, Zenon DEF WorkerRows
  <2>3. ASSUME NEW f \in 1 .. n PROVE own[f] = seqs[f]
    <3>1. PooledRows(p.patches) = Pooled(p.patches, tw, th) /\ CoremlRows(p.patches) = Pooled(p.patches, tw, th)
      BY <1>1, ShotRows
    <3> QED BY <1>1, <1>2, <2>1, <3>1
  <2>4. own = seqs
    BY <1>1, <1>2, <2>1, <2>3
  <2> QED BY <2>2, <2>4
<1>5. Laid(FlattenSeq(seqs), seqs, n, p.soft)
  BY <1>1, <1>3, FlattenBlocks
<1> QED BY <1>2, <1>4, <1>5 DEF AlbumRows

(* The worker takes any album that the host makes.                         *)
LEMMA AlbumFits ==
  ASSUME Agreements, backend \in Backends, ~Candle, input \in Inputs, input.kind \notin {"texts", "audio"},
         NEW n, NEW p, NEW tw, NEW th, Taken(media.pictures, n, p, tw, th)
  PROVE  /\ Len(media.pictures) \in 1 .. MaxSampled
         /\ \A q \in ToSet(media.pictures) :
              /\ Len(q.patches) \in {MaxPatches(VideoTokens), MaxPatches(ImageTokens)}
              /\ Len(media.pictures) * Len(q.patches) <= MaxSampled * MaxPatches(VideoTokens)
              /\ backend = "coreml" => CoremlVisionFits(q.patches, q.soft, TableSize)
              /\ backend = "mlx" => PoolFits(q.patches, TableSize)
<1>1. Album(media.pictures, n, p, tw, th)
  BY DEF Taken
<1>2. /\ n \in Nat \ {0} /\ n <= MaxSampled /\ MaxSampled \in Nat
      /\ tw \in Nat \ {0} /\ th \in Nat \ {0}
      /\ Len(media.pictures) = n /\ DOMAIN media.pictures = 1 .. n /\ \A i \in 1 .. n : media.pictures[i] = p
      /\ p.soft <= Budget /\ p.soft = th * tw
      /\ Tiled(p.patches, tw, th, MaxPatches(Budget))
  <2>1. n \in Nat \ {0} /\ n <= MaxSampled /\ MaxSampled \in Nat \ {0} /\ tw \in Nat \ {0} /\ th \in Nat \ {0}
    BY <1>1, AlbumIs
  <2>2. Len(media.pictures) = n /\ DOMAIN media.pictures = 1 .. n /\ \A i \in 1 .. n : media.pictures[i] = p
    <3>1. Len(media.pictures) = n /\ DOMAIN media.pictures = 1 .. n
      BY <1>1, AlbumIs
    <3>2. \A i \in 1 .. n : media.pictures[i] = p
      BY <1>1 DEF Album
    <3> QED BY <3>1, <3>2
  <2>3. p.soft = th * tw
    BY <1>1 DEF Album, Grid
  <2>4. Tiled(p.patches, tw, th, MaxPatches(Budget))
    BY <1>1, AlbumIs
  <2>5. p.soft <= Budget
    BY <1>1, AlbumIs
  <2> QED BY <2>1, <2>2, <2>3, <2>4, <2>5
<1>3. Budget \in Nat /\ Budget * Pool <= TableSize /\ TableSize \in Nat /\ ImageTokens \in Nat
  BY BudgetIs
<1>4. ImageAssumption /\ VideoTokens \in Nat /\ Pool \in Nat /\ ImageTokens <= MaxSampled * VideoTokens
  BY DEF Agreements, Assumptions, ImageAssumption, EmbeddingAssumption, AgreementAssumption
<1>5. ToSet(media.pictures) = {p}
  <2>1. PICK s : s = media.pictures
    OBVIOUS
  <2>2. DOMAIN s = 1 .. n /\ 1 \in 1 .. n /\ \A i \in 1 .. n : s[i] = p
    BY <1>2, <2>1
  <2>3. ToSet(s) = {p}
    BY ONLY <2>2 DEF ToSet
  <2> QED BY <2>1, <2>3
<1>6. Len(p.patches) = MaxPatches(Budget)
  BY <1>2, <1>4, TiledPlaces
<1>7. CoremlVisionFits(p.patches, p.soft, TableSize) /\ PoolFits(p.patches, TableSize)
  <2>1. tw * th <= Budget /\ tw * th = th * tw
    BY <1>2
  <2>2. PoolFits(p.patches, TableSize) /\ CoremlVisionFits(p.patches, tw * th, TableSize)
    BY <1>2, <1>3, <1>4, <2>1, TiledFits
  <2> QED BY <1>2, <2>1, <2>2
<1>8. n * MaxPatches(Budget) <= MaxSampled * MaxPatches(VideoTokens)
      /\ MaxPatches(Budget) \in {MaxPatches(VideoTokens), MaxPatches(ImageTokens)}
  <2>1. PICK s : s = Pool * Pool
    OBVIOUS
  <2>2. s \in Nat
    BY <1>4, <2>1
  <2>3. ASSUME NEW soft \in Nat PROVE MaxPatches(soft) = soft * s /\ soft * s \in Nat
    BY <1>4, <2>1, <2>2 DEF MaxPatches
  <2>4. CASE input.kind \in {"image", "jpeg"}
    <3>1. n = 1 /\ Budget = ImageTokens
      BY <2>4 DEF Taken, Budget
    <3>2. ImageTokens * s <= (MaxSampled * VideoTokens) * s
      <4>1. PICK m : m = MaxSampled * VideoTokens
        OBVIOUS
      <4>2. m \in Nat /\ ImageTokens <= m
        BY <1>2, <1>4, <4>1
      <4> QED BY <1>3, <2>2, <4>1, <4>2
    <3>3. (MaxSampled * VideoTokens) * s = MaxSampled * (VideoTokens * s)
      BY <1>2, <1>4, <2>2
    <3> QED BY <1>3, <1>4, <2>3, <3>1, <3>2, <3>3
  <2>5. CASE input.kind \notin {"image", "jpeg"}
    <3>1. Budget = VideoTokens
      BY <2>5 DEF Budget, VideoBudget
    <3>2. n * (VideoTokens * s) <= MaxSampled * (VideoTokens * s)
      <4>1. PICK m : m = VideoTokens * s
        OBVIOUS
      <4>2. m \in Nat
        BY <1>4, <2>2, <4>1
      <4> QED BY <1>2, <4>1, <4>2
    <3> QED BY <1>4, <2>3, <3>1, <3>2
  <2> QED BY <2>4, <2>5
<1>9. n \in 1 .. MaxSampled /\ Len(media.pictures) = n
  BY <1>2
<1> QED BY <1>5, <1>6, <1>7, <1>8, <1>9

LEMMA OneItem ==
  ASSUME Agreements, backend \in Backends, ~Candle, NEW tokens, Len(tokens) \in 1 .. Limit
  PROVE  LET items == <<tokens>>
         IN /\ Len(items) \in 1 .. Batch
            /\ \A i \in DOMAIN items : Len(items[i]) \in 1 .. Limit
            /\ Len(items) = 1 /\ items[1] = tokens
            /\ backend = "coreml" => \A i \in DOMAIN items : \E w \in Widths : w >= Len(items[i])
            /\ backend = "mlx" /\ Len(items) > 1 => \A i \in DOMAIN items : Len(items[i]) <= CoremlTokens
<1>1. Batch \in Nat \ {0}
  BY DEF Agreements, AgreementAssumption
<1>2. PICK items : items = <<tokens>>
  OBVIOUS
<1>3. Len(items) = 1 /\ DOMAIN items = {1} /\ items[1] = tokens
  BY <1>2
<1>4. backend = "coreml" => \E w \in Widths : w >= Len(tokens)
  <2>1. CoremlTokens \in Widths
    BY DEF Agreements, Assumptions, EmbeddingAssumption
  <2>2. backend = "coreml" => Limit = CoremlTokens
    BY DEF Limit
  <2>3. Limit >= Len(tokens)
    BY LimitIs
  <2> QED BY <2>1, <2>2, <2>3
<1>5. Len(items) \in 1 .. Batch
  BY <1>1, <1>3
<1> QED BY <1>2, <1>3, <1>4, <1>5

(* What the host makes of media for a worker: a prompt with a place for    *)
(* each row that the worker makes, and nothing that the worker refuses.    *)
LEMMA MediaPrepared ==
  ASSUME Agreements, backend \in Backends, ~Candle, input \in Inputs, input.kind # "texts",
         NEW m \in Decodings, NEW tokens, tokens = MediaIds(SoftTokens(m), Max({1, Len(m.pictures)}))
  PROVE  /\ Len(tokens) \in Nat
         /\ InputFits => Len(tokens) <= Limit
         /\ media = m => Prompted(tokens, WorkerRows)
         /\ media = m /\ Len(tokens) <= Limit => WorkerFits(<<tokens>>)
<1>1. CASE input.kind = "audio"
  <2>1. PICK k : /\ SoftTokens(m) = k /\ (media = m => Numbered(WorkerRows, k))
                 /\ k \in Nat /\ k + 4 <= Limit
    BY <1>1, ClipRows
  <2>2. m.pictures = <<>>
    BY <1>1, ClipDecoded
  <2>3. Max({1, Len(m.pictures)}) = 1
    <3>1. Len(m.pictures) = 0
      BY <2>2
    <3>2. Max({1, 0}) = 1
      BY MaxOfTwo
    <3> QED BY <3>1, <3>2
  <2>4. tokens = MediaIds(k, 1) /\ Len(tokens) = k + 4
    <3>1. Len(MediaIds(k, 1)) = 1 * (k + 2) + 2
      BY <2>1, MediaIdsAre
    <3> QED BY <2>1, <2>3, <3>1
  <2>5. ASSUME media = m PROVE Prompted(tokens, WorkerRows)
    BY <1>1, <2>1, <2>4, <2>5 DEF Prompted
  <2>6. ASSUME media = m PROVE WorkerFits(<<tokens>>)
    <3>1. Len(tokens) \in 1 .. Limit
      BY <2>1, <2>4, LimitIs
    <3>2. Cardinality(Placeholders(tokens)) = Len(WorkerRows)
      BY <2>5, <2>6, PromptedCounts
    <3>3. IF backend = "coreml" THEN Len(media.samples) \in PadLeft + 1 .. CoremlSamples
          ELSE Rows(media.mask) \in 1 .. MelFrames
      <4>1. PICK n : n = Len(media.samples)
        OBVIOUS
      <4>2. n \in PadLeft + 1 .. (IF backend = "coreml" THEN CoremlSamples ELSE MaxSamples) /\ n \in Nat
            /\ media.mask = Features(n).mask
        BY <1>1, <2>6, <4>1, ClipDecoded
      <4>3. CASE backend # "coreml"
        <5>1. SpeechAssumption /\ AgreementAssumption
          BY DEF Agreements, Assumptions
        <5>2. MaxSamples \in Nat /\ FrameLength \in Nat /\ MelFrames \in Nat
          BY <5>1 DEF SpeechAssumption, AgreementAssumption
        <5>3. PadLeft \in Nat
          BY <5>2 DEF PadLeft
        <5>4. n > PadLeft /\ MaxSamples > PadLeft
          BY <4>2, <4>3, <5>2, <5>3
        <5>5. Rows(media.mask) \in 0 .. MelFrames /\ Rows(media.mask) > 0
          BY <4>2, <5>1, <5>4, FramesCounted
        <5> QED BY <4>3, <5>2, <5>5
      <4> QED BY <4>1, <4>2, <4>3
    <3> QED BY <1>1, <3>1, <3>2, <3>3, OneItem DEF WorkerFits
  <2>7. Len(tokens) <= Limit /\ Len(tokens) \in Nat
    BY <2>1, <2>4
  <2> QED BY <2>5, <2>6, <2>7
<1>2. CASE input.kind # "audio"
  <2>1. PICK n, p, tw, th : Taken(m.pictures, n, p, tw, th)
    BY <1>2, PicturesDecoded
  <2>2. Album(m.pictures, n, p, tw, th)
    BY <2>1 DEF Taken
  <2>3. n \in Nat \ {0} /\ p.soft \in Nat \ {0} /\ m.pictures[1] = p /\ Max({1, Len(m.pictures)}) = n
    <3>1. n \in Nat \ {0} /\ p.soft \in Nat \ {0} /\ Max({1, Len(m.pictures)}) = n
      BY <2>2, AlbumIs
    <3>2. \A i \in 1 .. n : m.pictures[i] = p
      BY <2>2, AlbumIs
    <3>3. 1 \in 1 .. n
      BY <3>1
    <3> QED BY <3>1, <3>2, <3>3
  <2>4. SoftTokens(m) = p.soft
    BY <1>2, <2>3, Zenon DEF SoftTokens
  <2>5. tokens = MediaIds(p.soft, n)
    BY <2>3, <2>4
  <2>6. InputFits => Len(tokens) <= Limit
    BY <1>2, <2>1, <2>5, AlbumTokens
  <2>7. ASSUME media = m PROVE Prompted(tokens, WorkerRows)
    <3>1. AlbumRows(WorkerRows, n, p, tw, th)
      BY <1>2, <2>2, <2>7, AlbumWorkerRows
    <3> QED BY <1>2, <2>2, <2>5, <2>7, <3>1 DEF Prompted
  <2>8. ASSUME media = m, Len(tokens) <= Limit PROVE WorkerFits(<<tokens>>)
    <3>1. Len(tokens) \in 1 .. Limit
      <4>1. Len(tokens) = n * (p.soft + 2) + 2
        BY <2>3, <2>5, MediaIdsAre
      <4>2. n * (p.soft + 2) \in Nat
        BY <2>3
      <4> QED BY <2>8, <4>1, <4>2, LimitIs
    <3>2. Cardinality(Placeholders(tokens)) = Len(WorkerRows)
      BY <2>7, <2>8, PromptedCounts
    <3>3. /\ Len(media.pictures) \in 1 .. MaxSampled
          /\ \A q \in ToSet(media.pictures) :
               /\ Len(q.patches) \in {MaxPatches(VideoTokens), MaxPatches(ImageTokens)}
               /\ Len(media.pictures) * Len(q.patches) <= MaxSampled * MaxPatches(VideoTokens)
               /\ backend = "coreml" => CoremlVisionFits(q.patches, q.soft, TableSize)
               /\ backend = "mlx" => PoolFits(q.patches, TableSize)
      BY <1>2, <2>1, <2>8, AlbumFits
    <3>4. \A q \in ToSet(media.pictures) :
            /\ Len(q.patches) \in {MaxPatches(VideoTokens), MaxPatches(ImageTokens)}
            /\ Len(media.pictures) * Len(q.patches) <= MaxSampled * MaxPatches(VideoTokens)
            /\ backend = "coreml" => CoremlVisionFits(q.patches, q.soft, TableSize)
            /\ backend = "mlx" => PoolFits(q.patches, TableSize)
      BY <3>3, Zenon
    <3>5. Len(media.pictures) \in 1 .. MaxSampled
      BY <3>3, Zenon
    <3> QED BY <1>2, <3>1, <3>2, <3>4, <3>5, OneItem DEF WorkerFits
  <2>9. Len(tokens) \in Nat
    <3>1. Len(tokens) = n * (p.soft + 2) + 2
      BY <2>3, <2>5, MediaIdsAre
    <3>2. n * (p.soft + 2) \in Nat
      BY <2>3
    <3> QED BY <3>1, <3>2
  <2> QED BY <2>6, <2>7, <2>8, <2>9
<1> QED BY <1>1, <1>2

(* A batch of texts that the host has let through is one that the worker   *)
(* takes.                                                                  *)
Texts(n) == n \in Nat /\ ids \in [1 .. n -> Seq(Token)] /\ \A i \in 1 .. n : Len(ids[i]) \in 1 .. Limit

LEMMA BatchEnds ==
  ASSUME Agreements, NEW n, Texts(n), NEW from \in 1 .. n
  PROVE  /\ BatchEnd(from) \in from .. n
         /\ BatchEnd(from) - from + 1 \in 1 .. Batch
         /\ BatchEnd(from) > from => \A i \in from .. BatchEnd(from) : Len(ids[i]) <= CoremlTokens
<1>1. Batch \in Nat \ {0}
  BY DEF Agreements, AgreementAssumption
<1>2. n \in Nat /\ Len(ids) = n /\ DOMAIN ids = 1 .. n /\ \A i \in 1 .. n : Len(ids[i]) \in Nat
  BY LimitIs DEF Texts
<1>3. PICK end : end = Min({from + Batch - 1, n})
  OBVIOUS
<1>4. end \in from .. n /\ end - from + 1 \in 1 .. Batch
  <2>1. end = IF from + Batch - 1 <= n THEN from + Batch - 1 ELSE n
    BY <1>1, <1>2, <1>3, MinOfTwo
  <2> QED BY <1>1, <1>2, <2>1
<1>5. BatchEnd(from) = IF \E i \in from .. end : Len(ids[i]) > CoremlTokens THEN from ELSE end
  BY <1>2, <1>3 DEF BatchEnd
<1>6. CASE \E i \in from .. end : Len(ids[i]) > CoremlTokens
  <2>1. BatchEnd(from) = from
    BY <1>5, <1>6
  <2> QED BY <1>1, <1>2, <2>1
<1>7. CASE ~\E i \in from .. end : Len(ids[i]) > CoremlTokens
  <2>1. BatchEnd(from) = end
    BY <1>5, <1>7
  <2>2. ASSUME NEW i \in from .. end PROVE Len(ids[i]) <= CoremlTokens
    <3>1. i \in 1 .. n
      BY <1>2, <1>4
    <3> QED BY <1>2, <1>7, <3>1, LimitIs
  <2> QED BY <1>4, <2>1, <2>2
<1> QED BY <1>6, <1>7

LEMMA TextsFit ==
  ASSUME Agreements, backend \in Backends, ~Candle, input.kind = "texts",
         NEW n, Texts(n), NEW from \in 1 .. n
  PROVE  WorkerFits(SubSeq(ids, from, BatchEnd(from)))
<1>1. PICK end : end = BatchEnd(from)
  OBVIOUS
<1>2. end \in from .. n /\ end - from + 1 \in 1 .. Batch
      /\ (end > from => \A i \in from .. end : Len(ids[i]) <= CoremlTokens)
  BY <1>1, BatchEnds
<1>3. PICK items : items = SubSeq(ids, from, end)
  OBVIOUS
<1>4. n \in Nat /\ ids \in Seq(Seq(Token)) /\ Len(ids) = n
  BY DEF Texts
<1>5. /\ Len(items) = end - from + 1 /\ DOMAIN items = 1 .. end - from + 1
      /\ \A i \in 1 .. end - from + 1 : items[i] = ids[from + i - 1]
  BY <1>2, <1>3, <1>4
<1>6. \A i \in DOMAIN items : from + i - 1 \in from .. end /\ from + i - 1 \in 1 .. n /\ items[i] = ids[from + i - 1]
  BY <1>2, <1>4, <1>5, SMTT(30)
<1>7. Batch \in Nat /\ Len(items) \in 1 .. Batch
  BY <1>2, <1>5 DEF Agreements, AgreementAssumption
<1>8. \A i \in DOMAIN items : Len(items[i]) \in 1 .. Limit
  <2>1. \A i \in 1 .. n : Len(ids[i]) \in 1 .. Limit
    BY DEF Texts
  <2> QED BY <1>6, <2>1
<1>9. backend = "coreml" => \A i \in DOMAIN items : \E w \in Widths : w >= Len(items[i])
  <2>1. CoremlTokens \in Widths
    BY DEF Agreements, Assumptions, EmbeddingAssumption
  <2>2. backend = "coreml" => Limit = CoremlTokens
    BY DEF Limit
  <2>3. ASSUME backend = "coreml", NEW i \in DOMAIN items PROVE \E w \in Widths : w >= Len(items[i])
    <3>1. CoremlTokens >= Len(items[i])
      BY <1>8, <2>2, <2>3, LimitIs
    <3> QED BY <2>1, <3>1
  <2> QED BY <2>3
<1>10. Len(items) > 1 => \A i \in DOMAIN items : Len(items[i]) <= CoremlTokens
  <2>1. Len(items) > 1 => end > from
    BY <1>2, <1>4, <1>5
  <2> QED BY <1>2, <1>6, <2>1
<1>11. WorkerFits(items)
  BY <1>7, <1>8, <1>9, <1>10 DEF WorkerFits
<1> QED BY <1>1, <1>3, <1>11

-------------------------------------------------------------------------------
(* Each soft token shows what belongs at its place.                        *)

LEMMA TurnOf ==
  ASSUME NEW tokens \in Seq(Token), NEW i \in Placeholders(tokens)
  PROVE  Cardinality({j \in Placeholders(tokens) : j <= i}) \in 1 .. Cardinality(Placeholders(tokens))
<1>1. PICK P : P = Placeholders(tokens)
  OBVIOUS
<1>2. PICK Q : Q = {j \in P : j <= i}
  OBVIOUS
<1>3. IsFiniteSet(P)
  <2>1. PICK n : n = Len(tokens)
    OBVIOUS
  <2>2. n \in Nat /\ DOMAIN tokens = 1 .. n
    BY <2>1
  <2>3. P \subseteq 1 .. n
    BY <1>1, <2>2 DEF Placeholders
  <2>4. IsFiniteSet(1 .. n)
    BY ONLY <2>2, FS_Interval
  <2> QED BY <2>3, <2>4, FS_Subset
<1>4. Q \subseteq P
  BY <1>2
<1>5. i \in Q
  BY <1>1, <1>2 DEF Placeholders
<1>6. Cardinality(P) \in Nat
  BY <1>3, FS_CardinalityType
<1>7. IsFiniteSet(Q) /\ Cardinality(Q) <= Cardinality(P)
  BY <1>3, <1>4, FS_Subset
<1>8. Cardinality(Q) \in Nat
  BY <1>7, FS_CardinalityType
<1>9. Cardinality(Q) # 0
  BY <1>5, <1>7, FS_EmptySet
<1> QED BY <1>1, <1>2, <1>6, <1>7, <1>8, <1>9

LEMMA PlaceOf ==
  ASSUME NEW n \in Nat, NEW soft \in Nat \ {0}, NEW r \in 1 .. n * soft
  PROVE  \E f \in 1 .. n, c \in 1 .. soft :
           r = (f - 1) * soft + c /\ (r - 1) \div soft + 1 = f /\ (r - 1) % soft = c - 1
<1>1. n * soft \in Nat
  OBVIOUS
<1>2. PICK a : a = r - 1
  OBVIOUS
<1>3. a \in 0 .. n * soft - 1
  BY <1>1, <1>2
<1>4. PICK q, e : q = a \div soft /\ e = a % soft
  OBVIOUS
<1>5. q \in 0 .. n - 1 /\ e \in 0 .. soft - 1 /\ a = q * soft + e
  BY <1>3, <1>4, PartOf
<1>6. PICK f, c : f = q + 1 /\ c = e + 1
  OBVIOUS
<1>7. f \in 1 .. n /\ c \in 1 .. soft /\ f - 1 = q /\ c - 1 = e
  BY <1>5, <1>6
<1>8. PICK b : b = q * soft
  OBVIOUS
<1>9. b \in Int
  BY <1>5, <1>8
<1>10. r = b + c
  BY <1>1, <1>2, <1>5, <1>7, <1>8, <1>9
<1>11. r = (f - 1) * soft + c
  BY <1>7, <1>8, <1>10
<1> QED BY <1>2, <1>4, <1>6, <1>7, <1>11

LEMMA AlbumCovers ==
  ASSUME Agreements, input \in Inputs, input.kind \notin {"texts", "audio"},
         NEW pictures, NEW n, NEW p, NEW tw, NEW th, Album(pictures, n, p, tw, th), NEW b \in 0 .. p.soft - 1
  PROVE  CoversItsShare(p.patches, PatchesOf(p.patches, tw, th, b), b)
<1>1. ImageAssumption /\ Pool \in Nat \ {0}
  BY DEF Agreements, Assumptions, ImageAssumption
<1>2. tw \in Nat \ {0} /\ th \in Nat \ {0} /\ Tiled(p.patches, tw, th, MaxPatches(Budget))
  BY AlbumIs
<1>3. p.soft = th * tw /\ Grid(p, input.width, input.height, Budget, tw, th)
  BY DEF Album, Grid
<1>4. b \in 0 .. th * tw - 1
  BY <1>3
<1>5. PICK w, h : w = input.width /\ h = input.height
  OBVIOUS
<1>6. w \in Nat \ {0} /\ h \in Nat \ {0}
  BY <1>5 DEF Album
<1>7. PICK places : places = PatchesOf(p.patches, tw, th, b)
  OBVIOUS
<1>8. Cardinality(places) = Pool * Pool
  BY <1>1, <1>2, <1>4, <1>7, PlacesCount
<1>9. /\ ShareOf(w, tw, b % tw) \subseteq UNION {p.patches[i].cols : i \in places}
      /\ ShareOf(h, th, b \div tw) \subseteq UNION {p.patches[i].rows : i \in places}
  BY <1>1, <1>3, <1>4, <1>5, <1>6, <1>7, GridCovers
<1>10. Lined(p.patches, tw * Pool, th * Pool, MaxPatches(Budget))
  BY <1>2 DEF Tiled
<1>11. Max({q.x : q \in ToSet(p.patches)}) = tw * Pool - 1 /\ Max({q.y : q \in ToSet(p.patches)}) = th * Pool - 1
  BY <1>10, LinedMax
<1>12. (tw * Pool - 1 + 1) \div Pool = tw /\ (th * Pool - 1 + 1) \div Pool = th
  BY <1>1, <1>2, Exactly
<1>13. (Max({q.x : q \in ToSet(p.patches)}) + 1) \div Pool = tw /\ (Max({q.y : q \in ToSet(p.patches)}) + 1) \div Pool = th
  BY <1>11, <1>12
<1> QED BY <1>5, <1>7, <1>8, <1>9, <1>13 DEF CoversItsShare, ShareOf

LEMMA ScatteredInPlace ==
  ASSUME Agreements, input \in Inputs, Prompted(ids[1], rows), embeds = MaskedScatter(ids[1], rows),
         NEW i \in Placeholders(ids[1])
  PROVE  LET r == Cardinality({j \in Placeholders(ids[1]) : j <= i})
         IN IF input.kind = "audio" THEN embeds[i].at = r
            ELSE LET soft == media.pictures[1].soft
                 IN /\ embeds[i].at = (r - 1) \div soft + 1
                    /\ CoversItsShare(media.pictures[embeds[i].at].patches, embeds[i].from, (r - 1) % soft)
<1>1. PICK tokens : tokens = ids[1]
  OBVIOUS
<1>2. PICK r : r = Cardinality({j \in Placeholders(tokens) : j <= i})
  OBVIOUS
<1>3. embeds[i] = rows[r]
  BY <1>1, <1>2 DEF MaskedScatter, Placeholders
<1>4. input.kind # "texts"
  BY DEF Prompted
<1>5. CASE input.kind = "audio"
  <2>1. PICK k : Numbered(rows, k) /\ tokens = MediaIds(k, 1)
    BY <1>1, <1>5 DEF Prompted
  <2>2. k \in Nat /\ \A t \in 1 .. k : rows[t].at = t
    BY <2>1 DEF Numbered
  <2>3. tokens \in Seq(Token)
    BY <2>1, <2>2, MediaIdsType
  <2>4. Cardinality(Placeholders(tokens)) = 1 * k
    BY <2>1, <2>2, MediaIdsAre
  <2>5. r \in 1 .. k
    BY <1>1, <1>2, <2>2, <2>3, <2>4, TurnOf
  <2> QED BY <1>1, <1>2, <1>3, <1>5, <2>2, <2>5
<1>6. CASE input.kind # "audio"
  <2>1. PICK n, p, tw, th : /\ Album(media.pictures, n, p, tw, th) /\ tokens = MediaIds(p.soft, n)
                            /\ AlbumRows(rows, n, p, tw, th)
    BY <1>1, <1>4, <1>6 DEF Prompted
  <2>2. n \in Nat \ {0} /\ p.soft \in Nat \ {0}
    BY <2>1, AlbumIs
  <2>3. \A f \in 1 .. n : media.pictures[f] = p
    BY <2>1, AlbumIs
  <2>4. tokens \in Seq(Token)
    BY <2>1, <2>2, MediaIdsType
  <2>5. Cardinality(Placeholders(tokens)) = n * p.soft
    BY <2>1, <2>2, MediaIdsAre
  <2>6. r \in 1 .. n * p.soft
    BY <1>1, <1>2, <2>4, <2>5, TurnOf
  <2>7. PICK f \in 1 .. n, c \in 1 .. p.soft :
          r = (f - 1) * p.soft + c /\ (r - 1) \div p.soft + 1 = f /\ (r - 1) % p.soft = c - 1
    BY <2>2, <2>6, PlaceOf
  <2>8. rows[r] = [at |-> f, from |-> PatchesOf(p.patches, tw, th, c - 1)]
    <3>1. rows[(f - 1) * p.soft + c] = PictureRows(f, Pooled(p.patches, tw, th))[c]
      BY <2>1 DEF AlbumRows, Laid
    <3>2. f \in Nat
      BY <2>2
    <3>3. PictureRows(f, Pooled(p.patches, tw, th))[c] = [at |-> f, from |-> PatchesOf(p.patches, tw, th, c - 1)]
      BY <2>1, <3>2, ShotRows
    <3> QED BY <2>7, <3>1, <3>3
  <2>9. embeds[i].at = f /\ embeds[i].from = PatchesOf(p.patches, tw, th, c - 1)
    BY <1>3, <2>8
  <2>10. c - 1 \in 0 .. p.soft - 1
    BY <2>2
  <2>11. CoversItsShare(p.patches, PatchesOf(p.patches, tw, th, c - 1), c - 1)
    BY <1>4, <1>6, <2>1, <2>10, AlbumCovers
  <2>12. media.pictures[f] = p /\ media.pictures[1] = p
    BY <2>2, <2>3
  <2> QED BY <1>1, <1>2, <1>6, <2>7, <2>9, <2>11, <2>12
<1> QED BY <1>5, <1>6

(* The rows of one picture more.                                           *)
LEMMA NextShot ==
  ASSUME Agreements, NEW pictures, NEW n, NEW p, NEW tw, NEW th, Album(pictures, n, p, tw, th),
         NEW l \in Nat, NEW s \in Seq(Row), AlbumRows(s, l, p, tw, th),
         NEW next, next = PictureRows(l + 1, Pooled(p.patches, tw, th))
  PROVE  s \o next \in Seq(Row) /\ AlbumRows(s \o next, l + 1, p, tw, th)
<1>1. PICK w : w = p.soft
  OBVIOUS
<1>2. w \in Nat
  BY <1>1, AlbumIs
<1>3. next \in [1 .. w -> Row]
  BY <1>1, ShotRows
<1>4. next \in Seq(Row) /\ Len(next) = w
  BY <1>2, <1>3
<1> DEFINE shot(f) == PictureRows(f, Pooled(p.patches, tw, th))
<1>5. PICK k : k = l * w
  OBVIOUS
<1>6. k \in Nat /\ Len(s) = k /\ (l + 1) * w = k + w
  <2>1. Len(s) = l * w
    BY <1>1 DEF AlbumRows, Laid
  <2> QED BY <1>2, <1>5, <2>1
<1>7. ASSUME NEW r \in 1 .. l, NEW c \in 1 .. w PROVE (r - 1) * w + c \in 1 .. k /\ s[(r - 1) * w + c] = shot(r)[c]
  <2>1. (r - 1) * w + c \in 1 .. k
    BY <1>2, <1>5, PlaceBelow
  <2>2. s[(r - 1) * w + c] = [f \in 1 .. l |-> shot(f)][r][c]
    BY <1>1 DEF AlbumRows, Laid
  <2> HIDE DEF shot
  <2> QED BY <2>1, <2>2
<1>8. PICK t : t = s \o next
  OBVIOUS
<1>9. /\ t \in Seq(Row) /\ Len(t) = k + w
      /\ \A i \in 1 .. k + w : t[i] = IF i <= k THEN s[i] ELSE next[i - k]
  <2>1. /\ s \o next \in Seq(Row) /\ Len(s \o next) = Len(s) + Len(next)
        /\ \A i \in 1 .. Len(s) + Len(next) : (s \o next)[i] = IF i <= Len(s) THEN s[i] ELSE next[i - Len(s)]
    BY <1>4, ConcatProperties, Zenon
  <2> QED BY <1>4, <1>6, <1>8, <2>1
<1>10. ASSUME NEW r \in 1 .. l + 1, NEW c \in 1 .. w PROVE t[(r - 1) * w + c] = [f \in 1 .. l + 1 |-> shot(f)][r][c]
  <2>1. CASE r \in 1 .. l
    <3>1. PICK i : i = (r - 1) * w + c
      OBVIOUS
    <3>2. i \in 1 .. k /\ s[i] = shot(r)[c]
      BY <1>7, <2>1, <3>1
    <3>3. i \in 1 .. k + w /\ i <= k
      BY <1>2, <1>6, <3>2
    <3>4. t[i] = shot(r)[c]
      BY <1>9, <3>2, <3>3
    <3> HIDE DEF shot
    <3> QED BY <3>1, <3>4
  <2>2. CASE r = l + 1
    <3>1. (r - 1) * w + c = k + c
      <4>1. r - 1 = l
        BY <2>2
      <4> QED BY <1>5, <4>1
    <3>2. k + c \in 1 .. k + w /\ ~(k + c <= k) /\ (k + c) - k = c
      BY <1>2, <1>6
    <3>3. t[k + c] = next[(k + c) - k]
      BY <1>9, <3>2
    <3>4. t[k + c] = next[c]
      BY <3>2, <3>3
    <3>5. next = shot(r)
      BY <2>2
    <3> HIDE DEF shot
    <3> QED BY <3>1, <3>4, <3>5
  <2> QED BY <2>1, <2>2
<1>11. Laid(t, [f \in 1 .. l + 1 |-> shot(f)], l + 1, w)
  <2> HIDE DEF shot
  <2> QED BY <1>6, <1>9, <1>10 DEF Laid
<1> QED BY <1>1, <1>8, <1>9, <1>11 DEF AlbumRows

LEMMA NoShots ==
  ASSUME Agreements, NEW pictures, NEW n, NEW p, NEW tw, NEW th, Album(pictures, n, p, tw, th)
  PROVE  AlbumRows(<<>>, 0, p, tw, th)
<1>1. p.soft \in Nat
  BY AlbumIs
<1>2. 0 * p.soft = 0 /\ 1 .. 0 = {} /\ Len(<<>>) = 0
  BY <1>1
<1> QED BY <1>2 DEF AlbumRows, Laid

(* VisionModel finds room for each picture.                                *)
LEMMA AlbumPools ==
  ASSUME Agreements, NEW pictures, NEW n, NEW p, NEW tw, NEW th, Album(pictures, n, p, tw, th)
  PROVE  PoolFits(p.patches, TableSize)
<1>1. ImageAssumption
  BY DEF Agreements, Assumptions
<1>2. Budget \in Nat /\ Budget * Pool <= TableSize /\ TableSize \in Nat
  BY BudgetIs
<1>3. Tiled(p.patches, tw, th, MaxPatches(Budget)) /\ tw * th <= Budget
  BY DEF Album, Grid
<1> QED BY <1>1, <1>2, <1>3, TiledFits

-------------------------------------------------------------------------------
(* The invariant of OnlyInputRefused and RowsInPlace, a part at a time;    *)
(* it rests on Inv.                                                        *)

(* Nothing is left of an earlier step.                                     *)
Clean ==
  /\ backend \in Backends
  /\ pc \notin {"layers", "done", "send", "worker"} => embeds = <<>> /\ answers = <<>>
  /\ pc \in {"load", "ready", "jpeg", "finish", "decode"} => rows = <<>> /\ media.samples = <<>>
  /\ pc # "refused" => refusal = "none"

MediaTrue ==
  /\ media.shown = media.indices
  /\ input.kind = "audio" => media.samples \in {<<>>, input.file.content}

AnswersInOrder == \A i \in DOMAIN answers : answers[i] = i

(* The pictures through the tower have left their rows.                    *)
AlbumInTower ==
  pc = "tower" /\ input.kind \notin {"texts", "audio"} =>
    /\ rows \in Seq(Row)
    /\ \E n, p, tw, th : /\ Taken(media.pictures, n, p, tw, th)
                         /\ layer \in 0 .. n /\ AlbumRows(rows, layer, p, tw, th)

(* So has a clip, at the end.                                              *)
ClipThrough ==
  pc = "tower" /\ input.kind = "audio" /\ layer = AudioLayers + 2 =>
    \E k : Numbered(rows, k) /\ k + 4 <= MaxTokens

PromptFits ==
  pc = "scatter" => Prompted(ids[1], rows) /\ (InputFits => Len(ids[1]) <= MaxTokens)

Scattered ==
  embeds # <<>> => Prompted(ids[1], rows) /\ embeds = MaskedScatter(ids[1], rows)

(* What a worker is sent: texts a batch at a time, or media at once.       *)
TextsSent ==
  input.kind = "texts" =>
    /\ Texts(Len(ids)) /\ \A i \in 1 .. Len(ids) : Placeholders(ids[i]) = {}
    /\ \E k \in 0 .. Len(ids) - 1 : answers = [i \in 1 .. k |-> i]

MediaSent ==
  input.kind # "texts" =>
    /\ media \in Decodings /\ answers = <<>>
    /\ ids = <<MediaIds(SoftTokens(media), Max({1, Len(media.pictures)}))>>
    /\ Len(ids[1]) <= Limit

Sending ==
  /\ pc \in {"send", "worker"} => TextsSent /\ MediaSent
  /\ pc = "worker" => layer = BatchEnd(Len(answers) + 1)

Placing ==
  /\ Inv /\ Clean /\ MediaTrue /\ AnswersInOrder /\ OnlyInputRefused
  /\ AlbumInTower /\ ClipThrough /\ PromptFits /\ Scattered /\ Sending

LEMMA SameCall ==
  ASSUME UNCHANGED <<backend, input>>
  PROVE  /\ Candle' = Candle /\ Limit' = Limit
         /\ Decodings' = Decodings
         /\ InputFits' = InputFits
<1>1. Candle' = Candle /\ Limit' = Limit
  BY DEF Candle, Limit
<1>2. VideoBudget' = VideoBudget
  BY DEF VideoBudget, Candle
<1>3. Decodings' = Decodings
  <2>1. DecodeImage' = DecodeImage
    BY DEF DecodeImage
  <2>2. Shots' = Shots
    BY <1>2 DEF Shots
  <2>3. Sampling' = Sampling /\ Choosing' = Choosing
    <3>1. Counted' = Counted /\ Given' = Given /\ Probed' = Probed
      BY DEF Counted, Given, Probed
    <3>2. ParseProbe' = ParseProbe
      BY <3>1 DEF ParseProbe
    <3> QED BY <3>1, <3>2 DEF Sampling, Choosing
  <2>4. DecodeContainer' = DecodeContainer /\ PreprocessDecoded' = PreprocessDecoded
    BY <2>2, <2>3 DEF DecodeContainer, PreprocessDecoded
  <2>5. DecodeClip' = DecodeClip
    BY <1>1 DEF DecodeClip
  <2> QED BY <2>1, <2>4, <2>5 DEF Decodings
<1>4. InputFits' = InputFits
  <2>1. TextsAllowed' = TextsAllowed /\ PictureAllowed' = PictureAllowed /\ ClipAllowed' = ClipAllowed
    BY <1>1 DEF TextsAllowed, PictureAllowed, ClipAllowed, Candle
  <2>2. ContainerAllowed' = ContainerAllowed /\ FramesAllowed' = FramesAllowed
    BY DEF ContainerAllowed, FramesAllowed
  <2>3. VideoAllowed' = VideoAllowed
    BY <1>1, <1>2, <2>2 DEF VideoAllowed, Asked
  <2> QED BY <2>1, <2>3 DEF InputFits
<1> QED BY <1>1, <1>3, <1>4

LEMMA AlbumKept ==
  ASSUME UNCHANGED <<backend, input>>, NEW pictures, media'.pictures = pictures,
         NEW n, NEW p, NEW tw, NEW th, Album(pictures, n, p, tw, th)
  PROVE  Album(media.pictures, n, p, tw, th)'
<1>1. Budget' = Budget
  BY DEF Budget, VideoBudget, Candle
<1> QED BY <1>1 DEF Album

LEMMA TakenKept ==
  ASSUME UNCHANGED <<backend, input>>, NEW pictures, media'.pictures = pictures,
         NEW n, NEW p, NEW tw, NEW th, Taken(pictures, n, p, tw, th)
  PROVE  Taken(media.pictures, n, p, tw, th)'
<1>1. Album(media.pictures, n, p, tw, th)'
  BY AlbumKept DEF Taken
<1>2. Asked' = Asked
  BY DEF Asked
<1> QED BY <1>1, <1>2 DEF Taken

LEMMA PromptedKept ==
  ASSUME UNCHANGED <<backend, input>>, media'.pictures = media.pictures,
         NEW tokens, NEW rs, Prompted(tokens, rs), ids'[1] = tokens, rows' = rs
  PROVE  Prompted(ids[1], rows)'
<1>1. input.kind = "texts" => Placeholders(ids'[1]) = {} /\ rows' = <<>>
  BY DEF Prompted
<1>2. input.kind = "audio" => \E k : Numbered(rows', k) /\ ids'[1] = MediaIds(k, 1)
  BY DEF Prompted
<1>3. ASSUME input.kind \notin {"texts", "audio"}
      PROVE  \E n, p, tw, th : /\ Album(media.pictures, n, p, tw, th)' /\ ids'[1] = MediaIds(p.soft, n)
                               /\ AlbumRows(rows', n, p, tw, th)
  <2>1. PICK n, p, tw, th : /\ Album(media.pictures, n, p, tw, th) /\ tokens = MediaIds(p.soft, n)
                            /\ AlbumRows(rs, n, p, tw, th)
    BY <1>3 DEF Prompted
  <2>2. Album(media.pictures, n, p, tw, th)'
    BY <2>1, AlbumKept
  <2>3. AlbumRows(rows', n, p, tw, th) /\ ids'[1] = MediaIds(p.soft, n)
    BY <2>1
  <2> QED BY <2>2, <2>3
<1> QED BY <1>1, <1>2, <1>3 DEF Prompted

(* A refusal is the input's, and leaves the rest as it is.                 *)
LEMMA InputRefused ==
  ASSUME Placing, Refuse("input"), ~InputFits, Inv', pc \in {"decode", "tower", "scatter"}
  PROVE  Placing'
<1>1. /\ pc' = "refused" /\ refusal' = "input"
      /\ UNCHANGED <<backend, plan, hidden, input, media, layer, rows, ids, embeds, seen, sums, answers>>
  BY DEF Refuse
<1>2. embeds = <<>> /\ answers = <<>>
  BY DEF Placing, Clean
<1>3. Clean'
  BY <1>1, <1>2 DEF Placing, Clean
<1>4. MediaTrue' /\ AnswersInOrder'
  BY <1>1 DEF Placing, MediaTrue, AnswersInOrder
<1>5. OnlyInputRefused'
  BY <1>1, SameCall DEF OnlyInputRefused
<1>6. AlbumInTower' /\ ClipThrough' /\ PromptFits' /\ Sending'
  BY <1>1 DEF AlbumInTower, ClipThrough, PromptFits, Sending
<1>7. Scattered'
  BY <1>1, <1>2 DEF Scattered
<1> QED BY <1>3, <1>4, <1>5, <1>6, <1>7 DEF Placing

LEMMA InitPlacing ==
  ASSUME Init
  PROVE  Placing
<1>1. Inv
  BY InitInv
<1>2. Clean /\ MediaTrue /\ AnswersInOrder /\ OnlyInputRefused
  BY DEF Init, None, Clean, MediaTrue, AnswersInOrder, OnlyInputRefused
<1>3. AlbumInTower /\ ClipThrough /\ PromptFits /\ Sending
  BY DEF Init, AlbumInTower, ClipThrough, PromptFits, Sending
<1>4. Scattered
  BY DEF Init, Scattered
<1> QED BY <1>1, <1>2, <1>3, <1>4 DEF Placing

(* Before and after the work proper.                                       *)
LEMMA OutsidePlacing ==
  ASSUME Placing, Inv', UNCHANGED <<backend, rows, embeds, answers, refusal>>,
         pc \in {"load", "ready", "jpeg", "finish"}, pc' \in {"ready", "jpeg", "finish", "decode"}, MediaTrue',
         media'.samples = <<>>
  PROVE  Placing'
<1>1. embeds = <<>> /\ answers = <<>> /\ rows = <<>> /\ refusal = "none"
  BY DEF Placing, Clean
<1>2. Clean' /\ AnswersInOrder' /\ OnlyInputRefused'
  BY <1>1 DEF Placing, Clean, AnswersInOrder, OnlyInputRefused
<1>3. AlbumInTower' /\ ClipThrough' /\ PromptFits' /\ Sending'
  BY DEF AlbumInTower, ClipThrough, PromptFits, Sending
<1>4. Scattered'
  BY <1>1 DEF Scattered
<1> QED BY <1>2, <1>3, <1>4 DEF Placing

LEMMA EarlyPlacing ==
  ASSUME Placing, Inv', Load \/ Accept \/ ReadJpeg \/ Finish
  PROVE  Placing'
<1>1. DOMAIN media = DOMAIN None
  BY DEF Placing, Inv, Control
<1>2. MediaTrue /\ (pc \in {"load", "ready", "jpeg", "finish"} => media.samples = <<>>)
  BY DEF Placing, Clean
<1>3. CASE Load
  BY <1>2, <1>3, OutsidePlacing DEF Load, MediaTrue
<1>4. CASE Accept
  <2>1. pc = "ready" /\ pc' \in {"jpeg", "decode"} /\ UNCHANGED <<backend, media, rows, embeds, answers, refusal>>
    BY <1>4 DEF Accept
  <2>2. MediaTrue' /\ media'.samples = <<>>
    BY <1>2, <2>1 DEF MediaTrue
  <2> QED BY <2>1, <2>2, OutsidePlacing
<1>5. CASE ReadJpeg
  <2>1. /\ pc = "jpeg" /\ pc' \in {"finish", "decode"} /\ UNCHANGED <<backend, input, rows, embeds, answers, refusal>>
        /\ \/ media' = media
           \/ media'.samples = <<>> /\ media'.shown = media'.indices
    BY <1>5 DEF ReadJpeg, None
  <2>2. MediaTrue' /\ media'.samples = <<>>
    BY <1>2, <2>1 DEF MediaTrue
  <2> QED BY <2>1, <2>2, OutsidePlacing
<1>6. CASE Finish
  <2>1. /\ pc = "finish" /\ pc' = "decode" /\ UNCHANGED <<backend, input, rows, embeds, answers, refusal>>
        /\ media'.samples = media.samples /\ media'.shown = media.shown /\ media'.indices = media.indices
    BY <1>1, <1>6 DEF Finish, None
  <2>2. MediaTrue' /\ media'.samples = <<>>
    BY <1>2, <2>1 DEF MediaTrue
  <2> QED BY <2>1, <2>2, OutsidePlacing
<1> QED BY <1>3, <1>4, <1>5, <1>6

LEMMA FitsDecoded ==
  ASSUME Agreements, input \in Inputs, backend \in Backends
  PROVE  /\ InputFits => Decodings # {}
         /\ \A m \in Decodings :
              m.shown = m.indices /\ (input.kind = "audio" => m.samples \in {<<>>, input.file.content})
<1>1. CASE input.kind = "texts"
  <2>1. Decodings = {None}
    BY <1>1, Zenon DEF Decodings
  <2> QED BY <1>1, <2>1 DEF None
<1>2. CASE input.kind = "audio"
  BY <1>2, ClipDecoded
<1>3. CASE input.kind \notin {"texts", "audio"}
  BY <1>3, PicturesDecoded
<1> QED BY <1>1, <1>2, <1>3

(* The one text of a call that runs here.                                  *)
LEMMA FirstText ==
  ASSUME Agreements, input \in Inputs, input.kind = "texts", Len(input.lengths) = 1
  PROVE  /\ Placeholders(Words(input.lengths[1])) = {}
         /\ InputFits => Len(Words(input.lengths[1])) <= Limit
<1>1. input.lengths \in Seq(Nat)
  BY DEF Agreements, Assumptions, EmbeddingAssumption, Legal
<1>2. 1 \in DOMAIN input.lengths /\ input.lengths[1] \in Nat
  BY <1>1
<1>4. ASSUME InputFits PROVE Len(Words(input.lengths[1])) <= Limit
  <2>1. \A i \in DOMAIN input.lengths : Len(Words(input.lengths[i])) <= Limit
    BY <1>4, AllowedIs DEF TextsAllowed
  <2> QED BY <1>2, <2>1
<1> QED BY <1>2, <1>4, WordsAre

LEMMA DecodePlacing ==
  ASSUME Agreements, Placing, Inv', Decode
  PROVE  Placing'
<1>1. pc = "decode" /\ Candle /\ input \in Inputs /\ backend \in Backends /\ layer = 0 /\ Inv
      /\ embeds = <<>> /\ answers = <<>> /\ rows = <<>> /\ refusal = "none"
      /\ (input.kind = "texts" => Len(input.lengths) = 1)
  BY DEF Decode, Placing, Clean, Inv, Control
<1>2. CASE Decodings = {}
  <2>1. Refuse("input")
    BY <1>2 DEF Decode
  <2> QED BY <1>1, <1>2, <2>1, FitsDecoded, InputRefused
<1>3. CASE Decodings # {}
  <2>1. PICK m \in Decodings : media' = m
    BY <1>3 DEF Decode
  <2>2. /\ pc' = IF input.kind = "texts" THEN "scatter" ELSE "tower"
        /\ ids' = IF input.kind = "texts" THEN <<Words(input.lengths[1])>> ELSE <<>>
        /\ UNCHANGED <<backend, input, layer, rows, embeds, answers, refusal>>
    BY <1>3 DEF Decode
  <2>3. m.shown = m.indices /\ (input.kind = "audio" => m.samples \in {<<>>, input.file.content})
    BY <1>1, <2>1, FitsDecoded
  <2>4. MediaTrue'
    BY <2>1, <2>2, <2>3 DEF MediaTrue
  <2>5. Clean' /\ AnswersInOrder' /\ OnlyInputRefused'
    BY <1>1, <2>2 DEF Clean, AnswersInOrder, OnlyInputRefused
  <2>6. AlbumInTower'
    <3>1. ASSUME input.kind \notin {"texts", "audio"}
          PROVE  /\ rows' \in Seq(Row)
                 /\ \E n, p, tw, th : /\ Taken(media.pictures, n, p, tw, th)'
                                      /\ layer' \in 0 .. n /\ AlbumRows(rows', layer', p, tw, th)
      <4>1. PICK n, p, tw, th : Taken(m.pictures, n, p, tw, th)
        BY <1>1, <2>1, <3>1, PicturesDecoded
      <4>2. Taken(media.pictures, n, p, tw, th)'
        BY <2>1, <2>2, <4>1, TakenKept
      <4>3. Album(m.pictures, n, p, tw, th)
        BY <4>1 DEF Taken
      <4>4. AlbumRows(rows', layer', p, tw, th)
        BY <1>1, <2>2, <4>3, NoShots
      <4>5. layer' \in 0 .. n
        <5>1. n \in Nat \ {0}
          BY <4>3, AlbumIs
        <5> QED BY <1>1, <2>2, <5>1
      <4> QED BY <1>1, <2>2, <4>2, <4>4, <4>5
    <3> QED BY <2>2, <3>1 DEF AlbumInTower
  <2>7. ClipThrough'
    <3>1. AudioLayers \in Nat
      BY DEF Agreements, Assumptions, SpeechAssumption
    <3>2. layer' # AudioLayers + 2
      BY <1>1, <2>2, <3>1
    <3> QED BY <3>2 DEF ClipThrough
  <2>8. PromptFits'
    <3>1. ASSUME input.kind = "texts"
          PROVE  Prompted(ids[1], rows)' /\ (InputFits' => Len(ids'[1]) <= MaxTokens)
      <4>1. ids'[1] = Words(input.lengths[1]) /\ rows' = <<>>
        BY <1>1, <2>2, <3>1
      <4>2. Placeholders(Words(input.lengths[1])) = {} /\ (InputFits => Len(Words(input.lengths[1])) <= Limit)
        BY <1>1, <3>1, FirstText
      <4>3. Limit = MaxTokens
        BY <1>1 DEF Candle, Limit
      <4>4. InputFits' = InputFits
        BY <2>2, SameCall
      <4>5. input'.kind = "texts" /\ Placeholders(ids'[1]) = {}
        BY <2>2, <3>1, <4>1, <4>2
      <4>6. Prompted(ids[1], rows)'
        BY <4>1, <4>5 DEF Prompted
      <4> QED BY <4>1, <4>2, <4>3, <4>4, <4>6
    <3> QED BY <2>2, <3>1 DEF PromptFits
  <2>9. Scattered' /\ Sending'
    BY <1>1, <2>2 DEF Scattered, Sending
  <2> QED BY <2>4, <2>5, <2>6, <2>7, <2>8, <2>9 DEF Placing
<1> QED BY <1>2, <1>3

LEMMA TowerPlacing ==
  ASSUME Placing, Inv', pc = "tower", pc' = "tower", UNCHANGED <<backend, input, embeds, answers, refusal>>,
         media'.samples = media.samples, media'.shown = media.shown, media'.indices = media.indices,
         AlbumInTower', ClipThrough'
  PROVE  Placing'
<1>1. embeds = <<>> /\ answers = <<>> /\ refusal = "none"
  BY DEF Placing, Clean
<1>2. Clean' /\ AnswersInOrder' /\ OnlyInputRefused'
  BY <1>1 DEF Placing, Clean, AnswersInOrder, OnlyInputRefused
<1>3. MediaTrue'
  BY DEF Placing, MediaTrue
<1>4. PromptFits' /\ Scattered' /\ Sending'
  BY <1>1 DEF PromptFits, Scattered, Sending
<1> QED BY <1>2, <1>3, <1>4 DEF Placing

LEMMA VisionTowerPlacing ==
  ASSUME Agreements, Placing, Inv', VisionTower
  PROVE  Placing'
<1>1. pc = "tower" /\ layer < Len(media.pictures) /\ Inv /\ input \in Inputs /\ input.kind # "texts"
  BY DEF VisionTower, Placing, Inv, Control
<1>2. input.kind # "audio"
  <2>1. CASE input.kind = "audio"
    <3>1. media.pictures = <<>> /\ layer \in 0 .. AudioLayers + 2
      BY <1>1, <2>1 DEF Inv, ClipHeard
    <3>2. Len(media.pictures) = 0
      BY <3>1
    <3>3. AudioLayers \in Nat
      BY DEF Agreements, Assumptions, SpeechAssumption
    <3> QED BY <1>1, <3>1, <3>2, <3>3
  <2> QED BY <2>1
<1>3. rows \in Seq(Row)
  BY <1>1, <1>2 DEF Placing, AlbumInTower
<1>4. PICK n, p, tw, th : /\ Taken(media.pictures, n, p, tw, th)
                          /\ layer \in 0 .. n /\ AlbumRows(rows, layer, p, tw, th)
  BY <1>1, <1>2 DEF Placing, AlbumInTower
<1>5. Album(media.pictures, n, p, tw, th)
  BY <1>4 DEF Taken
<1>6. n \in Nat /\ Len(media.pictures) = n
  BY <1>5, AlbumIs
<1>7. media.pictures[layer + 1] = p
  <2>1. \A i \in 1 .. n : media.pictures[i] = p
    BY <1>5, AlbumIs
  <2>2. layer + 1 \in 1 .. n
    BY <1>1, <1>4, <1>6
  <2> QED BY <2>1, <2>2
<1>8. PoolFits(p.patches, TableSize)
  BY <1>5, AlbumPools
<1>9. /\ rows' = rows \o PictureRows(layer + 1, PooledRows(p.patches)) /\ layer' = layer + 1
      /\ pc' = "tower" /\ UNCHANGED <<backend, input, embeds, answers, refusal, media>>
  BY <1>1, <1>7, <1>8 DEF VisionTower
<1>10. layer \in Nat /\ layer' \in 0 .. n
  BY <1>1, <1>4, <1>6, <1>9
<1>11. PooledRows(p.patches) = Pooled(p.patches, tw, th)
  BY <1>5, <1>10, ShotRows
<1>12. rows' \in Seq(Row) /\ AlbumRows(rows', layer', p, tw, th)
  BY <1>3, <1>4, <1>5, <1>9, <1>10, <1>11, NextShot
<1>13. Taken(media.pictures, n, p, tw, th)'
  BY <1>4, <1>9, TakenKept
<1>14. AlbumInTower'
  BY <1>10, <1>12, <1>13 DEF AlbumInTower
<1>15. ClipThrough'
  BY <1>2, <1>9 DEF ClipThrough
<1> QED BY <1>1, <1>9, <1>14, <1>15, TowerPlacing

LEMMA ClipPlacing ==
  ASSUME Agreements, Placing, Inv', AudioSubsample \/ AudioLayer \/ AudioRows
  PROVE  Placing'
<1>1. pc = "tower" /\ input.kind = "audio" /\ Inv /\ DOMAIN media = DOMAIN None
  BY DEF AudioSubsample, AudioLayer, AudioRows, Placing, Inv, Control
<1>2. AudioLayers \in Nat \ {0}
  BY DEF Agreements, Assumptions, SpeechAssumption
<1>3. /\ pc' = "tower" /\ UNCHANGED <<backend, input, embeds, answers, refusal>>
      /\ media'.samples = media.samples /\ media'.shown = media.shown /\ media'.indices = media.indices
  BY <1>1 DEF AudioSubsample, AudioLayer, AudioRows, None
<1>4. AlbumInTower'
  BY <1>1, <1>3 DEF AlbumInTower
<1>5. ClipThrough'
  <2>1. CASE AudioSubsample
    <3>1. layer' # AudioLayers + 2
      BY <1>2, <2>1 DEF AudioSubsample
    <3> QED BY <3>1 DEF ClipThrough
  <2>2. CASE AudioLayer
    <3>1. layer' # AudioLayers + 2
      BY <1>2, <2>2 DEF AudioLayer
    <3> QED BY <3>1 DEF ClipThrough
  <2>3. CASE AudioRows
    <3>1. PICK n : n = Len(media.samples)
      OBVIOUS
    <3>2. layer = AudioLayers + 1 /\ layer \in 1 .. AudioLayers + 1
      BY <1>2, <2>3 DEF AudioRows
    <3>3. n \in Nat /\ Masked(media.mask, Quarter(ClipFrames), Quarter(ClipValid))
      BY <1>1, <3>1, <3>2 DEF Inv, ClipHeard, LayerOutput
    <3>4. SpeechAssumption /\ AgreementAssumption /\ MelFrames \in Nat
      BY DEF Agreements, Assumptions, AgreementAssumption
    <3>5. PICK V : V = ClipValid
      OBVIOUS
    <3>6. V \in Nat /\ V <= MelFrames
      <4>1. PICK mask : mask = Features(n).mask
        OBVIOUS
      <4>2. Rows(mask) \in 0 .. MelFrames
        BY <3>3, <3>4, <4>1, FramesCounted
      <4>3. Valids(mask) \in 0 .. Rows(mask)
        BY <3>3, <3>4, <4>1, ValidsBelow
      <4>4. V = Valids(mask)
        BY <3>1, <3>5, <4>1 DEF ClipValid
      <4> QED BY <3>4, <4>2, <4>3, <4>4
    <3>7. PICK k : k = Quarter(V)
      OBVIOUS
    <3>8. k \in Nat /\ k + 4 <= MaxTokens
      <4>1. CeilDiv(V, 4) = k
        BY <3>6, <3>7, QuarterCeil
      <4>2. CeilDiv(V, 4) \in Nat /\ CeilDiv(MelFrames, 4) \in Nat /\ CeilDiv(V, 4) <= CeilDiv(MelFrames, 4)
        <5>1. 4 \in Nat \ {0} /\ MelFrames \in Nat
          BY <3>4
        <5> QED BY <3>6, <5>1, CeilDivGrows
      <4>3. CeilDiv(MelFrames, 4) + 4 <= MaxTokens
        BY <3>4 DEF AgreementAssumption
      <4> QED BY <4>1, <4>2, <4>3, LimitIs
    <3>9. Valids(media.mask) = k
      BY <3>3, <3>5, <3>7, MaskedCounts
    <3>10. PICK valid : valid = ValidRows(media.rows, media.mask)
      OBVIOUS
    <3>11. rows' = [r \in DOMAIN valid |-> [at |-> r, from |-> valid[r]]]
      BY <2>3, <3>10 DEF AudioRows
    <3>12. DOMAIN valid = 1 .. k
      BY <3>9, <3>10 DEF ValidRows, Valids
    <3>13. Numbered(rows', k)
      BY <3>8, <3>11, <3>12 DEF Numbered
    <3> QED BY <3>8, <3>13 DEF ClipThrough
  <2> QED BY <2>1, <2>2, <2>3
<1> QED BY <1>1, <1>3, <1>4, <1>5, TowerPlacing

LEMMA PromptPlacing ==
  ASSUME Agreements, Placing, Inv', Prompt
  PROVE  Placing'
<1>1. /\ pc = "tower" /\ pc' = "scatter" /\ input \in Inputs /\ input.kind # "texts" /\ Candle
      /\ layer = IF input.kind = "audio" THEN AudioLayers + 2 ELSE Len(media.pictures)
      /\ ids' = IF input.kind = "audio" THEN <<MediaIds(Len(rows), 1)>>
                ELSE <<MediaIds(media.pictures[1].soft, Len(media.pictures))>>
      /\ UNCHANGED <<backend, input, media, rows, embeds, answers, refusal>>
  BY DEF Prompt, Placing, Inv, Control
<1>2. embeds = <<>> /\ answers = <<>> /\ refusal = "none"
  BY <1>1 DEF Placing, Clean
<1>3. Limit = MaxTokens
  BY <1>1 DEF Candle, Limit
<1>4. PICK tokens : tokens = ids'[1]
  OBVIOUS
<1>5. Prompted(tokens, rows) /\ (InputFits => Len(tokens) <= MaxTokens)
  <2>1. CASE input.kind = "audio"
    <3>1. PICK k : Numbered(rows, k) /\ k + 4 <= MaxTokens
      BY <1>1, <2>1 DEF Placing, ClipThrough
    <3>2. k \in Nat /\ Len(rows) = k
      BY <3>1 DEF Numbered
    <3>3. tokens = MediaIds(k, 1)
      BY <1>1, <1>4, <2>1, <3>2
    <3>4. Len(tokens) = 1 * (k + 2) + 2
      BY <3>2, <3>3, MediaIdsAre
    <3>5. Prompted(tokens, rows)
      BY <2>1, <3>1, <3>3 DEF Prompted
    <3> QED BY <3>1, <3>2, <3>4, <3>5
  <2>2. CASE input.kind # "audio"
    <3>1. PICK n, p, tw, th : /\ Taken(media.pictures, n, p, tw, th)
                              /\ layer \in 0 .. n /\ AlbumRows(rows, layer, p, tw, th)
      BY <1>1, <2>2 DEF Placing, AlbumInTower
    <3>2. Album(media.pictures, n, p, tw, th)
      BY <3>1 DEF Taken
    <3>3. n \in Nat \ {0} /\ Len(media.pictures) = n
      BY <3>2, AlbumIs
    <3>4. media.pictures[1] = p
      <4>1. \A i \in 1 .. n : media.pictures[i] = p
        BY <3>2, AlbumIs
      <4> QED BY <3>3, <4>1
    <3>5. tokens = MediaIds(p.soft, n) /\ layer = n
      BY <1>1, <1>4, <2>2, <3>3, <3>4
    <3>6. Prompted(tokens, rows)
      BY <1>1, <2>2, <3>1, <3>2, <3>5 DEF Prompted
    <3>7. InputFits => Len(tokens) <= Limit
      BY <1>1, <2>2, <3>1, <3>5, AlbumTokens
    <3> QED BY <1>3, <3>6, <3>7
  <2> QED BY <2>1, <2>2
<1>6. Prompted(ids[1], rows)'
  BY <1>1, <1>4, <1>5, PromptedKept
<1>7. InputFits' = InputFits
  BY <1>1, SameCall
<1>8. PromptFits'
  BY <1>4, <1>5, <1>6, <1>7 DEF PromptFits
<1>9. Clean' /\ AnswersInOrder' /\ OnlyInputRefused' /\ MediaTrue'
  BY <1>1, <1>2 DEF Placing, Clean, AnswersInOrder, OnlyInputRefused, MediaTrue
<1>10. AlbumInTower' /\ ClipThrough' /\ Scattered' /\ Sending'
  BY <1>1, <1>2 DEF AlbumInTower, ClipThrough, Scattered, Sending
<1> QED BY <1>8, <1>9, <1>10 DEF Placing

-------------------------------------------------------------------------------
(* The text tower and the workers.                                         *)

LEMMA ScatterPlacing ==
  ASSUME Agreements, Placing, Inv', Scatter
  PROVE  Placing'
<1>1. PICK tokens : tokens = ids[1]
  OBVIOUS
<1>2. pc = "scatter" /\ Candle /\ input \in Inputs /\ tokens \in Seq(Token)
  BY <1>1 DEF Scatter, Placing, Inv, Control, TokensTyped
<1>3. Prompted(tokens, rows) /\ (InputFits => Len(tokens) <= MaxTokens)
  BY <1>1, <1>2 DEF Placing, PromptFits
<1>4. Len(tokens) \in Nat /\ MaxTokens \in Nat
  BY <1>2, LimitIs
<1>5. CASE Len(tokens) > MaxTokens
  <2>0. ~(Len(tokens) <= MaxTokens)
    BY <1>4, <1>5
  <2>1. Refuse("input")
    BY <1>1, <1>5, <2>0, Zenon DEF Scatter
  <2>2. ~InputFits
    BY <1>3, <2>0
  <2> QED BY <1>2, <2>1, <2>2, InputRefused
<1>6. CASE ~(Len(tokens) > MaxTokens)
  <2>1. Cardinality(Placeholders(tokens)) = Len(rows)
    BY <1>3, PromptedCounts
  <2>2. /\ embeds' = MaskedScatter(tokens, rows) /\ pc' = "layers"
        /\ UNCHANGED <<backend, input, media, rows, ids, answers, refusal>>
    BY <1>1, <1>6, <2>1 DEF Scatter
  <2>3. answers = <<>> /\ refusal = "none"
    BY <1>2 DEF Placing, Clean
  <2>4. Clean' /\ AnswersInOrder' /\ OnlyInputRefused' /\ MediaTrue'
    BY <2>2, <2>3 DEF Placing, Clean, AnswersInOrder, OnlyInputRefused, MediaTrue
  <2>5. AlbumInTower' /\ ClipThrough' /\ PromptFits' /\ Sending'
    BY <2>2 DEF AlbumInTower, ClipThrough, PromptFits, Sending
  <2>6. Prompted(ids[1], rows)'
    BY <1>1, <1>3, <2>2, PromptedKept
  <2>7. embeds' = MaskedScatter(ids'[1], rows')
    BY <1>1, <2>2
  <2>8. Scattered'
    BY <2>6, <2>7 DEF Scattered
  <2> QED BY <2>4, <2>5, <2>8 DEF Placing
<1> QED BY <1>5, <1>6

LEMMA ScatteredKept ==
  ASSUME Scattered, UNCHANGED <<backend, input, media, rows, ids, embeds>>
  PROVE  Scattered'
<1>1. CASE embeds = <<>>
  BY <1>1 DEF Scattered
<1>2. CASE embeds # <<>>
  <2>1. Prompted(ids[1], rows) /\ embeds = MaskedScatter(ids[1], rows)
    BY <1>2 DEF Scattered
  <2>2. Prompted(ids[1], rows)'
    BY <2>1, PromptedKept
  <2>3. embeds' = MaskedScatter(ids'[1], rows')
    BY <2>1
  <2> QED BY <2>2, <2>3 DEF Scattered
<1> QED BY <1>1, <1>2

LEMMA LayersPlacing ==
  ASSUME Placing, Inv', TextLayer \/ PoolTokens
  PROVE  Placing'
<1>1. /\ pc = "layers" /\ pc' \in {"layers", "done"}
      /\ UNCHANGED <<backend, input, media, rows, ids, embeds, refusal>>
      /\ answers' \in {answers, <<1>>}
  BY DEF TextLayer, PoolTokens
<1>2. Clean' /\ OnlyInputRefused' /\ MediaTrue'
  BY <1>1 DEF Placing, Clean, OnlyInputRefused, MediaTrue
<1>3. AnswersInOrder'
  BY <1>1 DEF Placing, AnswersInOrder
<1>4. AlbumInTower' /\ ClipThrough' /\ PromptFits' /\ Sending'
  BY <1>1 DEF AlbumInTower, ClipThrough, PromptFits, Sending
<1>5. Scattered'
  BY <1>1, ScatteredKept DEF Placing
<1> QED BY <1>2, <1>3, <1>4, <1>5 DEF Placing

(* What has been prepared for a worker.                                    *)
LEMMA PreparedPlacing ==
  ASSUME Placing, Inv', pc = "decode", pc' \in {"send", "done"},
         UNCHANGED <<backend, input, rows, embeds, answers, refusal>>,
         MediaTrue', pc' = "send" => (TextsSent /\ MediaSent)'
  PROVE  Placing'
<1>1. embeds = <<>> /\ answers = <<>> /\ refusal = "none"
  BY DEF Placing, Clean
<1>2. Clean' /\ AnswersInOrder' /\ OnlyInputRefused'
  BY <1>1 DEF Placing, Clean, AnswersInOrder, OnlyInputRefused
<1>3. AlbumInTower' /\ ClipThrough' /\ PromptFits'
  BY DEF AlbumInTower, ClipThrough, PromptFits
<1>4. Scattered'
  BY <1>1 DEF Scattered
<1>5. Sending'
  BY DEF Sending
<1> QED BY <1>2, <1>3, <1>4, <1>5 DEF Placing

LEMMA PrepareTextsPlacing ==
  ASSUME Agreements, Placing, Inv', PrepareTexts
  PROVE  Placing'
<1>1. pc = "decode" /\ ~Candle /\ input.kind = "texts" /\ input \in Inputs
  BY DEF PrepareTexts, Placing, Inv, Control
<1>2. input.lengths \in Seq(Nat) /\ (input.marked => input.lengths # <<>>)
  BY <1>1 DEF Agreements, Assumptions, EmbeddingAssumption, Legal
<1>3. PICK lengths : lengths = input.lengths
  OBVIOUS
<1>4. PICK n : n = Len(lengths)
  OBVIOUS
<1>5. n \in Nat /\ DOMAIN lengths = 1 .. n /\ lengths \in [1 .. n -> Nat] /\ (n = 0 <=> lengths = <<>>)
  BY <1>2, <1>3, <1>4
<1>7. Limit \in Nat
  BY LimitIs
<1>8. \A l \in Nat : Words(l) \in Seq(Token) /\ Len(Words(l)) = l + 2 /\ Placeholders(Words(l)) = {}
  BY WordsType, WordsAre
<1> DEFINE Bad == \/ input.marked
                  \/ \E i \in DOMAIN lengths : input.bytes[i] \notin 1 .. MaxText \/ Len(Words(lengths[i])) > Limit
<1>9. CASE Bad
  <2>1. Refuse("input")
    BY <1>3, <1>9 DEF PrepareTexts
  <2>2. ASSUME InputFits PROVE FALSE
    <3>1. \A i \in DOMAIN lengths :
            Len(Words(lengths[i])) <= Limit /\ input.bytes[i] \in 1 .. MaxText /\ ~input.marked
      BY <1>1, <1>3, <2>2, AllowedIs DEF TextsAllowed
    <3>2. CASE input.marked
      <4>1. n # 0
        BY <1>2, <1>3, <1>5, <3>2
      <4>2. 1 \in DOMAIN lengths
        BY <1>5, <4>1
      <4> QED BY <3>1, <3>2, <4>2
    <3>3. ASSUME NEW i \in DOMAIN lengths, input.bytes[i] \notin 1 .. MaxText \/ Len(Words(lengths[i])) > Limit
          PROVE  FALSE
      <4>1. lengths[i] \in Nat
        BY <1>5
      <4>2. Len(Words(lengths[i])) <= Limit /\ input.bytes[i] \in 1 .. MaxText /\ Len(Words(lengths[i])) \in Nat
        BY <1>8, <3>1, <4>1
      <4> QED BY <1>7, <3>3, <4>2
    <3> QED BY <1>9, <3>2, <3>3
  <2> QED BY <1>1, <2>1, <2>2, InputRefused
<1>10. CASE ~Bad
  <2>1. /\ ids' = [i \in DOMAIN lengths |-> Words(lengths[i])]
        /\ pc' = IF lengths = <<>> THEN "done" ELSE "send"
        /\ UNCHANGED <<backend, input, media, layer, rows, embeds, answers, refusal>>
    BY <1>3, <1>10 DEF PrepareTexts
  <2>2. MediaTrue'
    BY <2>1 DEF Placing, MediaTrue
  <2>3. answers = <<>>
    BY <1>1 DEF Placing, Clean
  <2>4. ASSUME pc' = "send" PROVE TextsSent' /\ MediaSent'
    <3>1. n # 0
      BY <1>5, <2>1, <2>4
    <3>2. ids' \in [1 .. n -> Seq(Token)] /\ DOMAIN ids' = 1 .. n
      BY <1>5, <1>8, <2>1
    <3>3. Len(ids') = n
      BY <1>5, <3>2
    <3>4. Limit' = Limit
      BY <2>1, SameCall
    <3>5. ASSUME NEW i \in 1 .. n PROVE Len(ids'[i]) \in 1 .. Limit /\ Placeholders(ids'[i]) = {}
      <4>1. lengths[i] \in Nat /\ i \in DOMAIN lengths /\ ids'[i] = Words(lengths[i])
        BY <1>5, <2>1
      <4>2. ~(Len(Words(lengths[i])) > Limit)
        BY <1>10, <4>1
      <4>3. Len(ids'[i]) = lengths[i] + 2 /\ Placeholders(ids'[i]) = {}
        BY <1>8, <4>1
      <4> QED BY <1>7, <4>1, <4>2, <4>3
    <3>6. answers' = [i \in 1 .. 0 |-> i] /\ 0 \in 0 .. n - 1
      BY <1>5, <2>1, <2>3, <3>1
    <3>7. Texts(Len(ids))'
      BY <1>5, <3>2, <3>3, <3>4, <3>5 DEF Texts
    <3>8. \A i \in 1 .. Len(ids') : Placeholders(ids'[i]) = {}
      BY <3>3, <3>5
    <3>9. \E k \in 0 .. Len(ids') - 1 : answers' = [i \in 1 .. k |-> i]
      BY <3>3, <3>6
    <3>10. TextsSent'
      BY <3>7, <3>8, <3>9 DEF TextsSent
    <3>11. MediaSent'
      BY <1>1, <2>1 DEF MediaSent
    <3> QED BY <3>10, <3>11
  <2> QED BY <1>1, <2>1, <2>2, <2>4, PreparedPlacing
<1> QED BY <1>9, <1>10

LEMMA PrepareMediaPlacing ==
  ASSUME Agreements, Placing, Inv', PrepareMedia
  PROVE  Placing'
<1>1. pc = "decode" /\ ~Candle /\ input.kind # "texts" /\ input \in Inputs /\ backend \in Backends /\ answers = <<>>
  BY DEF PrepareMedia, Placing, Inv, Control, Clean
<1>2. CASE Decodings = {}
  <2>1. Refuse("input")
    BY <1>2 DEF PrepareMedia
  <2> QED BY <1>1, <1>2, <2>1, FitsDecoded, InputRefused
<1>3. CASE Decodings # {}
  <2>1. PICK m \in Decodings :
          LET tokens == MediaIds(SoftTokens(m), Max({1, Len(m.pictures)}))
          IN IF Len(tokens) > Limit THEN Refuse("input")
             ELSE /\ media' = m /\ ids' = <<tokens>> /\ pc' = "send"
                  /\ UNCHANGED <<backend, plan, hidden, input, layer, rows, embeds, seen, sums, answers, refusal>>
    BY <1>3 DEF PrepareMedia
  <2>2. PICK tokens : tokens = MediaIds(SoftTokens(m), Max({1, Len(m.pictures)}))
    OBVIOUS
  <2>3. Len(tokens) \in Nat /\ (InputFits => Len(tokens) <= Limit) /\ Limit \in Nat
    BY <1>1, <2>2, MediaPrepared, LimitIs
  <2>4. CASE Len(tokens) > Limit
    <3>1. Refuse("input")
      BY <2>1, <2>2, <2>4
    <3>2. ~InputFits
      BY <2>3, <2>4
    <3> QED BY <1>1, <3>1, <3>2, InputRefused
  <2>5. CASE ~(Len(tokens) > Limit)
    <3>1. /\ media' = m /\ ids' = <<tokens>> /\ pc' = "send"
          /\ UNCHANGED <<backend, input, layer, rows, embeds, answers, refusal>>
      BY <2>1, <2>2, <2>5
    <3>2. m.shown = m.indices /\ (input.kind = "audio" => m.samples \in {<<>>, input.file.content})
      BY <1>1, FitsDecoded
    <3>3. MediaTrue'
      BY <3>1, <3>2 DEF MediaTrue
    <3>4. Decodings' = Decodings /\ Limit' = Limit
      BY <3>1, SameCall
    <3>5. SoftTokens(media)' = SoftTokens(m)
      BY <3>1 DEF SoftTokens
    <3>6. ids' = <<MediaIds(SoftTokens(media)', Max({1, Len(media'.pictures)}))>> /\ ids'[1] = tokens
      BY <2>2, <3>1, <3>5
    <3>7. media' \in Decodings' /\ answers' = <<>> /\ Len(ids'[1]) <= Limit'
      BY <1>1, <2>3, <2>5, <3>1, <3>4, <3>6
    <3>8. MediaSent'
      BY <3>6, <3>7 DEF MediaSent
    <3>9. TextsSent'
      BY <1>1, <3>1 DEF TextsSent
    <3> QED BY <1>1, <3>1, <3>3, <3>8, <3>9, PreparedPlacing
  <2> QED BY <2>4, <2>5
<1> QED BY <1>2, <1>3

LEMMA SendPlacing ==
  ASSUME Placing, Inv', Send
  PROVE  Placing'
<1>1. /\ pc = "send" /\ pc' = "worker" /\ layer' = BatchEnd(Len(answers) + 1)
      /\ UNCHANGED <<backend, input, media, rows, ids, embeds, answers, refusal>>
  BY DEF Send
<1>2. Clean' /\ AnswersInOrder' /\ OnlyInputRefused' /\ MediaTrue'
  BY <1>1 DEF Placing, Clean, AnswersInOrder, OnlyInputRefused, MediaTrue
<1>3. AlbumInTower' /\ ClipThrough' /\ PromptFits'
  BY <1>1 DEF AlbumInTower, ClipThrough, PromptFits
<1>4. Scattered'
  BY <1>1, ScatteredKept DEF Placing
<1>5. Limit' = Limit /\ Decodings' = Decodings
  BY <1>1, SameCall
<1>6. TextsSent /\ MediaSent
  BY <1>1 DEF Placing, Sending
<1>7. TextsSent'
  BY <1>1, <1>5, <1>6 DEF TextsSent, Texts
<1>8. SoftTokens(media)' = SoftTokens(media)
  BY <1>1 DEF SoftTokens
<1>9. MediaSent'
  BY <1>1, <1>5, <1>6, <1>8 DEF MediaSent
<1>10. BatchEnd(Len(answers) + 1)' = BatchEnd(Len(answers) + 1)
  BY <1>1 DEF BatchEnd
<1>11. Sending'
  BY <1>1, <1>7, <1>9, <1>10 DEF Sending
<1> QED BY <1>2, <1>3, <1>4, <1>11 DEF Placing

(* Answers 1 to k, and then those up to l.                                 *)
LEMMA CountsAre ==
  ASSUME NEW k \in Nat, NEW l \in Nat, k <= l
  PROVE  /\ Len([i \in 1 .. k |-> i]) = k
         /\ [i \in 1 .. k |-> i] \o [i \in 1 .. l - k |-> k + 1 + i - 1] = [i \in 1 .. l |-> i]
<1>1. PICK first, more : first = [i \in 1 .. k |-> i] /\ more = [i \in 1 .. l - k |-> k + 1 + i - 1]
  OBVIOUS
<1>2. first \in Seq(Nat) /\ Len(first) = k
  BY <1>1
<1>3. more \in Seq(Nat) /\ Len(more) = l - k
  BY <1>1
<1>4. PICK all : all = first \o more
  OBVIOUS
<1>5. /\ all \in Seq(Nat) /\ Len(all) = k + (l - k)
      /\ \A i \in 1 .. Len(first) + Len(more) :
           all[i] = IF i <= Len(first) THEN first[i] ELSE more[i - Len(first)]
  BY <1>2, <1>3, <1>4, ConcatProperties, Zenon
<1>6. Len(all) = l /\ DOMAIN all = 1 .. l
  BY <1>5
<1>7. ASSUME NEW i \in 1 .. l PROVE all[i] = i
  <2>1. all[i] = IF i <= k THEN first[i] ELSE more[i - k]
    BY <1>2, <1>3, <1>5
  <2>2. CASE i <= k
    BY <1>1, <2>1, <2>2
  <2>3. CASE ~(i <= k)
    <3>1. i - k \in 1 .. l - k
      BY <2>3
    <3>2. more[i - k] = k + 1 + (i - k) - 1
      BY <1>1, <3>1
    <3> QED BY <2>1, <2>3, <3>2
  <2> QED BY <2>2, <2>3
<1>8. all = [i \in 1 .. l |-> i]
  BY <1>5, <1>6, <1>7
<1> QED BY <1>1, <1>2, <1>4, <1>8

(* A batch of texts is taken, and answered in its turn.                    *)
LEMMA TextsWorked ==
  ASSUME Agreements, Placing, Inv', Work, input.kind = "texts"
  PROVE  Placing'
<1>1. /\ pc = "worker" /\ ~Candle /\ backend \in Backends
      /\ TextsSent /\ layer = BatchEnd(Len(answers) + 1) /\ refusal = "none"
  BY DEF Work, Placing, Inv, Control, Clean, Sending
<1>2. PICK n : n = Len(ids)
  OBVIOUS
<1>3. Texts(n) /\ \A i \in 1 .. n : Placeholders(ids[i]) = {}
  BY <1>1, <1>2 DEF TextsSent
<1>4. n \in Nat
  BY <1>3 DEF Texts
<1>5. PICK k \in 0 .. n - 1 : answers = [i \in 1 .. k |-> i]
  BY <1>1, <1>2 DEF TextsSent
<1>6. k \in Nat /\ k + 1 \in 1 .. n
  BY <1>4, <1>5
<1>7. Len(answers) = k
  BY <1>5, <1>6, CountsAre
<1>8. layer \in k + 1 .. n
  BY <1>1, <1>3, <1>6, <1>7, BatchEnds
<1>9. WorkerFits(SubSeq(ids, k + 1, layer))
  BY <1>1, <1>3, <1>6, <1>7, TextsFit
<1>10. /\ answers' = answers \o [i \in 1 .. layer - k |-> k + 1 + i - 1]
       /\ rows' = WorkerRows /\ embeds' = MaskedScatter(ids[1], WorkerRows)
       /\ pc' = IF layer = n THEN "done" ELSE "send"
       /\ UNCHANGED <<backend, input, media, ids, refusal>>
  BY <1>2, <1>7, <1>9 DEF Work
<1>11. answers' = [i \in 1 .. layer |-> i]
  <2>1. layer \in Nat /\ k <= layer
    BY <1>6, <1>8
  <2> QED BY <1>5, <1>6, <1>10, <2>1, CountsAre
<1>12. WorkerRows = <<>>
  BY DEF WorkerRows
<1>13. rows' = <<>> /\ embeds' = MaskedScatter(ids'[1], rows')
  BY <1>10, <1>12
<1>14. Prompted(ids[1], rows)'
  <2>1. 1 \in 1 .. n
    BY <1>4, <1>6
  <2>2. Prompted(ids[1], <<>>)
    BY <1>3, <2>1 DEF Prompted
  <2>3. ids'[1] = ids[1] /\ rows' = <<>>
    BY <1>10, <1>13
  <2> QED BY <1>10, <2>2, <2>3, PromptedKept
<1>15. Scattered'
  BY <1>13, <1>14 DEF Scattered
<1>16. Clean' /\ OnlyInputRefused' /\ MediaTrue'
  BY <1>1, <1>10 DEF Placing, Clean, OnlyInputRefused, MediaTrue
<1>17. AnswersInOrder'
  BY <1>11 DEF AnswersInOrder
<1>18. AlbumInTower' /\ ClipThrough' /\ PromptFits'
  BY <1>10 DEF AlbumInTower, ClipThrough, PromptFits
<1>19. Sending'
  <2>1. Limit' = Limit
    BY <1>10, SameCall
  <2>2. Texts(n)'
    BY <1>3, <1>10, <2>1 DEF Texts
  <2>3. pc' = "send" => layer \in 0 .. n - 1
    BY <1>4, <1>8, <1>10
  <2>4. pc' = "send" => TextsSent'
    BY <1>2, <1>3, <1>10, <1>11, <2>2, <2>3 DEF TextsSent
  <2>5. MediaSent'
    BY <1>10 DEF MediaSent
  <2>6. pc' # "worker"
    BY <1>10
  <2>7. pc' \in {"send", "worker"} => pc' = "send"
    BY <1>10
  <2> QED BY <2>4, <2>5, <2>6, <2>7 DEF Sending
<1> QED BY <1>15, <1>16, <1>17, <1>18, <1>19 DEF Placing

(* Media are taken at once.                                                *)
LEMMA MediaWorked ==
  ASSUME Agreements, Placing, Inv', Work, input.kind # "texts"
  PROVE  Placing'
<1>1. /\ pc = "worker" /\ ~Candle /\ backend \in Backends /\ input \in Inputs
      /\ MediaSent /\ layer = BatchEnd(Len(answers) + 1) /\ refusal = "none"
  BY DEF Work, Placing, Inv, Control, Clean, Sending
<1>2. PICK tokens : tokens = MediaIds(SoftTokens(media), Max({1, Len(media.pictures)}))
  OBVIOUS
<1>3. media \in Decodings /\ answers = <<>> /\ ids = <<tokens>> /\ Len(ids[1]) <= Limit
  BY <1>1, <1>2 DEF MediaSent
<1>4. ids[1] = tokens /\ Len(tokens) <= Limit /\ Len(ids) = 1 /\ Len(answers) = 0
  BY <1>3
<1>5. Prompted(tokens, WorkerRows) /\ WorkerFits(<<tokens>>)
  <2>1. PICK m \in Decodings : m = media
    BY <1>3
  <2>2. tokens = MediaIds(SoftTokens(m), Max({1, Len(m.pictures)}))
    BY <1>2, <2>1
  <2> QED BY <1>1, <1>4, <2>1, <2>2, MediaPrepared
<1>6. layer = 1
  <2>1. Batch \in Nat \ {0}
    BY DEF Agreements, AgreementAssumption
  <2>2. Min({0 + 1 + Batch - 1, 1}) = 1
    BY <2>1, MinOfTwo
  <2>3. BatchEnd(0 + 1) = 1
    BY <1>4, <2>2 DEF BatchEnd
  <2> QED BY <1>1, <1>4, <2>3
<1>7. SubSeq(ids, 0 + 1, layer) = <<tokens>>
  <2>1. ids \in Seq({tokens})
    BY <1>3
  <2>2. PICK items : items = SubSeq(ids, 1, 1)
    OBVIOUS
  <2>3. items \in Seq({tokens}) /\ Len(items) = 1 /\ items[1] = ids[1]
    BY <1>4, <2>1, <2>2
  <2>4. items = <<tokens>>
    BY <1>4, <2>3
  <2>5. SubSeq(ids, 0 + 1, layer) = SubSeq(ids, 1, 1)
    BY <1>6, 0 + 1 = 1, Zenon
  <2> QED BY <2>2, <2>4, <2>5
<1>8. /\ answers' = answers \o [i \in 1 .. 1 - 0 |-> 0 + 1 + i - 1]
      /\ rows' = WorkerRows /\ embeds' = MaskedScatter(ids[1], WorkerRows)
      /\ pc' = "done"
      /\ UNCHANGED <<backend, input, media, ids, refusal>>
  BY <1>4, <1>5, <1>6, <1>7 DEF Work
<1>9. answers' = [i \in 1 .. 1 |-> i]
  <2>1. answers = [i \in 1 .. 0 |-> i]
    BY <1>3
  <2>2. [i \in 1 .. 0 |-> i] \o [i \in 1 .. 1 - 0 |-> 0 + 1 + i - 1] = [i \in 1 .. 1 |-> i]
    BY CountsAre
  <2> QED BY <1>8, <2>1, <2>2
<1>10. Prompted(ids[1], rows)'
  <2>1. ids'[1] = tokens /\ rows' = WorkerRows
    BY <1>4, <1>8
  <2> QED BY <1>5, <1>8, <2>1, PromptedKept
<1>11. Scattered'
  BY <1>8, <1>10 DEF Scattered
<1>12. Clean' /\ OnlyInputRefused' /\ MediaTrue'
  BY <1>1, <1>8 DEF Placing, Clean, OnlyInputRefused, MediaTrue
<1>13. AnswersInOrder'
  BY <1>9 DEF AnswersInOrder
<1>14. AlbumInTower' /\ ClipThrough' /\ PromptFits' /\ Sending'
  BY <1>8 DEF AlbumInTower, ClipThrough, PromptFits, Sending
<1> QED BY <1>11, <1>12, <1>13, <1>14 DEF Placing

LEMMA StutterPlacing ==
  ASSUME Placing, Inv', UNCHANGED vars
  PROVE  Placing'
<1>1. UNCHANGED <<backend, input, pc, media, layer, rows, ids, embeds, answers, refusal>>
  BY DEF vars
<1>2. Clean' /\ AnswersInOrder' /\ OnlyInputRefused' /\ MediaTrue'
  <2>1. InputFits' = InputFits
    BY <1>1, SameCall
  <2> QED BY <1>1, <2>1 DEF Placing, Clean, AnswersInOrder, OnlyInputRefused, MediaTrue
<1>3. AlbumInTower'
  <2>1. SUFFICES ASSUME pc = "tower", input.kind \notin {"texts", "audio"}
                 PROVE  /\ rows' \in Seq(Row)
                        /\ \E n, p, tw, th : /\ Taken(media.pictures, n, p, tw, th)'
                                             /\ layer' \in 0 .. n /\ AlbumRows(rows, layer, p, tw, th)'
    BY <1>1 DEF AlbumInTower
  <2>2. PICK n, p, tw, th : /\ rows \in Seq(Row) /\ Taken(media.pictures, n, p, tw, th)
                            /\ layer \in 0 .. n /\ AlbumRows(rows, layer, p, tw, th)
    BY <2>1 DEF Placing, AlbumInTower
  <2>3. PICK pictures : pictures = media.pictures
    OBVIOUS
  <2>4. Taken(media.pictures, n, p, tw, th)'
    BY <1>1, <2>2, <2>3, TakenKept
  <2>5. AlbumRows(rows, layer, p, tw, th)'
    BY <1>1, <2>2 DEF AlbumRows
  <2> QED BY <1>1, <2>2, <2>4, <2>5
<1>4. ClipThrough'
  BY <1>1 DEF Placing, ClipThrough
<1>5. PromptFits'
  <2>1. InputFits' = InputFits
    BY <1>1, SameCall
  <2>2. CASE pc = "scatter"
    <3>1. Prompted(ids[1], rows) /\ (InputFits => Len(ids[1]) <= MaxTokens)
      BY <2>2 DEF Placing, PromptFits
    <3>2. Prompted(ids[1], rows)'
      BY <1>1, <3>1, PromptedKept
    <3> QED BY <1>1, <2>1, <3>1, <3>2 DEF PromptFits
  <2>3. CASE pc # "scatter"
    BY <1>1, <2>3 DEF PromptFits
  <2> QED BY <2>2, <2>3
<1>6. Scattered'
  BY <1>1, ScatteredKept DEF Placing
<1>7. Sending'
  <2>1. Limit' = Limit /\ Decodings' = Decodings
    BY <1>1, SameCall
  <2>2. SoftTokens(media)' = SoftTokens(media) /\ BatchEnd(Len(answers) + 1)' = BatchEnd(Len(answers) + 1)
    BY <1>1 DEF SoftTokens, BatchEnd
  <2>3. pc \in {"send", "worker"} => TextsSent /\ MediaSent
    BY DEF Placing, Sending
  <2>4. pc \in {"send", "worker"} => TextsSent'
    BY <1>1, <2>1, <2>3 DEF TextsSent, Texts
  <2>5. pc \in {"send", "worker"} => MediaSent'
    BY <1>1, <2>1, <2>2, <2>3 DEF MediaSent
  <2>6. pc = "worker" => layer = BatchEnd(Len(answers) + 1)
    BY DEF Placing, Sending
  <2> QED BY <1>1, <2>2, <2>4, <2>5, <2>6 DEF Sending
<1> QED BY <1>2, <1>3, <1>4, <1>5, <1>6, <1>7 DEF Placing

LEMMA NextPlacing ==
  ASSUME Agreements, Placing, [Next]_vars
  PROVE  Placing'
<1>1. Inv'
  BY NextInv DEF Placing, Agreements
<1>2. CASE Load \/ Accept \/ ReadJpeg \/ Finish
  BY <1>1, <1>2, EarlyPlacing
<1>3. CASE Decode \/ VisionTower \/ AudioSubsample \/ AudioLayer \/ AudioRows \/ Prompt
  BY <1>1, <1>3, DecodePlacing, VisionTowerPlacing, ClipPlacing, PromptPlacing
<1>4. CASE Scatter \/ TextLayer \/ PoolTokens
  BY <1>1, <1>4, ScatterPlacing, LayersPlacing
<1>5. CASE PrepareTexts \/ PrepareMedia \/ Send
  BY <1>1, <1>5, PrepareTextsPlacing, PrepareMediaPlacing, SendPlacing
<1>6. CASE Work
  BY <1>1, <1>6, TextsWorked, MediaWorked
<1>7. CASE Done \/ UNCHANGED vars
  BY <1>1, <1>7, StutterPlacing DEF Done
<1> QED BY <1>2, <1>3, <1>4, <1>5, <1>6, <1>7 DEF Next

LEMMA PlacingInvariance == Spec => []Placing
<1>1. Agreements
  <2>1. Assumptions
    BY KernelAssumption, SpeechAssumption, ImageAssumption, EmbeddingAssumption DEF Assumptions
  <2> QED BY <2>1, AgreementAssumption, DescriptionAssumption DEF Agreements
<1>2. Init => Placing
  BY InitPlacing
<1>3. Placing /\ [Next]_vars => Placing'
  BY <1>1, NextPlacing
<1> QED BY <1>2, <1>3, PTL DEF Spec

(* A call is refused only for what its input is, whatever its backend: the *)
(* counts of prepare.rs are those that native_worker.py checks, the rows   *)
(* of the towers are as many as masked_scatter has placeholders for, and   *)
(* what a limit turns down is over that limit by the input alone.          *)
THEOREM OnlyInputRefusedAlways == Spec => []OnlyInputRefused
<1>1. Placing => OnlyInputRefused
  BY DEF Placing
<1> QED BY <1>1, PlacingInvariance, PTL

LEMMA PlacingRows ==
  ASSUME Agreements, Placing
  PROVE  RowsInPlace
<1>1. /\ media.shown = media.indices
      /\ input.kind = "audio" => media.samples \in {<<>>, input.file.content}
      /\ \A i \in DOMAIN answers : answers[i] = i
  BY DEF Placing, MediaTrue, AnswersInOrder
<1>2. ASSUME embeds # <<>>, NEW i \in Placeholders(ids[1])
      PROVE  LET r == Cardinality({j \in Placeholders(ids[1]) : j <= i})
             IN IF input.kind = "audio" THEN embeds[i].at = r
                ELSE LET soft == media.pictures[1].soft
                     IN /\ embeds[i].at = (r - 1) \div soft + 1
                        /\ CoversItsShare(media.pictures[embeds[i].at].patches, embeds[i].from, (r - 1) % soft)
  <2>1. input \in Inputs
    BY <1>2 DEF Placing, Clean, Inv, Control
  <2>2. Prompted(ids[1], rows) /\ embeds = MaskedScatter(ids[1], rows)
    BY <1>2 DEF Placing, Scattered
  <2> QED BY <1>2, <2>1, <2>2, ScatteredInPlace
<1> QED BY <1>1, <1>2, Zenon DEF RowsInPlace

(* Each soft token shows what belongs at its place: masked_scatter takes   *)
(* the rows in their order, frame for frame and pool for pool; pictures    *)
(* are those of the frames sampled, samples those of the file, and answers *)
(* come in the order of the texts.                                         *)
THEOREM RowsInPlaceAlways == Spec => []RowsInPlace
<1>1. Agreements
  <2>1. Assumptions
    BY KernelAssumption, SpeechAssumption, ImageAssumption, EmbeddingAssumption DEF Assumptions
  <2> QED BY <2>1, AgreementAssumption, DescriptionAssumption DEF Agreements
<1>2. Placing => RowsInPlace
  BY <1>1, PlacingRows
<1> QED BY <1>2, PlacingInvariance, PTL
===============================================================================
