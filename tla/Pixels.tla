--------------------------------- MODULE Pixels ---------------------------------
(***************************************************************************)
(* crates/vqtrs-core/src/embedding_gemma2/jpeg.rs from coefficients to     *)
(* colours: idct_islow, upsample, ycc_to_rgb and Decoder::finish, and what *)
(* image.rs makes of it.                                                   *)
(*                                                                         *)
(* A file f has a width and a height, factors <<h, v>>, coefficients and a *)
(* quantisation table for each component, and the markers that say which   *)
(* colours it is in.  A plane is a function of <<x, y>>, from 0.           *)
(***************************************************************************)
EXTENDS Integers, Sequences, FiniteSetsExt

(* div_ceil. *)
DivUp(a, b) == (a + b - 1) \div b

HMax(f) == Max({f.factors[c][1] : c \in DOMAIN f.factors})
VMax(f) == Max({f.factors[c][2] : c \in DOMAIN f.factors})

(* Samples of a component, and the blocks that cover them.                 *)
PlaneWidth(f, c)  == DivUp(f.width * f.factors[c][1], HMax(f))
PlaneHeight(f, c) == DivUp(f.height * f.factors[c][2], VMax(f))

Covering(f, c) ==
  (0 .. DivUp(PlaneWidth(f, c), 8) - 1) \X (0 .. DivUp(PlaneHeight(f, c), 8) - 1)

-------------------------------------------------------------------------------
(* Coefficients and quantisers are sent in zig-zag order, and kept by rows. *)

Natural ==
  <<0, 1, 8, 16, 9, 2, 3, 10, 17, 24, 32, 25, 18, 11, 4, 5, 12, 19, 26, 33, 40, 48, 41, 34, 27, 20,
    13, 6, 7, 14, 21, 28, 35, 42, 49, 56, 57, 50, 43, 36, 29, 22, 15, 23, 30, 37, 44, 51, 58, 59,
    52, 45, 38, 31, 39, 46, 53, 60, 61, 54, 47, 55, 62, 63>>

ByRows(sent) ==
  [n \in 0 .. 63 |-> sent[CHOOSE k \in 0 .. 63 : Natural[k + 1] = n]]

(* The inverse transform, in fixed point with 13 bits of fraction.         *)

Descale(x, n) == (x + 2 ^ (n - 1)) \div 2 ^ n

(* The table is addressed with ten bits of x.                              *)
RangeLimitIdct(x) ==
  LET t == x % 1024
  IN CASE t < 128 -> t + 128
       [] t \in 128 .. 511 -> 255
       [] t \in 512 .. 895 -> 0
       [] OTHER -> t - 896

Idct1d(x) ==
  LET z1 == (x[2] + x[6]) * 4433
      p2 == z1 - x[6] * 15137
      p3 == z1 + x[2] * 6270
      p0 == (x[0] + x[4]) * 8192
      p1 == (x[0] - x[4]) * 8192
      z5 == (x[7] + x[3] + x[5] + x[1]) * 9633
      z3 == z5 - (x[7] + x[3]) * 16069
      z4 == z5 - (x[5] + x[1]) * 3196
      y1 == (x[7] + x[1]) * 7373
      y2 == (x[5] + x[3]) * 20995
      a0 == x[7] * 2446 - y1 + z3
      a1 == x[5] * 16819 - y2 + z4
      a2 == x[3] * 25172 - y2 + z3
      a3 == x[1] * 12299 - y1 + z4
      even == <<p0 + p3, p1 + p2, p1 - p2, p0 - p3>>
      odd  == <<a3, a2, a1, a0>>
  IN [n \in 0 .. 7 |-> IF n < 4 THEN even[n + 1] + odd[n + 1] ELSE even[8 - n] - odd[8 - n]]

(* A pass over a column or a row; one with nothing but its first value is  *)
(* not transformed.                                                        *)
Column(x) ==
  IF \A r \in 1 .. 7 : x[r] = 0 THEN [r \in 0 .. 7 |-> x[0] * 4]
  ELSE LET v == Idct1d(x) IN [r \in 0 .. 7 |-> Descale(v[r], 11)]

RowOfBlock(x) ==
  IF \A r \in 1 .. 7 : x[r] = 0 THEN [r \in 0 .. 7 |-> RangeLimitIdct(Descale(x[0], 5))]
  ELSE LET v == Idct1d(x) IN [r \in 0 .. 7 |-> RangeLimitIdct(Descale(v[r], 18))]

IdctIslow(coef, q) ==
  LET value == [n \in 0 .. 63 |-> coef[n] * q[n]]
      ws    == [col \in 0 .. 7 |-> Column([r \in 0 .. 7 |-> value[8 * r + col]])]
  IN [row \in 0 .. 7 |-> RowOfBlock([col \in 0 .. 7 |-> ws[col][row]])]

(* What the decoder keeps of the file: qt and the components' coefs.       *)
Frame(f) ==
  [qt    |-> [c \in DOMAIN f.factors |-> ByRows(f.quant[c])],
   coefs |-> [c \in DOMAIN f.factors |-> [b \in Covering(f, c) |-> ByRows(f.coefs[c][b])]]]

IdctPlane(f, frame, c) ==
  LET block == [b \in Covering(f, c) |-> IdctIslow(frame.coefs[c][b], frame.qt[c])]
  IN [p \in (0 .. 8 * DivUp(PlaneWidth(f, c), 8) - 1) \X (0 .. 8 * DivUp(PlaneHeight(f, c), 8) - 1) |->
        block[<<p[1] \div 8, p[2] \div 8>>][p[2] % 8][p[1] % 8]]

-------------------------------------------------------------------------------
(* Upsampling.  Rows above and below the image repeat its first and last.  *)

Clamp(x, low, high) == IF x < low THEN low ELSE IF x > high THEN high ELSE x

SampleRow(f, c, plane, y) ==
  LET at == Clamp(y, 0, PlaneHeight(f, c) - 1)
  IN [x \in 0 .. PlaneWidth(f, c) - 1 |-> plane[<<x, at>>]]

(* Mutant: the other row is always the one below.                          *)
MixedBelow(f, c, plane, y) ==
  LET near == SampleRow(f, c, plane, y \div 2)
      far  == SampleRow(f, c, plane, (y \div 2) + 1)
  IN [x \in DOMAIN near |-> 3 * near[x] + far[x]]

(* v2_rows: near three times, and the row above or below it once.          *)
Mixed(f, c, plane, y) ==
  LET near == SampleRow(f, c, plane, y \div 2)
      far  == SampleRow(f, c, plane, IF y % 2 = 0 THEN (y \div 2) - 1 ELSE (y \div 2) + 1)
  IN [x \in DOMAIN near |-> 3 * near[x] + far[x]]

(* h2_fancy and h2v2_fancy: the same for columns, where an edge is its own *)
(* neighbour, rounded by one bias for even columns and another for odd.    *)
Fancy(s, unit, even, odd) ==
  LET n == Cardinality(DOMAIN s)
  IN [x \in 0 .. 2 * n - 1 |->
        LET i == x \div 2
        IN IF x % 2 = 0 THEN (3 * s[i] + s[Clamp(i - 1, 0, n - 1)] + even) \div unit
           ELSE (3 * s[i] + s[Clamp(i + 1, 0, n - 1)] + odd) \div unit]

UpsampleRow(f, c, plane, y) ==
  LET h == f.factors[c][1]
      v == f.factors[c][2]
  IN CASE h = HMax(f) /\ v = VMax(f) -> SampleRow(f, c, plane, y)
       [] 2 * h = HMax(f) /\ v = VMax(f) /\ PlaneWidth(f, c) > 2 ->
            Fancy(SampleRow(f, c, plane, y), 4, 1, 2)
       [] h = HMax(f) /\ 2 * v = VMax(f) ->
            LET m == Mixed(f, c, plane, y)
            IN [x \in DOMAIN m |-> (m[x] + (IF y % 2 = 0 THEN 1 ELSE 2)) \div 4]
       [] 2 * h = HMax(f) /\ 2 * v = VMax(f) /\ PlaneWidth(f, c) > 2 ->
            Fancy(Mixed(f, c, plane, y), 16, 8, 7)
       [] OTHER ->
            LET src == SampleRow(f, c, plane, y \div (VMax(f) \div v))
            IN [x \in 0 .. f.width - 1 |-> src[x \div (HMax(f) \div h)]]

(* Factors that do not divide the largest are left to the other decoder.   *)
Supported(f) ==
  \A c \in DOMAIN f.factors : HMax(f) % f.factors[c][1] = 0 /\ VMax(f) % f.factors[c][2] = 0

Upsample(f, c, plane) ==
  LET row == [y \in 0 .. f.height - 1 |-> UpsampleRow(f, c, plane, y)]
  IN [p \in (0 .. f.width - 1) \X (0 .. f.height - 1) |-> row[p[2]][p[1]]]

-------------------------------------------------------------------------------
(* Colours.                                                                *)

(* ycc_to_rgb, with 16 bits of fraction.                                   *)
YccToRgb(y, cb, cr) ==
  LET byte(x) == Clamp(y + (x + 32768) \div 65536, 0, 255)
  IN <<byte(91881 * (cr - 128)),
       byte(-22554 * (cb - 128) - 46802 * (cr - 128)),
       byte(116130 * (cb - 128))>>

(* A JFIF file is YCbCr; else an Adobe marker says, or the names of the    *)
(* components.                                                             *)
RgbInput(f) ==
  /\ ~ f.jfif
  /\ IF f.adobe = <<>> THEN f.names = "RGB" ELSE f.adobe[1] = 0

(* finish and decode_rgb: grey is replicated.                              *)
Pixel(f, full, p) ==
  CASE Len(full) = 1 -> <<full[1][p], full[1][p], full[1][p]>>
    [] Len(full) # 1 /\ RgbInput(f) -> <<full[1][p], full[2][p], full[3][p]>>
    [] OTHER -> YccToRgb(full[1][p], full[2][p], full[3][p])

FinishJpeg(f, frame) ==
  LET planes == [c \in DOMAIN f.factors |-> IdctPlane(f, frame, c)]
      full   == [c \in DOMAIN f.factors |-> Upsample(f, c, planes[c])]
  IN [planes |-> planes, full |-> full,
      data |-> [p \in DOMAIN full[1] |-> Pixel(f, full, p)]]

-------------------------------------------------------------------------------
(* References for the property SamplesExact of Embedding.                  *)

(* sqrt(2) * cos(j * pi / 16), times 2^13 and 2^9; 1 for j = 0 of the      *)
(* constant term.                                                          *)
Cosines13 == <<11585, 11363, 10703, 9633, 8192, 6436, 4433, 2260, 0>>
Cosines9  == <<724, 710, 669, 602, 512, 402, 277, 141, 0>>

CosineOf(table, j) ==
  LET k == IF j % 32 > 16 THEN 32 - (j % 32) ELSE j % 32
  IN IF k <= 8 THEN table[k + 1] ELSE -table[17 - k]

Weight(table, one, n, k) == IF k = 0 THEN one ELSE CosineOf(table, (2 * n + 1) * k)

Near(a, b, d) == a - b \in -d .. d

(* The butterflies of idct_1d are the cosine transform: each unit impulse  *)
(* comes out as its basis function, to the precision of the constants.     *)
BasisExact ==
  \A k \in 0 .. 7 :
    LET v == Idct1d([j \in 0 .. 7 |-> IF j = k THEN 1 ELSE 0])
    IN \A n \in 0 .. 7 : Near(v[n], Weight(Cosines13, 8192, n, k), 2)

(* Cell x, y of a block, with its turn in a walk that goes down the odd    *)
(* diagonals and up the even ones.                                         *)
Walk ==
  LET cells == (0 .. 7) \X (0 .. 7)
      before(a, b) == \/ a[1] + a[2] < b[1] + b[2]
                      \/ a[1] + a[2] = b[1] + b[2] /\ IF (a[1] + a[2]) % 2 = 1 THEN a[2] < b[2] ELSE a[2] > b[2]
  IN {[x |-> b[1], y |-> b[2], k |-> Cardinality({a \in cells : before(a, b)})] : b \in cells}

(* A block by the definition of the transform, and clamped.                *)
ExactSample(there, coef, q, x, y) ==
  LET total == FoldSet(LAMBDA t, sum : sum + coef[t.k] * q[t.k] * Weight(Cosines9, 512, x, t.x)
                                             * Weight(Cosines9, 512, y, t.y), 0, there)
  IN Clamp(128 + ((total + 2 ^ 20) \div 2 ^ 21), 0, 255)

PlanesExact(f, planes) ==
  LET walk == Walk
  IN /\ \A t \in walk : ByRows([k \in 0 .. 63 |-> k])[8 * t.y + t.x] = t.k
     /\ \A c \in DOMAIN planes : \A b \in Covering(f, c) :
          LET coef  == f.coefs[c][b]
              there == {t \in walk : coef[t.k] # 0}
          IN \A x, y \in 0 .. 7 :
               Near(planes[c][<<8 * b[1] + x, 8 * b[2] + y>>],
                    ExactSample(there, coef, f.quant[c], x, y), 1)

(* How much of input sample i is in output x, in quarters: the triangle of *)
(* linear interpolation between the centres, or the sample above x.        *)
Share(smooth, ratio, i, x) ==
  IF smooth /\ ratio = 2
  THEN LET d == 4 * i - 2 * x + 1 IN Max({0, 4 - (IF d < 0 THEN -d ELSE d)})
  ELSE IF i = x \div ratio THEN 4 ELSE 0

(* Every sample is the interpolation of the samples of the image, and of   *)
(* no padding of its blocks, rounded.                                      *)
FullExact(f, planes, full) ==
  \A c \in DOMAIN full :
    LET w == PlaneWidth(f, c)
        h == PlaneHeight(f, c)
        hx == HMax(f) \div f.factors[c][1]
        vx == VMax(f) \div f.factors[c][2]
        smooth == hx <= 2 /\ vx <= 2 /\ (hx = 2 => w > 2)
        around(x, r) == (x \div r) - 1 .. (x \div r) + 1
    IN \A p \in (0 .. f.width - 1) \X (0 .. f.height - 1) :
         LET exact == MapThenSumSet(LAMBDA q : Share(smooth, hx, q[1], p[1])
                                              * Share(smooth, vx, q[2], p[2])
                                              * planes[c][Clamp(q[1], 0, w - 1), Clamp(q[2], 0, h - 1)],
                                    around(p[1], hx) \X around(p[2], vx))
         IN Near(16 * full[c][p], exact, 8)

(* A colour is that of ITU T.871, rounded; grey stays grey.                *)
ColourExact(y, cb, cr, rgb) ==
  LET exact == <<100000 * y + 140200 * (cr - 128),
                 100000 * y - 34414 * (cb - 128) - 71414 * (cr - 128),
                 100000 * y + 177200 * (cb - 128)>>
  IN \A i \in 1 .. 3 :
       \/ Near(100000 * rgb[i], exact[i], 50200)
       \/ rgb[i] = 0 /\ exact[i] < 0
       \/ rgb[i] = 255 /\ exact[i] > 25500000
===============================================================================
