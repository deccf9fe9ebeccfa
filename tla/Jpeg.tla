---------------------------------- MODULE Jpeg ----------------------------------
(***************************************************************************)
(* crates/vqtrs-core/src/embedding_gemma2/jpeg.rs: the scans of a JPEG     *)
(* file, from entropy-coded data to coefficients, baseline and             *)
(* progressive: Decoder::scan, decode_scan and the four decode_*.          *)
(*                                                                         *)
(* The encoder is ITU T.81: it writes any legal data for an image, one     *)
(* symbol with what belongs to it at a time.  A symbol of the Huffman      *)
(* tables is a pair <<run, size>>; appended bits are <<how many, value>>.  *)
(***************************************************************************)
EXTENDS Integers, Sequences, FiniteSetsExt, SequencesExt

CONSTANTS
  Final,     \* the last coefficient of a block (63)
  MaxRun,   \* the longest run of zeros a symbol names (15)
  Picture   \* width, height, factors, progressive, interval, script, image

VARIABLES
  picture,  \* the file: see Legal
  coefs,    \* Component::coefs
  nth,      \* scans done
  pc,       \* where decode_scan is
  scan,     \* the scan it decodes: see Opened
  cur,      \* the block it is at
  k,        \* the coefficient it is at
  eobrun,   \* blocks that have ended with this one
  pred,     \* dc_pred
  data,     \* what the encoder has written and the decoder not read
  out       \* the block and coefficient the encoder is at, the coefficient
            \* -1 with a marker to write before the block

vars == <<picture, coefs, nth, pc, scan, cur, k, eobrun, pred, data, out>>

file == <<picture, nth>>

-------------------------------------------------------------------------------
(* Geometry: parse_frame and the order of decode_scan.                     *)

CeilDiv(a, b) == (a + b - 1) \div b

Hmax(p)  == Max({p.factors[c][1] : c \in DOMAIN p.factors})
Vmax(p)  == Max({p.factors[c][2] : c \in DOMAIN p.factors})
McusX(p) == CeilDiv(p.width, 8 * Hmax(p))
McusY(p) == CeilDiv(p.height, 8 * Vmax(p))

(* Blocks that cover a component, and blocks its buffer has room for.      *)
BlocksX(p, c) == CeilDiv(CeilDiv(p.width * p.factors[c][1], Hmax(p)), 8)
BlocksY(p, c) == CeilDiv(CeilDiv(p.height * p.factors[c][2], Vmax(p)), 8)

Buffer(p) ==
  UNION {{c} \X (0 .. McusX(p) * p.factors[c][1] - 1) \X (0 .. McusY(p) * p.factors[c][2] - 1)
           : c \in DOMAIN p.factors}

(* Units: blocks of a single-component scan, MCUs otherwise.               *)
Single(s)    == Len(s.comps) = 1
UnitsX(p, s) == IF Single(s) THEN BlocksX(p, s.comps[1]) ELSE McusX(p)
UnitsY(p, s) == IF Single(s) THEN BlocksY(p, s.comps[1]) ELSE McusY(p)
H(p, s, c)   == IF Single(s) THEN 1 ELSE p.factors[c][1]
V(p, s, c)   == IF Single(s) THEN 1 ELSE p.factors[c][2]

(* The blocks of one unit: component, column and row.                      *)
Cells(p, s) ==
  FlattenSeq([i \in DOMAIN s.comps |->
    LET c == s.comps[i]
    IN [b \in 1 .. H(p, s, c) * V(p, s, c) |-> <<c, (b - 1) % H(p, s, c), (b - 1) \div H(p, s, c)>>]])

(* All blocks of a scan, with the restart interval each is in.             *)
Blocks(p, s) ==
  LET cells == Cells(p, s)
  IN [b \in 1 .. UnitsX(p, s) * UnitsY(p, s) * Len(cells) |->
       LET u == (b - 1) \div Len(cells)
           x == cells[((b - 1) % Len(cells)) + 1]
       IN [at |-> <<x[1], (u % UnitsX(p, s)) * H(p, s, x[1]) + x[2],
                          (u \div UnitsX(p, s)) * V(p, s, x[1]) + x[3]>>,
           interval |-> IF p.interval = 0 THEN 0 ELSE u \div p.interval]]

(* A restart comes before the first block of every interval but the first. *)
Fresh(s, b) == b > 1 /\ s.order[b].interval # s.order[b - 1].interval

(* A scan as it is decoded.  That of a baseline file has all coefficients, *)
(* at full precision.                                                      *)
Opened(p, s) ==
  IF p.progressive
  THEN [order |-> Blocks(p, s), ss |-> s.ss, se |-> s.se, ah |-> s.ah, al |-> s.al]
  ELSE [order |-> Blocks(p, s), ss |-> 0, se |-> Final, ah |-> 0, al |-> 0]

NoScan == [order |-> <<>>, ss |-> 0, se |-> 0, ah |-> 0, al |-> 0]

-------------------------------------------------------------------------------
(* Numbers.                                                                *)

Pow2[n \in Nat] == IF n = 0 THEN 1 ELSE 2 * Pow2[n - 1]

Abs(x)  == IF x < 0 THEN -x ELSE x
Sign(x) == IF x < 0 THEN -1 ELSE 1
Size(x) == CHOOSE s \in 0 .. 16 : Abs(x) < Pow2[s] /\ (s = 0 \/ Abs(x) >= Pow2[s - 1])

(* The point transforms: DC is shifted, AC is divided toward zero.         *)
Shift(x, al) == x \div Pow2[al]
Point(x, al) == Sign(x) * (Abs(x) \div Pow2[al])

HasBit(x, al) == (x \div Pow2[al]) % 2 = 1

(* receive_extend.                                                         *)
Extend(x, s) == IF s = 0 THEN 0 ELSE IF x < Pow2[s - 1] THEN x - Pow2[s] + 1 ELSE x

(* Its inverse, for the encoder; a size of zero has no bits.               *)
Bits(s, x)   == IF s = 0 THEN <<>> ELSE <<<<s, x>>>>
Magnitude(x) == Bits(Size(x), IF x < 0 THEN x + Pow2[Size(x)] - 1 ELSE x)

-------------------------------------------------------------------------------
(* What a file may be.                                                     *)

(* Scan s has coefficient j of the block at `at`.                          *)
Carries(p, s, at, j) ==
  LET o == Opened(p, s)
  IN j \in o.ss .. o.se /\ \E b \in DOMAIN o.order : o.order[b].at = at

(* Those of the first n scans that do.                                     *)
Carrying(p, n, at, j) == {m \in 1 .. n : Carries(p, p.script[m], at, j)}

(* T.81, B.2.3 and G.1: DC and AC come in scans of their own, AC of one    *)
(* component at a time.  What a first scan has left out of a coefficient   *)
(* comes in refining scans, one bit in each.                               *)
LegalScan(p, n) ==
  LET s == p.script[n]
      o == Opened(p, s)
  IN /\ s.comps # <<>> /\ IsInjective(s.comps)
     /\ o.ss \in 0 .. Final /\ o.se \in o.ss .. Final
     /\ p.progressive => (o.ss = 0 => o.se = 0) /\ (o.ss > 0 => Single(s))
     /\ o.ah > 0 => o.al = o.ah - 1
     /\ \A at \in Buffer(p), j \in 0 .. Final :
          Carries(p, s, at, j) =>
            LET earlier == Carrying(p, n - 1, at, j)
            IN IF o.ah = 0 THEN earlier = {}
               ELSE earlier # {} /\ p.script[Max(earlier)].al = o.ah

LegalFrame(p) ==
  /\ p.width \in Nat \ {0} /\ p.height \in Nat \ {0}
  /\ p.factors \in Seq((1 .. 4) \X (1 .. 4)) /\ p.factors # <<>>
  /\ p.progressive \in BOOLEAN /\ p.interval \in Nat
  /\ p.script \in Seq([comps : Seq(DOMAIN p.factors), ss : Nat, se : Nat, ah : 0 .. 13, al : 0 .. 13])

LegalImage(p) == p.image \in [Buffer(p) -> [0 .. Final -> (1 - Pow2[15]) .. (Pow2[15] - 1)]]

Legal(p) == LegalFrame(p) /\ LegalImage(p) /\ \A n \in DOMAIN p.script : LegalScan(p, n)

ASSUME JpegAssumption ==
  /\ Final \in Nat \ {0} /\ MaxRun \in Nat \ {0}
  /\ \A p \in Picture : Legal(p)

Init ==
  /\ picture \in Picture
  /\ coefs = [at \in Buffer(picture) |-> [j \in 0 .. Final |-> 0]]
  /\ nth = 0 /\ pc = "scan" /\ scan = NoScan
  /\ cur = 1 /\ k = 0 /\ eobrun = 0
  /\ pred = [c \in DOMAIN picture.factors |-> 0]
  /\ data = <<>> /\ out = <<1, 0>>

-------------------------------------------------------------------------------
(* The decoder.                                                            *)

Has(m)  == Len(data) >= m
Skip(m) == data' = SubSeq(data, m + 1, Len(data))
Marker  == <<-1, -1>>

Block == coefs[scan.order[cur].at]

Start ==
  /\ pc = "scan" /\ nth < Len(picture.script)
  /\ scan' = Opened(picture, picture.script[nth + 1])
  /\ cur' = 1 /\ eobrun' = 0
  /\ pred' = [c \in DOMAIN pred |-> 0]
  /\ pc' = "block"
  /\ out' = <<1, scan'.ss>>
  /\ UNCHANGED <<file, coefs, k, data>>

(* The next block, after a restart at the beginning of an interval.        *)
Enter ==
  /\ pc = "block" /\ cur <= Len(scan.order)
  /\ IF Fresh(scan, cur)
     THEN /\ \E i \in DOMAIN data :
               /\ data[i] = Marker /\ \A h \in 1 .. i - 1 : data[h] # Marker
               /\ Skip(i)
          /\ pred' = [c \in DOMAIN pred |-> 0]
          /\ eobrun' = 0
     ELSE UNCHANGED <<data, pred, eobrun>>
  /\ k' = scan.ss
  /\ pc' = IF scan.ss = 0 THEN "dc" ELSE IF scan.ah = 0 THEN "ac" ELSE "refine"
  /\ UNCHANGED <<file, coefs, scan, cur, out>>

(* The scan ends at the next marker that is no restart.                    *)
Finish ==
  /\ pc = "block" /\ cur > Len(scan.order)
  /\ nth' = nth + 1
  /\ pc' = "scan"
  /\ scan' = NoScan /\ cur' = 1 /\ k' = 0
  /\ data' = <<>> /\ out' = <<1, 0>>
  /\ UNCHANGED <<picture, coefs, eobrun, pred>>

NextBlock == cur' = cur + 1 /\ pc' = "block"

Set(j, x) == coefs' = [coefs EXCEPT ![scan.order[cur].at][j] = x]

(* decode_baseline up to its loop, and decode_dc of a first scan.          *)
DcFirst ==
  /\ pc = "dc" /\ scan.ah = 0
  /\ LET s    == data[1][2]
         diff == IF s = 0 THEN 0 ELSE Extend(data[2][2], s)
         c    == scan.order[cur].at[1]
     IN /\ Has(1) /\ (s # 0 => Has(2))
        /\ pred' = [pred EXCEPT ![c] = @ + diff]
        /\ Set(0, (pred[c] + diff) * Pow2[scan.al])
        /\ Skip(IF s = 0 THEN 1 ELSE 2)
  /\ IF picture.progressive
     THEN NextBlock /\ UNCHANGED k
     ELSE pc' = "ac" /\ k' = 1 /\ UNCHANGED cur
  /\ UNCHANGED <<file, scan, eobrun, out>>

DcRefine ==
  /\ pc = "dc" /\ scan.ah > 0
  /\ Has(1)
  /\ Set(0, IF data[1][2] = 1 /\ ~HasBit(Block[0], scan.al)
            THEN Block[0] + Pow2[scan.al] ELSE Block[0])
  /\ Skip(1)
  /\ NextBlock
  /\ UNCHANGED <<file, scan, k, eobrun, pred, out>>

(* Mutant: the bits after the symbol of a run are not read.                *)
RunShort(r) == Pow2[r]

(* Blocks that end with this one; what is added to 2^r is read when r > 0. *)
Run(r) == Pow2[r] + (IF r = 0 THEN 0 ELSE data[2][2])

(* The loops of decode_baseline and decode_ac_first, symbol by symbol: a   *)
(* coefficient after r zeros, a long run of zeros, or the end of the block *)
(* and, in a progressive file, of more blocks.                             *)
Ac ==
  /\ pc = "ac" /\ eobrun = 0 /\ k <= scan.se
  /\ LET r == data[1][1]
         s == data[1][2]
     IN \/ /\ Has(2) /\ s # 0
           /\ Set(k + r, Extend(data[2][2], s) * Pow2[scan.al])
           /\ k' = k + r + 1
           /\ Skip(2)
           /\ UNCHANGED <<cur, pc, eobrun>>
        \/ /\ Has(1) /\ s = 0 /\ r = MaxRun
           /\ k' = k + MaxRun + 1
           /\ Skip(1)
           /\ UNCHANGED <<coefs, cur, pc, eobrun>>
        \/ /\ Has(1) /\ s = 0 /\ r # MaxRun
           /\ IF picture.progressive
              THEN /\ r > 0 => Has(2)
                   /\ eobrun' = Run(r) - 1
                   /\ Skip(IF r = 0 THEN 1 ELSE 2)
              ELSE Skip(1) /\ UNCHANGED eobrun
           /\ NextBlock
           /\ UNCHANGED <<coefs, k>>
  /\ UNCHANGED <<file, scan, pred, out>>

(* The block has ended with an earlier one, or its last coefficient is     *)
(* there.                                                                  *)
AcEnd ==
  /\ pc = "ac"
  /\ eobrun > 0 \/ k > scan.se
  /\ eobrun' = IF eobrun > 0 THEN eobrun - 1 ELSE 0
  /\ NextBlock
  /\ UNCHANGED <<file, coefs, scan, k, pred, data, out>>

(* Mutant: a correction does not mind the sign.                            *)
CorrectUp(x, bit) == IF bit = 1 THEN x + Pow2[scan.al] ELSE x

(* correct, for a coefficient that is there already.                       *)
Correct(x, bit) ==
  IF bit = 1 /\ ~HasBit(x, scan.al) THEN x + Sign(x) * Pow2[scan.al] ELSE x

(* The coefficients from j to m that are there, or are not.                *)
There(j, m) == {l \in j .. m : Block[l] # 0}
Zeros(j, m) == {l \in j .. m : Block[l] = 0}

(* The block with those from k to m corrected by the bits from data[first].*)
Corrected(m, first) ==
  [l \in 0 .. Final |->
    IF l \in There(k, m)
    THEN Correct(Block[l], data[first + Cardinality(There(k, l - 1))][2])
    ELSE Block[l]]

(* decode_ac_refine, symbol by symbol: r zeros are passed over and the     *)
(* coefficients among them corrected; then comes a new one, or a zero of a *)
(* long run.                                                               *)
Refine ==
  /\ pc = "refine" /\ eobrun = 0 /\ k <= scan.se
  /\ Has(1)
  /\ LET r     == data[1][1]
         s     == data[1][2]
         after == IF s # 0 THEN 3 ELSE 2
         stop  == Min({l \in k .. scan.se : Cardinality(Zeros(k, l)) > r} \cup {scan.se + 1})
         olds  == There(k, stop - 1)
         new   == IF data[2][2] = 1 THEN Pow2[scan.al] ELSE -Pow2[scan.al]
     IN \/ /\ s = 0 /\ r # MaxRun /\ (r > 0 => Has(2))
           /\ eobrun' = Run(r)
           /\ Skip(IF r = 0 THEN 1 ELSE 2)
           /\ UNCHANGED <<coefs, k>>
        \/ /\ s # 0 \/ r = MaxRun
           /\ Has(after - 1 + Cardinality(olds))
           /\ coefs' = [coefs EXCEPT ![scan.order[cur].at] =
                         LET c == Corrected(stop - 1, after)
                         IN IF s # 0 THEN [c EXCEPT ![stop] = new] ELSE c]
           /\ k' = stop + 1
           /\ Skip(after - 1 + Cardinality(olds))
           /\ UNCHANGED eobrun
  /\ UNCHANGED <<file, pc, scan, cur, pred, out>>

(* What is left of a block that has ended is corrected.                    *)
RefineEnd ==
  /\ pc = "refine"
  /\ eobrun > 0 \/ k > scan.se
  /\ IF eobrun > 0
     THEN LET olds == There(k, scan.se)
          IN /\ Has(Cardinality(olds))
             /\ coefs' = [coefs EXCEPT ![scan.order[cur].at] = Corrected(scan.se, 1)]
             /\ Skip(Cardinality(olds))
             /\ eobrun' = eobrun - 1
     ELSE UNCHANGED <<coefs, data, eobrun>>
  /\ NextBlock
  /\ UNCHANGED <<file, scan, k, pred, out>>

Decode == Start \/ Enter \/ Finish \/ DcFirst \/ DcRefine \/ Ac \/ AcEnd \/ Refine \/ RefineEnd

-------------------------------------------------------------------------------
(* The encoder.  An operator with arguments `chunk` and `to` says what it  *)
(* may write at a coefficient of a block, and where it is then.            *)

Value(p, s, b, j) == p.image[s.order[b].at][j]

(* It goes on to block b, with a marker when a new interval begins; or to  *)
(* coefficient j, or the block after it.                                   *)
Beginning(s, b) == <<b, IF b <= Len(s.order) /\ Fresh(s, b) THEN -1 ELSE s.ss>>

Onward(s, b, j) == IF j <= s.se THEN <<b, j>> ELSE Beginning(s, b + 1)

(* The last DC value of component c among the first b blocks, in interval  *)
(* g.                                                                      *)
Latest(p, s, c, b, g) ==
  LET same == {d \in 1 .. b : s.order[d].at[1] = c /\ s.order[d].interval = g}
  IN IF same = {} THEN 0 ELSE Shift(Value(p, s, Max(same), 0), s.al)

DcDiff(p, s, b) ==
  Shift(Value(p, s, b, 0), s.al) - Latest(p, s, s.order[b].at[1], b - 1, s.order[b].interval)

Bit(x, al) == <<1, IF HasBit(x, al) THEN 1 ELSE 0>>

WriteDc(p, s, b, chunk, to) ==
  /\ chunk = IF s.ah > 0 THEN <<Bit(Value(p, s, b, 0), s.al)>>
             ELSE <<<<0, Size(DcDiff(p, s, b))>>>> \o Magnitude(DcDiff(p, s, b))
  /\ to = Onward(s, b, 1)

(* The coefficients that the decoder has, and those that are new to it.    *)
Old(p, s, b, j) == s.ah > 0 /\ Point(Value(p, s, b, j), s.ah) # 0
New(p, s, b, j) == ~Old(p, s, b, j) /\ Point(Value(p, s, b, j), s.al) # 0

(* Of those it has, the ones from one place in the scan to another, and    *)
(* the bit more of each, in the order of the scan.                         *)
Before(x, y) == x[1] < y[1] \/ (x[1] = y[1] /\ x[2] < y[2])

Olds(p, s, first, last) ==
  {x \in (DOMAIN s.order) \X (s.ss .. s.se) :
     Old(p, s, x[1], x[2]) /\ ~Before(x, first) /\ ~Before(last, x)}

Corrections(p, s, olds) ==
  [i \in 1 .. Cardinality(olds) |->
    LET x == CHOOSE x \in olds : Cardinality({y \in olds : Before(y, x)}) = i - 1
    IN Bit(Abs(Value(p, s, x[1], x[2])), s.al)]

(* m blocks end here.  Only a progressive file can end several at once.    *)
RunSymbol(m) ==
  LET r == CHOOSE r \in 0 .. MaxRun - 1 : Pow2[r] <= m /\ m < Pow2[r + 1]
  IN <<<<r, 0>>>> \o Bits(r, m - Pow2[r])

Ends(p, s, b) ==
  {m \in 1 .. (IF p.progressive THEN Pow2[MaxRun] - 1 ELSE 1) :
     /\ b + m - 1 <= Len(s.order)
     /\ \A c \in b + 1 .. b + m - 1 :
          /\ s.order[c].interval = s.order[b].interval
          /\ \A j \in s.ss .. s.se : ~New(p, s, c, j)}

(* The end of the block; or a new coefficient, after no more zeros than a  *)
(* symbol can name; or as many zeros and one more, with a new one to come. *)
WriteAc(p, s, b, j, chunk, to) ==
  LET zeros(m)   == Cardinality({l \in j .. m : ~Old(p, s, b, l)})
      olds(c, m) == Corrections(p, s, Olds(p, s, <<b, j>>, <<c, m>>))
      x(l)       == Point(Value(p, s, b, l), s.al)
  IN \/ /\ \A l \in j .. s.se : ~New(p, s, b, l)
        /\ \E m \in Ends(p, s, b) :
             /\ chunk = RunSymbol(m) \o olds(b + m - 1, s.se)
             /\ to = Beginning(s, b + m)
     \/ \E l \in j .. s.se :
          /\ New(p, s, b, l) /\ \A h \in j .. l - 1 : ~New(p, s, b, h)
          /\ zeros(l - 1) <= MaxRun
          /\ chunk = <<<<zeros(l - 1), Size(x(l))>>>> \o Magnitude(x(l)) \o olds(b, l)
          /\ to = Onward(s, b, l + 1)
     \/ \E l \in j .. s.se :
          /\ \A h \in j .. l : ~New(p, s, b, h)
          /\ \E h \in l + 1 .. s.se : New(p, s, b, h)
          /\ ~Old(p, s, b, l) /\ zeros(l) = MaxRun + 1
          /\ chunk = <<<<MaxRun, 0>>>> \o olds(b, l)
          /\ to = <<b, l + 1>>

Write(p, s, b, j, chunk, to) ==
  \/ j = -1 /\ chunk = <<Marker>> /\ to = <<b, s.ss>>
  \/ j = 0 /\ WriteDc(p, s, b, chunk, to)
  \/ j > 0 /\ WriteAc(p, s, b, j, chunk, to)

(* The decoder cannot go on without what comes next.                       *)
Waits ==
  \/ pc = "block" /\ cur <= Len(scan.order) /\ Fresh(scan, cur)
  \/ pc = "dc"
  \/ pc \in {"ac", "refine"} /\ eobrun = 0 /\ k <= scan.se

Encode ==
  /\ Waits /\ data = <<>> /\ out[1] <= Len(scan.order)
  /\ Write(picture, scan, out[1], out[2], data', out')
  /\ UNCHANGED <<file, coefs, pc, scan, cur, k, eobrun, pred>>

-------------------------------------------------------------------------------
Next == Decode \/ Encode

(* decode runs on, and the file is there.                                  *)
Spec == Init /\ [][Next]_vars /\ WF_vars(Next)

-------------------------------------------------------------------------------
(* Properties.                                                             *)

(* The coefficient to the last bit that any of the first n scans has       *)
(* carried.                                                                *)
Precise(p, n, at, j) ==
  LET done == Carrying(p, n, at, j)
      al   == IF p.progressive THEN p.script[Max(done)].al ELSE 0
      x    == p.image[at][j]
  IN IF done = {} THEN 0
     ELSE (IF j = 0 THEN Shift(x, al) ELSE Point(x, al)) * Pow2[al]

(* After each scan every coefficient of the frame is that of the image, to *)
(* the last bit that any scan so far has carried: no symbol, sign or       *)
(* correction has been taken for another one's, whatever runs and end-of-  *)
(* band runs the encoder has chosen and wherever restarts fall.            *)
ScanExact ==
  pc = "scan" =>
    \A at \in Buffer(picture) : \A j \in 0 .. Final : coefs[at][j] = Precise(picture, nth, at, j)

(* The decoder never waits for a bit that is not there and never leaves    *)
(* one that it should have read: legal data are decoded to their end.      *)
FileDecoded == <>(nth = Len(picture.script))
===============================================================================
