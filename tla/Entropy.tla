-------------------------------- MODULE Entropy --------------------------------
(***************************************************************************)
(* crates/vqtrs-core/src/embedding_gemma2/jpeg.rs below its symbols: the   *)
(* Huffman tables, the reader of an entropy-coded segment (`Bits`), its    *)
(* restarts and where a scan ends.                                         *)
(*                                                                         *)
(* A reader r has the position r.pos of the next byte, the bits r.acc that *)
(* are in the register and not taken, and whether it stands at a marker.   *)
(***************************************************************************)
EXTENDS Integers, Sequences, FiniteSetsExt, SequencesExt

CONSTANTS
  ByteBits,   \* bits of a byte (8)
  Register,   \* bits of the register (64)
  MaxLength,  \* the longest code (16)
  Restarts    \* second bytes of restart markers (0xD0 ... 0xD7)

Ones == 2 ^ ByteBits - 1   \* 0xFF

ASSUME EntropyAssumption ==
  /\ {ByteBits, MaxLength} \subseteq Nat \ {0}
  /\ Register >= MaxLength + ByteBits
  /\ Restarts \subseteq 1 .. Ones - 1

Number(bits) == FoldLeft(LAMBDA v, b : 2 * v + b, 0, bits)
Binary(x, n) == [i \in 1 .. n |-> (x \div 2 ^ (n - i)) % 2]

-------------------------------------------------------------------------------
(* Huffman::new: of the codes of each length the largest, or -1, and what  *)
(* leads from a code to its symbol.  parse_dht stores it.                  *)

Huffman(counts, values) ==
  LET before[l \in 1 .. MaxLength] == IF l = 1 THEN 0 ELSE before[l - 1] + counts[l - 1]
      first[l \in 1 .. MaxLength]  == IF l = 1 THEN 0 ELSE 2 * (first[l - 1] + counts[l - 1])
  IN [maxcode   |-> [l \in 1 .. MaxLength |-> IF counts[l] > 0 THEN first[l] + counts[l] - 1 ELSE -1],
      valoffset |-> [l \in 1 .. MaxLength |-> before[l] - first[l]],
      values    |-> values]

-------------------------------------------------------------------------------
(* The reader.                                                             *)

BitsNew(pos) == [pos |-> pos, acc |-> <<>>, hit |-> FALSE]

(* One round of fill: a byte, a stuffed one with its zero, or zeros from   *)
(* the marker on, and from the end of the data.                            *)
FillByte(data, r) ==
  LET put(byte) == r.acc \o Binary(byte, ByteBits)
  IN CASE r.hit \/ r.pos > Len(data) -> [r EXCEPT !.acc = put(0)]
       [] ~ r.hit /\ r.pos <= Len(data) /\ data[r.pos] # Ones ->
            [r EXCEPT !.acc = put(data[r.pos]), !.pos = @ + 1]
       [] OTHER ->
            IF r.pos < Len(data) /\ data[r.pos + 1] = 0
            THEN [r EXCEPT !.acc = put(Ones), !.pos = @ + 2]
            ELSE [r EXCEPT !.acc = put(0), !.hit = TRUE]

Fill(data, r) ==
  FoldLeft(LAMBDA s, i : FillByte(data, s), r,
           [i \in 1 .. (Register - Len(r.acc)) \div ByteBits |-> i])

(* bits(n): what is taken is in `got`.                                     *)
TakeBits(data, r, n) ==
  LET full == IF Len(r.acc) < n THEN Fill(data, r) ELSE r
  IN [r |-> [full EXCEPT !.acc = SubSeq(@, n + 1, Len(@))],
      got |-> Number(SubSeq(full.acc, 1, n))]

(* decode: bit by bit until the code is one of its length.  A code that is *)
(* longer than any is taken for symbol 0.                                  *)
DecodeSymbol(data, r, table) ==
  LET more(s)    == s.l <= MaxLength /\ s.code > table.maxcode[s.l]
      longer(s) ==
        LET b == TakeBits(data, s.r, 1)
        IN [r |-> b.r, code |-> 2 * s.code + b.got, l |-> s.l + 1]
      end == FoldLeft(LAMBDA s, i : IF more(s) THEN longer(s) ELSE s,
                      longer([r |-> r, code |-> 0, l |-> 0]), [i \in 1 .. MaxLength |-> i])
      at  == IF end.l > MaxLength THEN 0 ELSE end.code + table.valoffset[end.l] + 1
  IN [r |-> end.r, got |-> IF at \in DOMAIN table.values THEN table.values[at] ELSE 0]

IsMarker(data, pos, second) == data[pos] = Ones /\ data[pos + 1] \in second

(* The first place from pos on with such a marker, or 0.                   *)
Seek(data, pos, second) ==
  LET there == {p \in pos .. Len(data) - 1 : IsMarker(data, p, second)}
  IN IF there = {} THEN 0 ELSE Min(there)

(* Mutant: the bits before the restart stay in the register.               *)
RestartKeeps(data, r) ==
  LET at == Seek(data, r.pos, Restarts)
  IN [r EXCEPT !.pos = IF at = 0 THEN Max({@, Len(data)}) ELSE at + 2, !.hit = FALSE]

(* restart.                                                                *)
Restart(data, r) ==
  LET at == Seek(data, r.pos, Restarts)
  IN BitsNew(IF at = 0 THEN Max({r.pos, Len(data)}) ELSE at + 2)

(* The end of scan: the first marker that is no restart.                   *)
ScanEnd(data, r) ==
  LET at == Seek(data, r.pos, 1 .. Ones \ Restarts)
  IN IF at = 0 THEN Len(data) + 1 ELSE at

-------------------------------------------------------------------------------
(* A scan of segments, each a list of items: a symbol of the table, or n   *)
(* appended bits that are x.                                               *)

Symbol(v)  == [n |-> 0, x |-> v]
Extra(n, x) == [n |-> n, x |-> x]

ReadItem(data, table, s, item) ==
  LET d == IF item.n = 0 THEN DecodeSymbol(data, s.r, table) ELSE TakeBits(data, s.r, item.n)
  IN [r |-> d.r, got |-> Append(s.got, [item EXCEPT !.x = d.got])]

ReadSegment(data, table, r, segment) ==
  FoldLeft(LAMBDA s, item : ReadItem(data, table, s, item), [r |-> r, got |-> <<>>], segment)

(* The items of two segments with a restart between them, and the end.     *)
ReadScan(data, counts, values, segments) ==
  LET table  == Huffman(counts, values)
      first  == ReadSegment(data, table, BitsNew(1), segments[1])
      second == ReadSegment(data, table, Restart(data, first.r), segments[2])
  IN [got |-> <<first.got, second.got>>, end |-> ScanEnd(data, second.r)]

-------------------------------------------------------------------------------
(* References for the property StreamExact of Embedding: the encoder of    *)
(* ITU T.81.                                                               *)

CodesIn(counts) == FoldLeft(LAMBDA n, c : n + c, 0, counts)

(* The length of the k-th code, and the codes: each the first of its       *)
(* length that continues none before it.                                   *)
LengthOf(counts, k) ==
  CHOOSE l \in 1 .. MaxLength :
    /\ CodesIn( SubSeq(counts, 1, l)) >= k
    /\ CodesIn( SubSeq(counts, 1, l - 1)) < k

NextCode(codes, l) ==
  Binary(Min({x \in 0 .. 2 ^ l - 1 : \A code \in ToSet(codes) : ~ IsPrefix(code, Binary(x, l))}), l)

Codes(counts) ==
  FoldLeft(LAMBDA codes, k : Append(codes, NextCode(codes, LengthOf(counts, k))), <<>>,
           [k \in 1 .. CodesIn(counts) |-> k])

EncodeItem(codes, values, item) ==
  IF item.n > 0 THEN Binary(item.x, item.n)
  ELSE codes[CHOOSE k \in DOMAIN values : values[k] = item.x]

(* A segment is filled up with ones, and a byte of ones followed by zero.  *)
EncodeSegment(codes, values, segment) ==
  LET bits   == FlattenSeq([i \in DOMAIN segment |-> EncodeItem(codes, values, segment[i])])
      length == (Len(bits) + ByteBits - 1) \div ByteBits
      padded == bits \o [i \in 1 .. length * ByteBits - Len(bits) |-> 1]
      byte(i) == Number(SubSeq(padded, (i - 1) * ByteBits + 1, i * ByteBits))
  IN FlattenSeq([i \in 1 .. length |-> IF byte(i) = Ones THEN <<Ones, 0>> ELSE <<byte(i)>>])

(* Two segments, of the first of which `lost` bytes are missing, with      *)
(* `extra` fill bytes before each marker, and what follows the scan.       *)
Marked(extra, second) == [i \in 1 .. extra + 1 |-> Ones] \o <<second>>

Stream(codes, values, segments, lost, extra, other) ==
  LET one   == EncodeSegment(codes, values, segments[1])
      two   == EncodeSegment(codes, values, segments[2])
      body  == SubSeq(one, 1, Len(one) - lost)
               \o Marked(extra, Min(Restarts)) \o two
  IN [data |-> body \o Marked(extra, other) \o <<0, other>>, end |-> Len(body) + 1]
===============================================================================
