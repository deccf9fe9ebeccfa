------------------------------- MODULE MCEmbedding -------------------------------
EXTENDS Embedding

(* A WAV file of n samples: a fmt chunk, another chunk of odd length with  *)
(* its padding if `odd`, then the data, of `width` bytes for each of       *)
(* `channels`; `cut` bytes are missing at its end.                         *)
File(n, channels, odd, rate, cut) ==
  LET align == channels * 2
      fmt   == [valid |-> TRUE, channels |-> channels, rate |-> rate, width |-> 2, align |-> align]
      data  == IF odd THEN 48 ELSE 36
      chunk(id, len) == [id |-> id, len |-> len, fmt |-> fmt]
      end   == data + 8 + n * align
  IN [size |-> end - cut, riff |-> end, rate |-> rate, good |-> cut = 0 /\ channels \in {1, 2},
      chunks |-> [at \in {12, data} \cup (IF odd THEN {36} ELSE {}) |->
        CASE at = 12 -> chunk("fmt", 16) [] at = data -> chunk("data", n * align) [] OTHER -> chunk("other", 3)],
      content |-> [s \in 1 .. n |-> {data + 8 + (s - 1) * align + b : b \in 0 .. align - 1}]]

Text(lengths) == [kind |-> "texts", lengths |-> lengths, bytes |-> lengths, marked |-> FALSE]

(* A file that declares what it holds.                                     *)
Container(total, rate, dims, processor) ==
  [kind |-> "container", size |-> 3, total |-> total, declared |-> total, known |-> {"duration", "count"},
   num |-> rate[1], den |-> rate[2], span |-> total * rate[2], unit |-> rate[1],
   alike |-> TRUE, above |-> FALSE, width |-> dims[1], height |-> dims[2], processor |-> processor]

Frames(total, known, num, span) ==
  [kind |-> "frames", total |-> total, declared |-> total, known |-> known, num |-> num, den |-> 1,
   span |-> span, unit |-> 1, alike |-> TRUE, width |-> 5, height |-> 9, processor |-> TRUE]

Timing == {"rate", "duration"}

(* What is refused of containers and of frames, or just not.               *)
OddContainers ==
  LET file == Container(4, <<3, 2>>, <<7, 5>>, TRUE)
      long == Container(MaxSource, <<4, 3>>, <<7, 5>>, TRUE)
  IN {[file EXCEPT !.size = n] : n \in {0, 1, MaxBytes, MaxBytes + 1}}
     \cup {[file EXCEPT !.known = k] : k \in {{}, {"duration"}, {"count"}}}
     \cup {[file EXCEPT !.declared = n] : n \in {0, MaxSource, MaxSource + 1}}
     \cup {[file EXCEPT !.span = d[1], !.unit = d[2], !.above = a] :
             d \in {<<0, 1>>, <<-1, 2>>, <<1, 0>>, <<MaxSeconds, 1>>, <<2 * MaxSeconds + 1, 2>>, <<26, 3>>, <<27, 3>>},
             a \in BOOLEAN}
     \cup {[file EXCEPT !.num = r[1], !.den = r[2]] : r \in {<<0, 1>>, <<-1, 1>>, <<1, 0>>, <<MaxRate, 1>>, <<7, 2>>}}
     \cup {[file EXCEPT !.total = n] : n \in {0, 1, MaxSource, MaxSource + 1}}
     \cup {[file EXCEPT !.num = 1, !.den = 1, !.total = n] : n \in {MaxSeconds, MaxSeconds + 1}}
     \cup {[file EXCEPT !.num = 1, !.den = 1, !.span = 2 * MaxSeconds + 1, !.unit = 2]}
     \cup {[file EXCEPT !.width = d[1], !.height = d[2]] : d \in {<<0, 0>>, <<10, 10>>, <<11, 10>>}}
     \cup {[file EXCEPT !.alike = FALSE]}
     \cup {[long EXCEPT !.above = a, !.processor = p] : a \in BOOLEAN, p \in BOOLEAN}

OddFrames ==
  LET frames == Frames(4, Timing, 1, 3)
  IN {Frames(n, {}, 0, 0) : n \in {0, MaxSource, MaxSource + 1}}
     \cup {[frames EXCEPT !.declared = 3], [frames EXCEPT !.alike = FALSE]}
     \cup {[frames EXCEPT !.known = k, !.num = r[1], !.den = r[2]] :
             k \in {{"rate"}, Timing}, r \in {<<0, 1>>, <<-1, 1>>, <<1, 0>>, <<MaxRate, 1>>, <<7, 2>>}}
     \cup {[frames EXCEPT !.known = k, !.span = d[1], !.unit = d[2]] :
             k \in {{"duration"}, Timing}, d \in {<<0, 1>>, <<-1, 1>>, <<1, 0>>, <<1, 2>>, <<MaxSeconds, 1>>, <<19, 2>>}}
     \cup {[frames EXCEPT !.width = d[1], !.height = d[2]] : d \in {<<0, 9>>, <<10, 10>>, <<11, 10>>}}

(* A JPEG file.  Blocks have a constant term and three others; quantisers  *)
(* differ.  `markers` are <<jfif, adobe, names>>.                          *)
Coefficients(c, b) ==
  LET i == 3 * b[1] + 5 * b[2] + 7 * c
  IN [k \in 0 .. 63 |->
        (IF k = 0 THEN 40 * ((i % 9) - 4) ELSE 0) + (IF k = 1 + ((17 * i) % 63) THEN 15 ELSE 0)
        + (IF k = (i + 1) % 8 THEN 25 ELSE 0) - (IF k = 8 * ((3 * i) % 8) THEN 20 ELSE 0)]

Jpeg(width, height, factors, markers, colours, scans) ==
  LET f == [width |-> width, height |-> height, factors |-> factors]
  IN [kind |-> "jpeg", width |-> width, height |-> height, factors |-> factors, colours |-> colours,
      jfif |-> markers[1], adobe |-> markers[2], names |-> markers[3],
      coefs |-> [c \in DOMAIN factors |-> [b \in Covering(f, c) |-> Coefficients(c, b)]],
      quant |-> [c \in DOMAIN factors |-> [k \in 0 .. 63 |-> 5 + ((k + c) % 3)]],
      counts |-> scans.counts, values |-> scans.values, scans |-> scans.scans]

NoScans == [counts |-> <<0, 0, 1>>, values |-> <<0>>, scans |-> {}]

(* Scans of up to two items before a restart and one after it.             *)
Scans(counts, values) ==
  LET codes == Codes(counts)
      items == {Symbol(v) : v \in ToSet(values)} \cup {Extra(1, 1), Extra(2, 2), Extra(3, 7)}
  IN [counts |-> counts, values |-> values,
      scans |-> UNION {
        LET s == Stream(codes, values, segments, lost, extra, 2)
        IN {[segments |-> segments, lost |-> lost, data |-> s.data, end |-> s.end]} :
          segments \in BoundedSeq(items, 2) \X BoundedSeq(items, 1), lost \in 0 .. 2, extra \in 0 .. 1}]

Jfif == <<TRUE, <<0>>, "RGB">>

Factors ==
  {<<<<1, 1>>, <<1, 1>>, <<1, 1>>>>, <<<<2, 1>>, <<1, 1>>, <<1, 1>>>>,
   <<<<1, 2>>, <<1, 1>>, <<1, 1>>>>, <<<<2, 2>>, <<1, 1>>, <<2, 1>>>>,
   <<<<4, 1>>, <<1, 1>>, <<2, 1>>>>, <<<<2, 1>>, <<3, 1>>, <<1, 1>>>>}

Jpegs ==
  {Jpeg(d[1], d[2], f, Jfif, "ycc", NoScans) : d \in {<<3, 3>>, <<9, 10>>, <<17, 5>>}, f \in Factors}
  \cup {Jpeg(2, 5, <<<<1, 1>>>>, Jfif, "grey", NoScans)}
  \cup {Jpeg(3, 3, <<<<1, 1>>, <<1, 1>>, <<1, 1>>>>, m[1], m[2], NoScans) :
          m \in {<<<<FALSE, <<0>>, "YCC">>, "rgb">>, <<<<FALSE, <<1>>, "RGB">>, "ycc">>,
                 <<<<FALSE, <<>>, "RGB">>, "rgb">>, <<<<FALSE, <<>>, "YCC">>, "ycc">>}}
  \cup {Jpeg(1, 1, <<<<1, 1>>>>, Jfif, "grey", s) :
          s \in {Scans(<<0, 2, 3>>, <<3, 0, 1, 5, 2>>), Scans(<<1, 1, 1>>, <<2, 3, 1>>)}}

Layers == <<"sliding", "sliding", "full", "sliding">>

Calls ==
  {Text(<<n>>) : n \in 0 .. 23}
  \cup {Text(s) : s \in {<<>>, <<3, 3, 13, 2>>, <<14, 1>>, <<1, 2, 3, 4>>, <<1, 2, 10, 4, 20, 1, 2>>, <<20, 20>>}}
  \cup {[Text(<<4>>) EXCEPT !.marked = TRUE]}
  \cup {[Text(<<4, 3>>) EXCEPT !.bytes = <<n, 3>>] : n \in {MaxText, MaxText + 1}} \cup {[Text(<<4>>) EXCEPT !.bytes = <<MaxText + 1>>]}
  \cup {[kind |-> "image", width |-> w, height |-> h] : w \in {1, 4, 9, 17}, h \in {0, 1, 5, 8, 15}}
  \cup Jpegs
  \cup {Container(n, r, d, p) :
          n \in {1, 4, 7}, r \in {<<1, 1>>, <<1, 2>>, <<3, 2>>, <<4, 3>>}, d \in {<<7, 5>>, <<1, 12>>}, p \in BOOLEAN}
  \cup OddContainers
  \cup {Frames(n, {}, 0, 0) : n \in 1 .. 9} \cup {Frames(5, Timing, 2, 9), Frames(6, Timing, 2, 3)}
  \cup OddFrames
  \cup {[kind |-> "audio", file |-> File(n, 1, FALSE, 16000, 0)] : n \in {0, 2, 3, 7, 14, 23, 40, 41, 60, 61, 65}}
  \cup {[kind |-> "audio", file |-> File(9, c, odd, rate, cut)] :
          c \in 1 .. 3, odd \in BOOLEAN, rate \in {8000, 16000}, cut \in {0, 1}}
===============================================================================
