------------------------------- MODULE JpegProofs -------------------------------
(***************************************************************************)
(* Proofs about Jpeg for every length of a block and of a run of zeros,    *)
(* every frame and script of scans, every image, and every choice the      *)
(* encoder makes.                                                          *)
(***************************************************************************)
EXTENDS Jpeg, SequenceTheorems, FiniteSetTheorems, TLAPS

-------------------------------------------------------------------------------
(* The inductive invariant.                                                *)

(* The blocks of a scan s as scans are.                                    *)
IsScan(p, n, s) == n \in DOMAIN p.script /\ s = Opened(p, p.script[n])

(* A coefficient to bit al; what scan s makes of coefficient j of block b, *)
(* and what it was before.                                                 *)
Approx(x, j, al) == (IF j = 0 THEN Shift(x, al) ELSE Point(x, al)) * Pow2[al]

Becomes(p, s, b, j) == Approx(Value(p, s, b, j), j, s.al)
Was(p, s, b, j)     == IF s.ah = 0 THEN 0 ELSE Approx(Value(p, s, b, j), j, s.ah)

(* The decoder is at coefficient m of block c of scan s: it has made those *)
(* before what the scan makes them, and the others are what they were.     *)
Made(p, s, c, m, x) ==
  \A b \in DOMAIN s.order : \A j \in s.ss .. s.se :
    x[s.order[b].at][j] = IF b < c \/ (b = c /\ j < m) THEN Becomes(p, s, b, j) ELSE Was(p, s, b, j)

(* The coefficients that the scan does not carry.                          *)
Kept(p, n, x) ==
  \A at \in Buffer(p) : \A j \in 0 .. Final :
    ~Carries(p, p.script[n + 1], at, j) => x[at][j] = Precise(p, n, at, j)

(* The predictions are the last DC values of interval g in the first b     *)
(* blocks.                                                                 *)
Predicted(p, s, b, g, x) == \A c \in DOMAIN p.factors : x[c] = Latest(p, s, c, b, g)

(* m blocks have ended, the first of them, b, at coefficient j.            *)
Ended(p, s, b, j, m) ==
  /\ b + m - 1 <= Len(s.order)
  /\ \A l \in j .. s.se : m > 0 => ~New(p, s, b, l)
  /\ \A c \in b + 1 .. b + m - 1 :
       /\ s.order[c].interval = s.order[b].interval
       /\ \A l \in s.ss .. s.se : ~New(p, s, c, l)

(* What is written is the bits that the coefficients in olds want.         *)
Rank(olds, x) == Cardinality({y \in olds : Before(y, x)})

Holds(p, s, olds, d) ==
  /\ Len(d) = Cardinality(olds)
  /\ \A x \in olds : d[Rank(olds, x) + 1] = Bit(Abs(Value(p, s, x[1], x[2])), s.al)

(* The encoder is past m blocks that end at coefficient j of block b.      *)
Underway(p, s, b, j, m, d, to) ==
  /\ Ended(p, s, b, j, m)
  /\ Holds(p, s, Olds(p, s, <<b, j>>, <<b + m - 1, s.se>>), d)
  /\ to = Beginning(s, b + m)

(* Between two blocks.                                                     *)
Between(p, s, b, m, d, to) ==
  \/ /\ Underway(p, s, b, s.ss, m, d, to)
     /\ m > 0 => b > 1 /\ s.order[b].interval = s.order[b - 1].interval
  \/ /\ b <= Len(s.order) /\ Fresh(s, b) /\ m = 0
     /\ d = <<Marker>> /\ to = <<b, s.ss>>

(* Within one.                                                             *)
Within(p, s, b, j, m, d, to) ==
  \/ m > 0 /\ Underway(p, s, b, j, m, d, to)
  \/ m = 0 /\ j <= s.se /\ d = <<>> /\ to = <<b, j>>
  \/ m = 0 /\ j <= s.se /\ Write(p, s, b, j, d, to)
  \/ m = 0 /\ j = s.se + 1 /\ d = <<>> /\ to = Beginning(s, b + 1)

Inside == {"dc", "ac", "refine"}

Place ==
  /\ pc = "block" => cur \in 1 .. Len(scan.order) + 1
  /\ pc \in Inside =>
       /\ cur \in 1 .. Len(scan.order)
       /\ k \in scan.ss .. scan.se + 1
  /\ pc = "dc" => k = 0
  /\ pc # "scan" /\ scan.ss = 0 => eobrun = 0
  /\ pc \in {"ac", "refine"} => k > 0
  /\ pc = "ac" => scan.ah = 0 /\ (scan.ss > 0 \/ ~picture.progressive)
  /\ pc = "refine" => scan.ah > 0 /\ scan.ss > 0

TypeOK ==
  /\ picture \in Picture
  /\ nth \in 0 .. Len(picture.script)
  /\ pc \in {"scan", "block"} \cup Inside
  /\ coefs \in [Buffer(picture) -> [0 .. Final -> Int]]
  /\ cur \in Nat \ {0} /\ k \in Nat /\ eobrun \in Nat
  /\ pred \in [DOMAIN picture.factors -> Int]
  /\ data \in Seq(Int \X Int)
  /\ pc = "scan" => scan = NoScan /\ data = <<>>
  /\ pc # "scan" => IsScan(picture, nth + 1, scan)

Foreseen ==
  scan.ss = 0 /\ scan.ah = 0 =>
    /\ pc = "block" /\ cur = 1 => \A c \in DOMAIN picture.factors : pred[c] = 0
    /\ pc = "block" /\ cur > 1 => Predicted(picture, scan, cur - 1, scan.order[cur - 1].interval, pred)
    /\ pc = "dc" => Predicted(picture, scan, cur - 1, scan.order[cur].interval, pred)
    /\ pc = "ac" => Predicted(picture, scan, cur, scan.order[cur].interval, pred)

Filled ==
  /\ pc = "scan" => \A at \in Buffer(picture) : \A j \in 0 .. Final :
                      coefs[at][j] = Precise(picture, nth, at, j)
  /\ pc # "scan" => /\ Made(picture, scan, cur, IF pc \in Inside THEN k ELSE 0, coefs)
                    /\ Kept(picture, nth, coefs)

Agreed ==
  /\ pc = "block" => Between(picture, scan, cur, eobrun, data, out)
  /\ pc \in Inside => Within(picture, scan, cur, k, eobrun, data, out)

IInv == TypeOK /\ Place /\ Filled /\ Foreseen /\ Agreed

-------------------------------------------------------------------------------
(* Induction and recursion over the natural numbers.                       *)

LEMMA Induction ==
  ASSUME NEW T \in SUBSET Nat, 0 \in T, \A n \in T : n + 1 \in T
  PROVE  T = Nat
<1> SUFFICES ASSUME Nat \ T # {} PROVE FALSE
  OBVIOUS
<1>1. IsWellFoundedOn(OpToRel(<, Nat), Nat)
  BY NatLessThanWellFounded
<1>2. PICK m \in Nat \ T : \A n \in Nat \ T : ~ (<<n, m>> \in OpToRel(<, Nat))
  <2>1. Nat \ T \subseteq Nat
    OBVIOUS
  <2> QED BY <1>1, <2>1, WFMin
<1>3. m # 0 /\ m - 1 \in Nat /\ m - 1 < m
  OBVIOUS
<1>4. m - 1 \in T
  BY <1>2, <1>3 DEF OpToRel
<1>5. (m - 1) + 1 \in T
  BY <1>4
<1> QED BY <1>5

(* What starts with base and goes on by step is there up to every n.       *)
Iterates(g, A, base, step, n) ==
  /\ g \in [0 .. n -> A]
  /\ g[0] = base
  /\ \A i \in 1 .. n : g[i] = step[<<g[i - 1], i>>]

LEMMA Recursion ==
  ASSUME NEW A, NEW base \in A, NEW step \in [A \X Nat -> A], NEW n \in Nat
  PROVE  \E g : Iterates(g, A, base, step, n)
<1> DEFINE Up(m) == \E g : Iterates(g, A, base, step, m)
           T == {m \in Nat : Up(m)}
<1>1. 0 \in T
  <2> DEFINE g == [i \in 0 .. 0 |-> base]
  <2>1. g \in [0 .. 0 -> A] /\ g[0] = base /\ 1 .. 0 = {}
    OBVIOUS
  <2> HIDE DEF g
  <2>2. Iterates(g, A, base, step, 0)
    BY <2>1 DEF Iterates
  <2> QED BY <2>2
<1>2. ASSUME NEW m \in T PROVE m + 1 \in T
  <2>0. PICK g : Iterates(g, A, base, step, m)
    OBVIOUS
  <2>1. /\ g \in [0 .. m -> A] /\ g[0] = base
        /\ \A i \in 1 .. m : g[i] = step[<<g[i - 1], i>>]
    BY <2>0 DEF Iterates
  <2> DEFINE last == step[<<g[m], m + 1>>]
             h == [i \in 0 .. m + 1 |-> IF i <= m THEN g[i] ELSE last]
  <2>2. m \in Nat /\ g[m] \in A /\ last \in A
    BY <2>1
  <2> HIDE DEF last
  <2>3. h \in [0 .. m + 1 -> A]
    BY <2>1, <2>2
  <2>4. ASSUME NEW i \in 1 .. m + 1 PROVE h[i] = step[<<h[i - 1], i>>]
    <3>1. CASE i <= m
      <4>1. h[i] = g[i] /\ h[i - 1] = g[i - 1] /\ i \in 1 .. m
        BY <3>1, <2>2
      <4> QED BY <2>1, <4>1
    <3>2. CASE i = m + 1
      <4>1. h[i] = last /\ h[i - 1] = g[m]
        BY <3>2, <2>2
      <4> QED BY <4>1, <3>2 DEF last
    <3> QED BY <3>1, <3>2, <2>2
  <2>5. h[0] = base
    <3>1. 0 \in 0 .. m + 1 /\ 0 <= m
      BY <2>2
    <3> QED BY <2>1, <3>1
  <2> HIDE DEF h
  <2>6. Iterates(h, A, base, step, m + 1)
    BY <2>3, <2>4, <2>5 DEF Iterates
  <2>7. m + 1 \in Nat
    BY <2>2
  <2> QED BY <2>6, <2>7
<1>3. T = Nat
  <2> HIDE DEF T
  <2>1. T \in SUBSET Nat
    BY DEF T
  <2> QED BY <1>1, <1>2, <2>1, Induction
<1> QED BY <1>3

-------------------------------------------------------------------------------
(* Numbers.                                                                *)

LEMMA Division ==
  ASSUME NEW a \in Nat, NEW b \in Nat \ {0}
  PROVE  /\ a \div b \in Nat
         /\ (a \div b) * b <= a
         /\ a < (a \div b) * b + b
OBVIOUS

LEMMA Remainder ==
  ASSUME NEW a \in Nat, NEW b \in Nat \ {0}
  PROVE  /\ a \div b \in Nat
         /\ a % b \in 0 .. b - 1
         /\ a = (a \div b) * b + (a % b)
OBVIOUS

LEMMA PlaceUnique ==
  ASSUME NEW w \in Nat, NEW r \in Int, NEW q \in Int, NEW c \in 1 .. w, NEW e \in 1 .. w,
         (r - 1) * w + c = (q - 1) * w + e
  PROVE  r = q /\ c = e
<1>1. (r - q) * w = e - c
  <2>1. (r - 1) * w - (q - 1) * w = (r - q) * w
    OBVIOUS
  <2>2. (r - 1) * w \in Int /\ (q - 1) * w \in Int /\ (r - q) * w \in Int
    OBVIOUS
  <2> QED BY <2>1, <2>2
<1>2. CASE r - q >= 1
  <2>1. (r - q) * w >= w
    BY <1>2
  <2>2. (r - q) * w \in Int
    OBVIOUS
  <2> QED BY <2>1, <2>2, <1>1
<1>3. CASE r - q <= -1
  <2>1. (r - q) * w <= -w
    BY <1>3
  <2>2. (r - q) * w \in Int
    OBVIOUS
  <2> QED BY <2>1, <2>2, <1>1
<1>4. CASE r = q
  BY <1>4
<1> QED BY <1>2, <1>3, <1>4

LEMMA QuotientIs ==
  ASSUME NEW d \in Nat \ {0}, NEW q \in Nat, NEW r \in 0 .. d - 1
  PROVE  (q * d + r) \div d = q /\ (q * d + r) % d = r
<1>1. PICK a : a = q * d + r
  OBVIOUS
<1>2. a \in Nat
  <2>1. q * d \in Nat
    OBVIOUS
  <2> QED BY <1>1, <2>1
<1>3. PICK u, v : u = a \div d /\ v = a % d
  OBVIOUS
<1>4. u \in Nat /\ v \in 0 .. d - 1 /\ a = u * d + v
  BY <1>2, <1>3, Remainder
<1>5. ((u + 1) - 1) * d + (v + 1) = ((q + 1) - 1) * d + (r + 1)
  <2>1. u * d \in Nat /\ q * d \in Nat
    BY <1>4
  <2>2. (u + 1) - 1 = u /\ (q + 1) - 1 = q
    BY <1>4
  <2> QED BY <1>1, <1>4, <2>1, <2>2
<1>6. PICK m, n : m = u + 1 /\ n = q + 1
  OBVIOUS
<1>7. m \in Int /\ n \in Int /\ v + 1 \in 1 .. d /\ r + 1 \in 1 .. d /\ (m - 1) * d + (v + 1) = (n - 1) * d + (r + 1)
  BY <1>4, <1>5, <1>6
<1>8. m = n /\ v + 1 = r + 1
  BY <1>7, PlaceUnique
<1> QED BY <1>1, <1>3, <1>4, <1>6, <1>8

LEMMA Cancel ==
  ASSUME NEW d \in Nat \ {0}, NEW a \in Int, NEW b \in Int, a * d < b * d
  PROVE  a < b
<1>1. CASE a >= b
  <2>1. (a - b) * d >= 0
    <3>1. a - b \in Nat
      BY <1>1
    <3>2. (a - b) * d \in Nat
      BY <3>1
    <3> QED BY <3>2
  <2>2. (a - b) * d = a * d - b * d /\ a * d \in Int /\ b * d \in Int
    OBVIOUS
  <2> QED BY <2>1, <2>2
<1> QED BY <1>1

LEMMA Floor ==
  ASSUME NEW a \in Int, NEW b \in Nat \ {0}
  PROVE  a \div b \in Int /\ (a \div b) * b <= a /\ a < (a \div b) * b + b
OBVIOUS

LEMMA MinIn ==
  ASSUME NEW T \in SUBSET Nat, T # {}
  PROVE  Min(T) \in T /\ \A n \in T : Min(T) <= n
<1>1. IsWellFoundedOn(OpToRel(<, Nat), Nat)
  BY NatLessThanWellFounded
<1>2. PICK m \in T : \A n \in T : ~ (<<n, m>> \in OpToRel(<, Nat))
  BY <1>1, WFMin
<1>3. \A n \in T : ~ (n < m)
  BY <1>2 DEF OpToRel
<1>4. \A n \in T : m <= n
  BY <1>3
<1> QED BY <1>4 DEF Min

LEMMA MaxIs ==
  ASSUME NEW S \in SUBSET Int, NEW m \in S, \A s \in S : s <= m
  PROVE  Max(S) = m
<1>1. \A x \in S : (\A y \in S : x >= y) <=> x = m
  OBVIOUS
<1>2. PICK c : c = Max(S)
  OBVIOUS
<1>3. c \in S /\ \A y \in S : c >= y
  BY <1>2 DEF Max
<1> QED BY <1>1, <1>2, <1>3

LEMMA QuotientGrows ==
  ASSUME NEW d \in Nat \ {0}, NEW a \in Nat, NEW b \in Nat, a <= b
  PROVE  a \div d \in Nat /\ b \div d \in Nat /\ a \div d <= b \div d
<1>1. PICK p, q : p = a \div d /\ q = b \div d
  OBVIOUS
<1>2. p \in Nat /\ p * d <= a /\ q \in Nat /\ b < q * d + d
  BY <1>1, Division
<1>3. p * d < (q + 1) * d
  <2>1. (q + 1) * d = q * d + d /\ q * d \in Nat /\ p * d \in Nat
    BY <1>2
  <2> QED BY <1>2, <2>1
<1>4. p < q + 1
  <2>1. p \in Int /\ q + 1 \in Int
    BY <1>2
  <2> QED BY <1>3, <2>1, Cancel
<1> QED BY <1>1, <1>2, <1>4

LEMMA CeilDivReaches ==
  ASSUME NEW d \in Nat \ {0}, NEW a \in Nat
  PROVE  CeilDiv(a, d) * d >= a
<1>1. PICK x, q : x = a + d - 1 /\ q = x \div d
  OBVIOUS
<1>2. x \in Nat
  BY <1>1
<1>3. q \in Nat /\ x < q * d + d
  BY <1>1, <1>2, Division
<1>4. PICK z : z = q * d
  OBVIOUS
<1>5. z \in Nat /\ x < z + d
  BY <1>3, <1>4
<1>6. z >= a
  BY <1>1, <1>5
<1> QED BY <1>1, <1>4, <1>6 DEF CeilDiv

(* Two beginnings of one recursion agree.                                  *)
LEMMA IteratesAgree ==
  ASSUME NEW A, NEW base, NEW step, NEW m \in Nat, NEW n \in Nat, NEW g, NEW h,
         Iterates(g, A, base, step, m), Iterates(h, A, base, step, n)
  PROVE  \A i \in Nat : i <= m /\ i <= n => g[i] = h[i]
<1> DEFINE T == {i \in Nat : i <= m /\ i <= n => g[i] = h[i]}
<1>1. 0 \in T
  BY DEF Iterates
<1>2. ASSUME NEW i \in T PROVE i + 1 \in T
  <2>1. CASE i + 1 <= m /\ i + 1 <= n
    <3>1. g[i] = h[i] /\ i + 1 \in 1 .. m /\ i + 1 \in 1 .. n /\ (i + 1) - 1 = i
      BY <2>1
    <3>2. g[i + 1] = step[<<g[i], i + 1>>] /\ h[i + 1] = step[<<h[i], i + 1>>]
      BY <3>1 DEF Iterates
    <3> QED BY <3>1, <3>2
  <2>2. CASE ~(i + 1 <= m /\ i + 1 <= n)
    BY <2>2
  <2> QED BY <2>1, <2>2
<1>3. T = Nat
  <2>1. T \in SUBSET Nat
    OBVIOUS
  <2> HIDE DEF T
  <2> QED BY <1>1, <1>2, <2>1, Induction
<1> QED BY <1>3

(* The powers of two.                                                      *)
LEMMA Pow2Is ==
  /\ Pow2[0] = 1
  /\ \A n \in Nat : Pow2[n] \in Nat \ {0} /\ Pow2[n + 1] = 2 * Pow2[n]
<1> DEFINE Is(f) == f = [n \in Nat |-> IF n = 0 THEN 1 ELSE 2 * f[n - 1]]
           step == [x \in Nat \X Nat |-> 2 * x[1]]
           G(n, g) == Iterates(g, Nat, 1, step, n)
           g(n) == CHOOSE h : G(n, h)
           p == [n \in Nat |-> g(n)[n]]
<1>1. step \in [Nat \X Nat -> Nat]
  OBVIOUS
<1>2. \A x \in Nat \X Nat : step[x] = 2 * x[1]
  OBVIOUS
<1> HIDE DEF step
<1>3. ASSUME NEW n \in Nat PROVE G(n, g(n))
  <2>1. \E h : Iterates(h, Nat, 1, step, n)
    <3>1. 1 \in Nat
      OBVIOUS
    <3> QED BY <1>1, <3>1, Recursion
  <2>2. \E h : G(n, h)
    BY <2>1
  <2> HIDE DEF G
  <2> QED BY <2>2
<1> HIDE DEF g
<1>4. ASSUME NEW n \in Nat PROVE p[n] = IF n = 0 THEN 1 ELSE 2 * p[n - 1]
  <2>1. CASE n = 0
    <3>1. G(0, g(0))
      BY <1>3
    <3> QED BY <2>1, <3>1 DEF Iterates
  <2>2. CASE n # 0
    <3>1. n - 1 \in Nat /\ n \in 1 .. n /\ n - 1 <= n /\ n - 1 <= n - 1
      BY <2>2
    <3>2. Iterates(g(n), Nat, 1, step, n) /\ Iterates(g(n - 1), Nat, 1, step, n - 1)
      BY <1>3, <3>1
    <3>3. g(n)[n - 1] = g(n - 1)[n - 1]
      BY <3>1, <3>2, IteratesAgree
    <3>4. g(n)[n] = step[<<g(n)[n - 1], n>>] /\ g(n)[n - 1] \in Nat
      BY <3>1, <3>2 DEF Iterates
    <3>5. <<g(n)[n - 1], n>> \in Nat \X Nat
      BY <3>4
    <3>6. g(n)[n] = 2 * g(n)[n - 1]
      BY <1>2, <3>4, <3>5
    <3> QED BY <2>2, <3>1, <3>3, <3>6
  <2> QED BY <2>1, <2>2
<1>5. Is(p)
  <2> HIDE DEF p
  <2>1. p = [n \in Nat |-> p[n]]
    BY DEF p
  <2> QED BY <1>4, <2>1
<1>6. Is(Pow2)
  <2>1. \E f : Is(f)
    BY <1>5
  <2>2. Pow2 = CHOOSE f : Is(f)
    BY DEF Pow2
  <2> HIDE DEF Is
  <2> QED BY <2>1, <2>2
<1>7. \A n \in Nat : Pow2[n] = IF n = 0 THEN 1 ELSE 2 * Pow2[n - 1]
  BY <1>6
<1> HIDE DEF Is
<1>8. \A n \in Nat : Pow2[n + 1] = 2 * Pow2[n]
  <2> TAKE n \in Nat
  <2>1. n + 1 \in Nat /\ n + 1 # 0 /\ (n + 1) - 1 = n
    OBVIOUS
  <2> QED BY <1>7, <2>1
<1>9. Pow2[0] = 1
  BY <1>7
<1> DEFINE T == {n \in Nat : Pow2[n] \in Nat \ {0}}
<1>10. 0 \in T
  BY <1>9
<1>11. ASSUME NEW n \in T PROVE n + 1 \in T
  BY <1>8
<1>12. T = Nat
  <2>1. T \in SUBSET Nat
    OBVIOUS
  <2> HIDE DEF T
  <2> QED BY <1>10, <1>11, <2>1, Induction
<1> QED BY <1>8, <1>9, <1>12

LEMMA SizeIs ==
  ASSUME NEW x \in Int, Abs(x) < Pow2[16]
  PROVE  /\ Size(x) \in 0 .. 16
         /\ Abs(x) < Pow2[Size(x)]
         /\ Size(x) = 0 \/ Abs(x) >= Pow2[Size(x) - 1]
<1>1. Abs(x) \in Nat
  BY DEF Abs
<1>2. PICK S : S = {s \in 0 .. 16 : Abs(x) < Pow2[s]}
  OBVIOUS
<1>3. S \in SUBSET Nat /\ 16 \in S
  BY <1>2
<1>4. Min(S) \in S /\ \A n \in S : Min(S) <= n
  BY <1>3, MinIn
<1>5. PICK m : m = Min(S)
  OBVIOUS
<1>6. m \in 0 .. 16 /\ Abs(x) < Pow2[m]
  BY <1>2, <1>4, <1>5
<1>7. m = 0 \/ Abs(x) >= Pow2[m - 1]
  <2>1. SUFFICES ASSUME m # 0 PROVE Abs(x) >= Pow2[m - 1]
    OBVIOUS
  <2>2. m - 1 \in 0 .. 16 /\ ~(m <= m - 1) /\ m - 1 \in Nat
    BY <1>6, <2>1
  <2>3. m - 1 \notin S
    BY <1>4, <1>5, <2>2
  <2>4. Pow2[m - 1] \in Nat
    BY <2>2, Pow2Is
  <2> QED BY <1>1, <1>2, <2>2, <2>3, <2>4
<1> QED BY <1>6, <1>7 DEF Size

(* Bits of a magnitude give the number back.                               *)
LEMMA Extended ==
  ASSUME NEW x \in Int, Abs(x) < Pow2[16]
  PROVE  /\ Size(x) \in 0 .. 16
         /\ Size(x) = 0 <=> x = 0
         /\ Size(x) = 0 => Magnitude(x) = <<>>
         /\ Size(x) # 0 => \E y \in Int : Magnitude(x) = <<<<Size(x), y>>>> /\ Extend(y, Size(x)) = x
<1>1. PICK s : s = Size(x)
  OBVIOUS
<1>2. s \in 0 .. 16 /\ Abs(x) < Pow2[s] /\ (s = 0 \/ Abs(x) >= Pow2[s - 1])
  BY <1>1, SizeIs
<1>3. CASE s = 0
  <2>1. Abs(x) < 1
    BY <1>2, <1>3, Pow2Is
  <2>2. x = 0
    BY <2>1 DEF Abs
  <2> QED BY <1>1, <1>2, <1>3, <2>2 DEF Magnitude, Bits
<1>4. CASE s # 0
  <2>1. s - 1 \in Nat /\ (s - 1) + 1 = s
    BY <1>2, <1>4
  <2>2. PICK q : q = Pow2[s - 1]
    OBVIOUS
  <2>3. q \in Nat \ {0} /\ Pow2[s] = 2 * q /\ Abs(x) >= q /\ Abs(x) < 2 * q
    BY <1>2, <1>4, <2>1, <2>2, Pow2Is
  <2>4. PICK y : y = IF x < 0 THEN x + 2 * q - 1 ELSE x
    OBVIOUS
  <2>5. y \in Int /\ x # 0
    BY <2>3, <2>4 DEF Abs
  <2>6. Magnitude(x) = <<<<s, y>>>>
    BY <1>1, <1>4, <2>3, <2>4 DEF Magnitude, Bits
  <2>7. (IF y < q THEN y - 2 * q + 1 ELSE y) = x
    <3>1. CASE x < 0
      BY <2>3, <2>4, <3>1 DEF Abs
    <3>2. CASE ~(x < 0)
      BY <2>3, <2>4, <3>2 DEF Abs
    <3> QED BY <3>1, <3>2
  <2>8. Extend(y, s) = x
    BY <1>4, <2>2, <2>3, <2>7 DEF Extend
  <2> QED BY <1>1, <1>2, <1>4, <2>5, <2>6, <2>8
<1> QED BY <1>3, <1>4

LEMMA FloorIs ==
  ASSUME NEW x \in Int, NEW d \in Nat \ {0}, NEW q \in Int, q * d <= x, x < q * d + d
  PROVE  x \div d = q
<1>1. PICK t : t = x \div d
  OBVIOUS
<1>2. t \in Int /\ t * d <= x /\ x < t * d + d
  BY <1>1, Floor
<1>3. q * d \in Int /\ t * d \in Int /\ (q + 1) * d = q * d + d /\ (t + 1) * d = t * d + d
  BY <1>2
<1>4. t * d < (q + 1) * d /\ q * d < (t + 1) * d
  <2>1. PICK u, v : u = q * d /\ v = t * d
    OBVIOUS
  <2>2. u \in Int /\ v \in Int /\ u <= x /\ x < u + d /\ v <= x /\ x < v + d
    BY <1>2, <1>3, <2>1
  <2>3. v < u + d /\ u < v + d
    BY <2>2
  <2> QED BY <1>3, <2>1, <2>3
<1>5. t < q + 1
  <2>1. q + 1 \in Int
    OBVIOUS
  <2> QED BY <1>2, <1>4, <2>1, Cancel
<1>6. q < t + 1
  <2>1. t + 1 \in Int
    BY <1>2
  <2> QED BY <1>4, <2>1, Cancel
<1> QED BY <1>1, <1>2, <1>5, <1>6

(* A quotient is no larger than what is divided.                           *)
LEMMA QuotientFits ==
  ASSUME NEW n \in Nat, NEW x \in -n .. n, NEW q \in Nat \ {0}
  PROVE  x \div q \in -n .. n
<1>1. PICK t : t = x \div q
  OBVIOUS
<1>2. x \in Int
  OBVIOUS
<1>3. t \in Int /\ t * q <= x /\ x < t * q + q
  BY <1>1, <1>2, Floor
<1>4. PICK z : z = t * q
  OBVIOUS
<1>5. z \in Int /\ z <= x /\ x < z + q
  BY <1>3, <1>4
<1>6. t <= n
  <2>1. SUFFICES ASSUME t > n PROVE FALSE
    BY <1>3
  <2>2. t \in Nat /\ t * q >= t
    BY <1>3, <2>1
  <2> QED BY <1>3, <1>4, <1>5, <2>1, <2>2
<1>7. t >= -n
  <2>1. SUFFICES ASSUME t < -n PROVE FALSE
    BY <1>3
  <2>2. PICK u : u = -(t + 1)
    OBVIOUS
  <2>3. u \in Nat /\ t = -u - 1
    BY <1>3, <2>1, <2>2
  <2>4. u * q >= u /\ u * q \in Nat
    BY <2>3
  <2>5. z = -(u * q) - q
    BY <1>4, <2>3, <2>4
  <2>6. PICK v : v = u * q
    OBVIOUS
  <2> QED BY <1>5, <2>1, <2>3, <2>4, <2>5, <2>6
<1> QED BY <1>1, <1>3, <1>6, <1>7

LEMMA Halves ==
  ASSUME NEW x \in Int, NEW q \in Nat \ {0}
  PROVE  /\ x \div q \in Int
         /\ x \div (2 * q) = (x \div q) \div 2
         /\ x \div q = 2 * (x \div (2 * q)) + ((x \div q) % 2)
<1>1. PICK t : t = x \div q
  OBVIOUS
<1>2. t \in Int /\ t * q <= x /\ x < t * q + q
  BY <1>1, Floor
<1>3. PICK u, e : u = t \div 2 /\ e = t % 2
  OBVIOUS
<1>4. u \in Int /\ e \in {0, 1} /\ t = 2 * u + e
  BY <1>2, <1>3
<1>5. u * (2 * q) <= x /\ x < u * (2 * q) + 2 * q
  <2>1. t * q = u * (2 * q) + e * q
    BY <1>4
  <2>2. e * q = 0 \/ e * q = q
    BY <1>4
  <2>3. u * (2 * q) \in Int
    BY <1>4
  <2>4. PICK y : y = u * (2 * q)
    OBVIOUS
  <2>5. y \in Int /\ y <= x /\ x < y + 2 * q
    <3>1. CASE e * q = 0
      BY <1>2, <2>1, <2>3, <2>4, <3>1
    <3>2. CASE e * q = q
      BY <1>2, <2>1, <2>3, <2>4, <3>2
    <3> QED BY <2>2, <3>1, <3>2
  <2> QED BY <2>4, <2>5
<1>6. x \div (2 * q) = u
  <2>1. 2 * q \in Nat \ {0}
    OBVIOUS
  <2> QED BY <1>4, <1>5, <2>1, FloorIs
<1> QED BY <1>1, <1>2, <1>3, <1>4, <1>6

LEMMA Multiple ==
  ASSUME NEW t \in Int, NEW q \in Nat \ {0}
  PROVE  t * q \in Int /\ (t * q) \div q = t
<1>1. PICK x : x = t * q
  OBVIOUS
<1>2. x \in Int /\ t * q <= x /\ x < t * q + q
  BY <1>1
<1> QED BY <1>1, <1>2, FloorIs

(* One bit more of a DC value.                                             *)
LEMMA DcBit ==
  ASSUME NEW x \in Int, NEW a \in Nat, NEW y, y = Approx(x, 0, a + 1)
  PROVE  /\ y \in Int
         /\ Approx(x, 0, a) = IF HasBit(x, a) /\ ~HasBit(y, a) THEN y + Pow2[a] ELSE y
<1>1. PICK q : q = Pow2[a]
  OBVIOUS
<1>2. q \in Nat \ {0} /\ Pow2[a + 1] = 2 * q
  BY <1>1, Pow2Is
<1>3. PICK t, u, e : t = x \div q /\ u = x \div (2 * q) /\ e = t % 2
  OBVIOUS
<1>4. t \in Int /\ u = t \div 2 /\ t = 2 * u + e
  BY <1>2, <1>3, Halves
<1>5. u \in Int /\ e \in {0, 1}
  BY <1>3, <1>4
<1>6. y = u * (2 * q) /\ y = (2 * u) * q
  BY <1>2, <1>3, <1>5 DEF Approx, Shift
<1>7. y \in Int /\ y \div q = 2 * u
  BY <1>2, <1>5, <1>6, Multiple
<1>8. ~HasBit(y, a)
  BY <1>1, <1>5, <1>7 DEF HasBit
<1>9. HasBit(x, a) <=> e = 1
  BY <1>1, <1>3 DEF HasBit
<1>10. Approx(x, 0, a) = t * q
  BY <1>1, <1>3 DEF Approx, Shift
<1>11. t * q = y + e * q
  BY <1>2, <1>4, <1>5, <1>6
<1>12. CASE e = 1
  BY <1>1, <1>2, <1>7, <1>8, <1>9, <1>10, <1>11, <1>12
<1>13. CASE e = 0
  BY <1>1, <1>2, <1>7, <1>8, <1>9, <1>10, <1>11, <1>13
<1> QED BY <1>5, <1>7, <1>12, <1>13

(* Of AC coefficients.                                                     *)
LEMMA AcBit ==
  ASSUME NEW x \in Int, NEW a \in Nat
  PROVE  /\ Abs(x) \in Nat /\ Sign(x) \in {-1, 1}
         /\ Point(x, a) \in Int /\ Point(x, a + 1) \in Int
         /\ Point(x, a) = Sign(x) * (2 * (Abs(x) \div (2 * Pow2[a])) + ((Abs(x) \div Pow2[a]) % 2))
         /\ Point(x, a + 1) = Sign(x) * (Abs(x) \div (2 * Pow2[a]))
<1>1. PICK q : q = Pow2[a]
  OBVIOUS
<1>2. q \in Nat \ {0} /\ Pow2[a + 1] = 2 * q
  BY <1>1, Pow2Is
<1>3. Abs(x) \in Nat /\ Sign(x) \in {-1, 1}
  BY DEF Abs, Sign
<1>4. PICK t, u, e : t = Abs(x) \div q /\ u = Abs(x) \div (2 * q) /\ e = t % 2
  OBVIOUS
<1>5. t \in Int /\ t = 2 * u + e /\ u = t \div 2
  <2>1. PICK w : w = Abs(x)
    OBVIOUS
  <2>2. w \in Int
    BY <1>3, <2>1
  <2>3. /\ w \div q \in Int
        /\ w \div (2 * q) = (w \div q) \div 2
        /\ w \div q = 2 * (w \div (2 * q)) + ((w \div q) % 2)
    BY <1>2, <2>2, Halves
  <2> QED BY <1>4, <2>1, <2>3
<1>6. u \in Int
  BY <1>5
<1>7. Point(x, a) = Sign(x) * t /\ Point(x, a + 1) = Sign(x) * u
  BY <1>1, <1>2, <1>4 DEF Point
<1> QED BY <1>1, <1>3, <1>4, <1>5, <1>6, <1>7

(* A correction of a coefficient that is there.                            *)
LEMMA AcCorrected ==
  ASSUME NEW x \in Int, NEW a \in Nat, NEW j \in Nat \ {0},
         NEW y, y = Approx(x, j, a + 1), Point(x, a + 1) # 0
  PROVE  /\ y \in Int
         /\ Approx(x, j, a) = IF HasBit(Abs(x), a) /\ ~HasBit(y, a) THEN y + Sign(y) * Pow2[a] ELSE y
<1>1. PICK q, u, e, g : q = Pow2[a] /\ u = Abs(x) \div (2 * q) /\ e = (Abs(x) \div q) % 2 /\ g = Sign(x)
  OBVIOUS
<1>2. q \in Nat \ {0} /\ Pow2[a + 1] = 2 * q
  BY <1>1, Pow2Is
<1>3. Abs(x) \in Nat /\ g \in {-1, 1} /\ Point(x, a) = g * (2 * u + e) /\ Point(x, a + 1) = g * u
  BY <1>1, AcBit
<1>4. u \in Nat
  <2>1. PICK w, d : w = Abs(x) /\ d = 2 * q
    OBVIOUS
  <2>2. w \in Nat /\ d \in Nat \ {0}
    BY <1>2, <1>3, <2>1
  <2>3. w \div d \in Nat
    BY <2>2, Division
  <2> QED BY <1>1, <2>1, <2>3
<1>5. e \in {0, 1}
  <2>1. Abs(x) \div q \in Nat
    BY <1>2, <1>3, Division
  <2> QED BY <1>1, <2>1
<1>6. u > 0
  BY <1>3, <1>4
<1>7. y = (g * u) * (2 * q)
  BY <1>2, <1>3 DEF Approx
<1>8. y = (2 * (g * u)) * q /\ g * u \in Int /\ 2 * (g * u) \in Int
  BY <1>2, <1>3, <1>4, <1>7
<1>9. y \in Int /\ y \div q = 2 * (g * u)
  BY <1>2, <1>8, Multiple
<1>10. ~HasBit(y, a)
  BY <1>1, <1>8, <1>9 DEF HasBit
<1>11. HasBit(Abs(x), a) <=> e = 1
  BY <1>1 DEF HasBit
<1>12. Approx(x, j, a) = (g * (2 * u + e)) * q
  BY <1>1, <1>3 DEF Approx
<1>13. u * q \in Nat /\ u * q > 0
  <2>1. u * q >= q
    BY <1>2, <1>4, <1>6
  <2> QED BY <1>2, <1>4, <2>1
<1>14. PICK z : z = u * q
  OBVIOUS
<1>15. CASE g = 1
  <2>1. y = 2 * z
    BY <1>2, <1>4, <1>7, <1>14, <1>15
  <2>2. Sign(y) = 1
    BY <1>13, <1>14, <2>1 DEF Sign
  <2>3. Approx(x, j, a) = 2 * z + e * q
    BY <1>2, <1>4, <1>5, <1>12, <1>14, <1>15
  <2>4. CASE e = 1
    BY <1>1, <1>2, <1>9, <1>10, <1>11, <1>13, <1>14, <2>1, <2>2, <2>3, <2>4
  <2>5. CASE e = 0
    BY <1>1, <1>2, <1>9, <1>11, <1>13, <1>14, <2>1, <2>3, <2>5
  <2> QED BY <1>5, <2>4, <2>5
<1>16. CASE g = -1
  <2>1. y = -(2 * z)
    BY <1>2, <1>4, <1>7, <1>14, <1>16
  <2>2. Sign(y) = -1
    BY <1>13, <1>14, <2>1 DEF Sign
  <2>3. Approx(x, j, a) = -(2 * z) - e * q
    BY <1>2, <1>4, <1>5, <1>12, <1>14, <1>16
  <2>4. CASE e = 1
    BY <1>1, <1>2, <1>9, <1>10, <1>11, <1>13, <1>14, <2>1, <2>2, <2>3, <2>4
  <2>5. CASE e = 0
    BY <1>1, <1>2, <1>9, <1>11, <1>13, <1>14, <2>1, <2>3, <2>5
  <2> QED BY <1>5, <2>4, <2>5
<1> QED BY <1>3, <1>15, <1>16

(* A coefficient that a refining scan is the first to see is 1 or -1.      *)
LEMMA AcNew ==
  ASSUME NEW x \in Int, NEW a \in Nat, Point(x, a + 1) = 0
  PROVE  Point(x, a) \in {-1, 0, 1}
<1>1. PICK q, u, e, g : q = Pow2[a] /\ u = Abs(x) \div (2 * q) /\ e = (Abs(x) \div q) % 2 /\ g = Sign(x)
  OBVIOUS
<1>2. Abs(x) \in Nat /\ g \in {-1, 1} /\ Point(x, a) = g * (2 * u + e) /\ Point(x, a + 1) = g * u
  BY <1>1, AcBit
<1>3. q \in Nat \ {0}
  BY <1>1, Pow2Is
<1>4. u \in Nat
  <2>1. PICK w, d : w = Abs(x) /\ d = 2 * q
    OBVIOUS
  <2>2. w \in Nat /\ d \in Nat \ {0}
    BY <1>2, <1>3, <2>1
  <2>3. w \div d \in Nat
    BY <2>2, Division
  <2> QED BY <1>1, <2>1, <2>3
<1>5. e \in {0, 1}
  <2>1. Abs(x) \div q \in Nat
    BY <1>2, <1>3, Division
  <2> QED BY <1>1, <2>1
<1>6. u = 0
  BY <1>2, <1>4
<1> QED BY <1>2, <1>5, <1>6

LEMMA AcZero ==
  ASSUME NEW x \in Int, NEW a \in Nat, Point(x, a) = 0
  PROVE  Point(x, a + 1) = 0
<1>1. PICK q, u, e, g : q = Pow2[a] /\ u = Abs(x) \div (2 * q) /\ e = (Abs(x) \div q) % 2 /\ g = Sign(x)
  OBVIOUS
<1>2. Abs(x) \in Nat /\ g \in {-1, 1} /\ Point(x, a) = g * (2 * u + e) /\ Point(x, a + 1) = g * u
  BY <1>1, AcBit
<1>3. q \in Nat \ {0}
  BY <1>1, Pow2Is
<1>4. u \in Nat
  <2>1. PICK w, d : w = Abs(x) /\ d = 2 * q
    OBVIOUS
  <2>2. w \in Nat /\ d \in Nat \ {0}
    BY <1>2, <1>3, <2>1
  <2>3. w \div d \in Nat
    BY <2>2, Division
  <2> QED BY <1>1, <2>1, <2>3
<1>5. e \in {0, 1}
  <2>1. Abs(x) \div q \in Nat
    BY <1>2, <1>3, Division
  <2> QED BY <1>1, <2>1
<1> QED BY <1>2, <1>4, <1>5

(* The values of an image fit 16 bits, and so do those of a scan.          *)
Sample == (1 - Pow2[15]) .. (Pow2[15] - 1)

LEMMA ShiftFits ==
  ASSUME NEW x \in Sample, NEW a \in Nat
  PROVE  Shift(x, a) \in Sample
<1>1. PICK n, q : n = Pow2[15] - 1 /\ q = Pow2[a]
  OBVIOUS
<1>2. n \in Nat /\ q \in Nat \ {0} /\ Pow2[15] = n + 1
  <2>1. 15 \in Nat
    OBVIOUS
  <2>2. Pow2[15] \in Nat \ {0}
    BY <2>1, Pow2Is
  <2>3. q \in Nat \ {0}
    BY <1>1, Pow2Is
  <2> QED BY <1>1, <2>2, <2>3
<1>3. Sample = -n .. n
  BY <1>2 DEF Sample
<1>4. x \in -n .. n
  BY <1>3
<1>5. x \div q \in -n .. n
  BY <1>2, <1>4, QuotientFits
<1> QED BY <1>1, <1>3, <1>5 DEF Shift

LEMMA DiffFits ==
  ASSUME NEW x \in Sample, NEW y \in Sample
  PROVE  x - y \in Int /\ Abs(x - y) < Pow2[16]
<1>1. Pow2[15] \in Nat \ {0} /\ Pow2[16] = 2 * Pow2[15]
  <2>1. 15 \in Nat /\ 15 + 1 = 16
    OBVIOUS
  <2>2. Pow2[15 + 1] = 2 * Pow2[15] /\ Pow2[15] \in Nat \ {0}
    BY <2>1, Pow2Is
  <2> QED BY <2>1, <2>2
<1>2. PICK z : z = x - y
  OBVIOUS
<1>3. z \in Int /\ z < 2 * Pow2[15] /\ -z < 2 * Pow2[15]
  BY <1>1, <1>2 DEF Sample
<1>4. Abs(z) < 2 * Pow2[15]
  BY <1>3 DEF Abs
<1> QED BY <1>1, <1>2, <1>3, <1>4

LEMMA SampleIs == 0 \in Sample /\ Sample \subseteq Int
<1>1. 15 \in Nat
  OBVIOUS
<1>2. Pow2[15] \in Nat \ {0}
  BY <1>1, Pow2Is
<1> QED BY <1>2 DEF Sample

LEMMA PointFits ==
  ASSUME NEW x \in Sample, NEW a \in Nat
  PROVE  Point(x, a) \in Int /\ Abs(Point(x, a)) < Pow2[16]
<1>1. PICK n, q, t, g, w : n = Pow2[15] - 1 /\ q = Pow2[a] /\ w = Abs(x) /\ t = w \div q /\ g = Sign(x)
  OBVIOUS
<1>2. n \in Nat /\ q \in Nat \ {0} /\ Pow2[15] = n + 1
  <2>1. 15 \in Nat
    OBVIOUS
  <2>2. Pow2[15] \in Nat \ {0}
    BY <2>1, Pow2Is
  <2>3. q \in Nat \ {0}
    BY <1>1, Pow2Is
  <2> QED BY <1>1, <2>2, <2>3
<1>3. x \in Int /\ x <= n /\ -x <= n
  BY <1>2 DEF Sample
<1>4. w \in 0 .. n /\ g \in {-1, 1}
  BY <1>1, <1>2, <1>3 DEF Abs, Sign
<1>5. t \in -n .. n
  <2>1. w \in -n .. n
    BY <1>2, <1>4
  <2>2. w \div q \in -n .. n
    BY <1>2, <2>1, QuotientFits
  <2> QED BY <1>1, <2>2
<1>6. Point(x, a) = g * t
  BY <1>1 DEF Point
<1>7. Pow2[16] = 2 * (n + 1)
  <2>1. 15 \in Nat /\ 15 + 1 = 16
    OBVIOUS
  <2>2. Pow2[15 + 1] = 2 * Pow2[15]
    BY <2>1, Pow2Is
  <2> QED BY <1>2, <2>1, <2>2
<1>8. PICK y : y = g * t
  OBVIOUS
<1>9. y \in -n .. n
  <2>1. y = t \/ y = -t
    BY <1>4, <1>5, <1>8
  <2> QED BY <1>2, <1>5, <2>1
<1>10. Abs(y) < 2 * (n + 1)
  BY <1>2, <1>9 DEF Abs
<1> QED BY <1>2, <1>6, <1>7, <1>8, <1>9, <1>10

LEMMA UnitSize ==
  ASSUME NEW x \in {-1, 1}
  PROVE  Size(x) = 1 /\ Magnitude(x) = <<<<1, IF x = 1 THEN 1 ELSE 0>>>>
<1>1. Pow2[0] = 1 /\ Pow2[1] = 2
  <2>1. 0 \in Nat /\ 0 + 1 = 1
    OBVIOUS
  <2>2. Pow2[0] = 1 /\ Pow2[0 + 1] = 2 * Pow2[0]
    BY <2>1, Pow2Is
  <2> QED BY <2>1, <2>2
<1>2. Abs(x) = 1
  BY DEF Abs
<1>3. \A s \in 0 .. 16 : s \in Nat /\ (s # 0 => s - 1 \in Nat)
  OBVIOUS
<1>4. ASSUME NEW s \in 0 .. 16, Abs(x) < Pow2[s], s = 0 \/ Abs(x) >= Pow2[s - 1] PROVE s = 1
  <2>1. s # 0
    BY <1>1, <1>2, <1>4
  <2>2. CASE s >= 2
    <3>1. s - 2 \in Nat /\ (s - 2) + 1 = s - 1
      BY <2>2
    <3>2. Pow2[s - 1] = 2 * Pow2[s - 2] /\ Pow2[s - 2] \in Nat \ {0}
      BY <3>1, Pow2Is
    <3> QED BY <1>2, <1>4, <2>1, <3>2
  <2> QED BY <2>1, <2>2
<1>5. Size(x) = 1
  <2>1. 1 \in 0 .. 16 /\ Abs(x) < Pow2[1] /\ (1 = 0 \/ Abs(x) >= Pow2[1 - 1])
    BY <1>1, <1>2
  <2>2. \A s \in 0 .. 16 : (Abs(x) < Pow2[s] /\ (s = 0 \/ Abs(x) >= Pow2[s - 1])) <=> s = 1
    BY <1>4, <2>1
  <2>3. Size(x) = CHOOSE s \in 0 .. 16 : s = 1
    BY <2>2 DEF Size
  <2> QED BY <2>3
<1>6. Magnitude(x) = <<<<1, IF x < 0 THEN x + 2 - 1 ELSE x>>>>
  BY <1>1, <1>5 DEF Magnitude, Bits
<1> QED BY <1>5, <1>6

LEMMA Joined ==
  ASSUME NEW e, NEW g
  PROVE  <<e>> \o <<g>> = <<e, g>>
<1>1. PICK S : S = {e, g}
  OBVIOUS
<1>2. <<e>> \in Seq(S) /\ <<g>> \in Seq(S) /\ Len(<<e>>) = 1 /\ Len(<<g>>) = 1
  BY <1>1
<1>3. <<e, g>> \in Seq(S) /\ Len(<<e, g>>) = 2
  BY <1>1
<1>4. PICK x, y, z : x = <<e>> /\ y = <<g>> /\ z = <<e, g>>
  OBVIOUS
<1>5. x \o y \in Seq(S) /\ Len(x \o y) = 2 /\ (x \o y)[1] = e /\ (x \o y)[2] = g
  BY <1>2, <1>4
<1>6. x \o y = z
  <2>1. Len(z) = 2 /\ z \in Seq(S) /\ z[1] = e /\ z[2] = g
    BY <1>3, <1>4
  <2>2. PICK w : w = x \o y
    OBVIOUS
  <2>3. w \in Seq(S) /\ Len(w) = Len(z) /\ \A i \in 1 .. Len(w) : w[i] = z[i]
    BY <1>5, <2>1, <2>2
  <2>4. w = z
    BY <2>1, <2>3, SeqEqual
  <2> QED BY <2>2, <2>4
<1> QED BY <1>4, <1>6

LEMMA Alone ==
  ASSUME NEW e
  PROVE  <<e>> \o <<>> = <<e>>
<1>1. <<e>> \in Seq({e})
  OBVIOUS
<1> QED BY <1>1, ConcatEmptySeq

(* The symbol of a run of m blocks says m.                                 *)
LEMMA RunIs ==
  ASSUME NEW n \in Nat \ {0}, NEW m \in 1 .. Pow2[n] - 1
  PROVE  \E r \in 0 .. n - 1 : Pow2[r] <= m /\ m < Pow2[r + 1]
<1>0. Pow2[n] \in Nat
  BY Pow2Is
<1>1. PICK S : S = {r \in 0 .. n : m < Pow2[r]}
  OBVIOUS
<1>2. S \in SUBSET Nat /\ n \in S
  BY <1>0, <1>1
<1>3. PICK t : t = Min(S)
  OBVIOUS
<1>4. t \in S /\ \A i \in S : t <= i
  BY <1>2, <1>3, MinIn
<1>5. t \in 0 .. n /\ m < Pow2[t] /\ m >= 1 /\ m \in Nat
  BY <1>0, <1>1, <1>4
<1>6. t # 0
  BY <1>5, Pow2Is
<1>7. t - 1 \in 0 .. n - 1 /\ (t - 1) + 1 = t /\ t - 1 \in Nat /\ ~(t <= t - 1) /\ t - 1 \in 0 .. n
  BY <1>5, <1>6
<1>8. Pow2[t - 1] \in Nat
  BY <1>7, Pow2Is
<1>9. ~(m < Pow2[t - 1])
  BY <1>1, <1>4, <1>7
<1> QED BY <1>5, <1>7, <1>8, <1>9

LEMMA RunSymbolIs ==
  ASSUME MaxRun \in Nat \ {0}, NEW m \in 1 .. Pow2[MaxRun] - 1
  PROVE  \E r \in 0 .. MaxRun - 1 :
           \/ r = 0 /\ m = 1 /\ RunSymbol(m) = <<<<0, 0>>>>
           \/ r > 0 /\ m > 1 /\ m - Pow2[r] \in Int /\ RunSymbol(m) = <<<<r, 0>>, <<r, m - Pow2[r]>>>>
<1>1. \E r \in 0 .. MaxRun - 1 : Pow2[r] <= m /\ m < Pow2[r + 1]
  BY RunIs
<1>2. PICK r : r = CHOOSE e \in 0 .. MaxRun - 1 : Pow2[e] <= m /\ m < Pow2[e + 1]
  OBVIOUS
<1>3. r \in 0 .. MaxRun - 1 /\ Pow2[r] <= m /\ m < Pow2[r + 1]
  BY <1>1, <1>2
<1>4. RunSymbol(m) = <<<<r, 0>>>> \o Bits(r, m - Pow2[r])
  BY <1>2 DEF RunSymbol
<1>5. r \in Nat /\ m \in Int
  <2>1. Pow2[MaxRun] \in Nat
    BY Pow2Is
  <2> QED BY <1>3, <2>1
<1>6. CASE r = 0
  <2>1. Pow2[0] = 1 /\ Pow2[0 + 1] = 2
    <3>1. 0 \in Nat
      OBVIOUS
    <3> QED BY <3>1, Pow2Is
  <2>2. m = 1
    BY <1>3, <1>5, <1>6, <2>1
  <2>3. RunSymbol(m) = <<<<0, 0>>>>
    BY <1>4, <1>6 DEF Bits
  <2> QED BY <1>3, <1>6, <2>2, <2>3
<1>7. CASE r # 0
  <2>1. RunSymbol(m) = <<<<r, 0>>, <<r, m - Pow2[r]>>>>
    <3>1. PICK e, g : e = <<r, 0>> /\ g = <<r, m - Pow2[r]>>
      OBVIOUS
    <3>2. Bits(r, m - Pow2[r]) = <<g>>
      BY <1>7, <3>1 DEF Bits
    <3>3. <<e>> \o <<g>> = <<e, g>>
      BY Joined
    <3> QED BY <1>4, <3>1, <3>2, <3>3
  <2>2. Pow2[r] \in Nat
    BY <1>5, Pow2Is
  <2>3. r > 0 /\ m - Pow2[r] \in Int
    BY <1>5, <1>7, <2>2
  <2>4. m > 1
    <3>1. r - 1 \in Nat /\ (r - 1) + 1 = r
      BY <1>5, <2>3
    <3>2. Pow2[r] = 2 * Pow2[r - 1] /\ Pow2[r - 1] \in Nat \ {0}
      BY <3>1, Pow2Is
    <3> QED BY <1>3, <1>5, <3>2
  <2> QED BY <1>3, <2>1, <2>3, <2>4
<1> QED BY <1>6, <1>7

-------------------------------------------------------------------------------
(* Ranks of pairs in the order of a scan.                                  *)

LEMMA BeforeIs ==
  ASSUME NEW x \in Nat \X Nat, NEW y \in Nat \X Nat
  PROVE  /\ ~Before(x, x)
         /\ x = y \/ Before(x, y) \/ Before(y, x)
         /\ ~(Before(x, y) /\ Before(y, x))
         /\ \A z \in Nat \X Nat : Before(x, y) /\ Before(y, z) => Before(x, z)
<1>1. x = <<x[1], x[2]>> /\ y = <<y[1], y[2]>> /\ x[1] \in Nat /\ x[2] \in Nat /\ y[1] \in Nat /\ y[2] \in Nat
  OBVIOUS
<1>2. ~Before(x, x)
  BY <1>1 DEF Before
<1>3. x = y \/ Before(x, y) \/ Before(y, x)
  <2>1. CASE x[1] = y[1] /\ x[2] = y[2]
    BY <1>1, <2>1
  <2>2. CASE ~(x[1] = y[1] /\ x[2] = y[2])
    BY <1>1, <2>2 DEF Before
  <2> QED BY <2>1, <2>2
<1>4. ~(Before(x, y) /\ Before(y, x))
  BY <1>1 DEF Before
<1>5. ASSUME NEW z \in Nat \X Nat, Before(x, y), Before(y, z) PROVE Before(x, z)
  <2>1. z[1] \in Nat /\ z[2] \in Nat
    OBVIOUS
  <2> QED BY <1>1, <1>5, <2>1 DEF Before
<1> QED BY <1>2, <1>3, <1>4, <1>5

LEMMA RankGrows ==
  ASSUME NEW S \in SUBSET (Nat \X Nat), IsFiniteSet(S)
  PROVE  /\ \A x \in S : Rank(S, x) \in 0 .. Cardinality(S) - 1
         /\ \A x, y \in S : Rank(S, x) = Rank(S, y) => x = y
<1>1. Cardinality(S) \in Nat
  BY FS_CardinalityType
<1>2. ASSUME NEW x \in S PROVE Rank(S, x) \in 0 .. Cardinality(S) - 1
  <2>1. PICK B : B = {t \in S : Before(t, x)}
    OBVIOUS
  <2>2. B \in SUBSET S /\ x \notin B
    <3>1. ~Before(x, x)
      BY BeforeIs
    <3> QED BY <2>1, <3>1
  <2>3. IsFiniteSet(B) /\ Cardinality(B) <= Cardinality(S) /\ (Cardinality(B) = Cardinality(S) => S = B)
    BY <2>2, FS_Subset
  <2>4. Cardinality(B) \in Nat
    BY <2>3, FS_CardinalityType
  <2>5. Cardinality(B) # Cardinality(S)
    BY <2>2, <2>3
  <2> QED BY <1>1, <2>1, <2>3, <2>4, <2>5 DEF Rank
<1>3. ASSUME NEW x \in S, NEW y \in S, Before(x, y) PROVE Rank(S, x) < Rank(S, y)
  <2>1. PICK B, C : B = {t \in S : Before(t, x)} /\ C = {t \in S : Before(t, y)}
    OBVIOUS
  <2>2. ASSUME NEW t \in B PROVE t \in C
    <3>1. t \in S /\ t \in Nat \X Nat /\ x \in Nat \X Nat /\ y \in Nat \X Nat /\ Before(t, x)
      BY <2>1
    <3>2. Before(t, y)
      BY <1>3, <3>1, BeforeIs
    <3> QED BY <2>1, <3>1, <3>2
  <2>3. x \in C /\ x \notin B
    <3>1. ~Before(x, x)
      BY BeforeIs
    <3> QED BY <1>3, <2>1, <3>1
  <2>4. IsFiniteSet(C) /\ Cardinality(C) \in Nat /\ Cardinality(B) \in Nat
    <3>1. C \in SUBSET S /\ B \in SUBSET S
      BY <2>1
    <3>2. IsFiniteSet(C) /\ IsFiniteSet(B)
      BY <3>1, FS_Subset
    <3> QED BY <3>2, FS_CardinalityType
  <2>5. B \in SUBSET C
    BY <2>2
  <2>6. Cardinality(B) <= Cardinality(C) /\ (Cardinality(B) = Cardinality(C) => C = B)
    BY <2>4, <2>5, FS_Subset
  <2>7. Cardinality(B) < Cardinality(C)
    BY <2>3, <2>4, <2>6
  <2> QED BY <2>1, <2>7 DEF Rank
<1>4. ASSUME NEW x \in S, NEW y \in S, Rank(S, x) = Rank(S, y) PROVE x = y
  <2>1. Rank(S, x) \in Int /\ Rank(S, y) \in Int
    BY <1>1, <1>2
  <2>2. ~Before(x, y) /\ ~Before(y, x)
    BY <1>3, <1>4, <2>1
  <2>3. x \in Nat \X Nat /\ y \in Nat \X Nat
    OBVIOUS
  <2> QED BY <2>2, <2>3, BeforeIs
<1> QED BY <1>2, <1>4

(* The bits of corrections are in the order of what they correct.          *)
LEMMA CorrectionsHold ==
  ASSUME NEW p, NEW s, NEW S \in SUBSET (Nat \X Nat), IsFiniteSet(S)
  PROVE  Corrections(p, s, S) \in Seq(Int \X Int) /\ Holds(p, s, S, Corrections(p, s, S))
<1>1. Cardinality(S) \in Nat
  BY FS_CardinalityType
<1> DEFINE At(i) == CHOOSE x \in S : Rank(S, x) = i - 1
           E(i) == Bit(Abs(Value(p, s, At(i)[1], At(i)[2])), s.al)
<1>2. Corrections(p, s, S) = [i \in 1 .. Cardinality(S) |-> E(i)]
  BY DEF Corrections, Rank
<1>3. \A i \in 1 .. Cardinality(S) : E(i) \in Int \X Int
  BY DEF Bit
<1>4. ASSUME NEW x \in S
      PROVE  Rank(S, x) + 1 \in 1 .. Cardinality(S) /\ E(Rank(S, x) + 1) = Bit(Abs(Value(p, s, x[1], x[2])), s.al)
  <2>1. Rank(S, x) \in 0 .. Cardinality(S) - 1
    BY RankGrows
  <2>2. PICK i : i = Rank(S, x) + 1
    OBVIOUS
  <2>3. i \in 1 .. Cardinality(S) /\ i - 1 = Rank(S, x)
    BY <1>1, <2>1, <2>2
  <2>4. \A y \in S : Rank(S, y) = i - 1 <=> y = x
    BY <2>3, RankGrows
  <2>5. At(i) = x
    BY <2>4
  <2> QED BY <2>2, <2>3, <2>5
<1> HIDE DEF E
<1>5. PICK d : d = [i \in 1 .. Cardinality(S) |-> E(i)]
  OBVIOUS
<1>6. d \in Seq(Int \X Int) /\ Len(d) = Cardinality(S) /\ \A i \in 1 .. Cardinality(S) : d[i] = E(i)
  BY <1>1, <1>3, <1>5
<1>7. \A x \in S : d[Rank(S, x) + 1] = Bit(Abs(Value(p, s, x[1], x[2])), s.al)
  BY <1>4, <1>6
<1> QED BY <1>2, <1>5, <1>6, <1>7 DEF Holds

(* Ranks in a set whose elements in Q come first.                          *)
RanksAfter(S, Q, R) == \A x \in R : Rank(S, x) = Cardinality(Q) + Rank(R, x)

LEMMA RankSplits ==
  ASSUME NEW S \in SUBSET (Nat \X Nat), IsFiniteSet(S), NEW Q \in SUBSET S, NEW R, R = S \ Q,
         \A x \in Q : \A y \in R : Before(x, y)
  PROVE  /\ Cardinality(Q) \in Nat /\ Cardinality(R) \in Nat
         /\ Cardinality(S) = Cardinality(Q) + Cardinality(R)
         /\ \A x \in Q : Rank(S, x) = Rank(Q, x)
         /\ RanksAfter(S, Q, R)
<1>1. R \in SUBSET S
  OBVIOUS
<1>2. IsFiniteSet(Q) /\ IsFiniteSet(R)
  BY <1>1, FS_Subset
<1>3. Cardinality(Q) \in Nat /\ Cardinality(R) \in Nat
  BY <1>2, FS_CardinalityType
<1>4. ASSUME NEW A \in SUBSET Q, NEW B \in SUBSET R
      PROVE  /\ Cardinality(A) \in Nat /\ Cardinality(B) \in Nat
             /\ Cardinality(A \cup B) = Cardinality(A) + Cardinality(B)
  <2>1. IsFiniteSet(A) /\ IsFiniteSet(B)
    BY <1>2, FS_Subset
  <2>2. A \cap B = {}
    OBVIOUS
  <2>3. Cardinality(A \cup B) = Cardinality(A) + Cardinality(B) - Cardinality(A \cap B)
    BY <2>1, FS_Union
  <2>4. Cardinality(A) \in Nat /\ Cardinality(B) \in Nat
    BY <2>1, FS_CardinalityType
  <2>5. Cardinality(A \cap B) = 0
    BY <2>2, FS_EmptySet
  <2> QED BY <2>3, <2>4, <2>5
<1>5. Cardinality(S) = Cardinality(Q) + Cardinality(R)
  <2>1. S = Q \cup R
    OBVIOUS
  <2>2. Q \in SUBSET Q /\ R \in SUBSET R
    OBVIOUS
  <2>3. Cardinality(Q \cup R) = Cardinality(Q) + Cardinality(R)
    BY <1>4, <2>2
  <2> QED BY <2>1, <2>3
<1>6. ASSUME NEW x \in Q PROVE Rank(S, x) = Rank(Q, x)
  <2>1. ASSUME NEW y \in S, Before(y, x) PROVE y \in Q
    <3>1. SUFFICES ASSUME y \in R PROVE FALSE
      OBVIOUS
    <3>2. Before(x, y)
      BY <3>1
    <3>3. x \in Nat \X Nat /\ y \in Nat \X Nat
      OBVIOUS
    <3> QED BY <2>1, <3>2, <3>3, BeforeIs
  <2>2. {y \in S : Before(y, x)} = {y \in Q : Before(y, x)}
    BY <2>1
  <2> QED BY <2>2 DEF Rank
<1>7. ASSUME NEW x \in R PROVE Rank(S, x) = Cardinality(Q) + Rank(R, x) /\ Rank(R, x) \in Nat
  <2>1. PICK B : B = {y \in R : Before(y, x)}
    OBVIOUS
  <2>2. B \in SUBSET R /\ Q \in SUBSET Q
    BY <2>1
  <2>3. {y \in S : Before(y, x)} = Q \cup B
    BY <2>1
  <2>4. Cardinality(Q \cup B) = Cardinality(Q) + Cardinality(B) /\ Cardinality(B) \in Nat
    BY <1>4, <2>2
  <2> QED BY <2>1, <2>3, <2>4 DEF Rank
<1>8. RanksAfter(S, Q, R)
  BY <1>7, Zenon DEF RanksAfter
<1> QED BY <1>3, <1>5, <1>6, <1>8

LEMMA Dropped ==
  ASSUME NEW S, NEW d \in Seq(S), NEW m \in 0 .. Len(d)
  PROVE  /\ SubSeq(d, m + 1, Len(d)) \in Seq(S)
         /\ Len(SubSeq(d, m + 1, Len(d))) = Len(d) - m
         /\ \A i \in 1 .. Len(d) - m : SubSeq(d, m + 1, Len(d))[i] = d[m + i]
<1>1. Len(d) \in Nat /\ m \in Nat
  OBVIOUS
<1>2. PICK n : n = Len(d) - m
  OBVIOUS
<1>3. n \in Nat
  BY <1>1, <1>2
<1>4. SubSeq(d, m + 1, Len(d)) \in Seq(S) /\ Len(SubSeq(d, m + 1, Len(d))) = n
  BY <1>1, <1>2, <1>3
<1>5. ASSUME NEW i \in 1 .. n PROVE SubSeq(d, m + 1, Len(d))[i] = d[m + i]
  <2>1. m + i \in 1 .. Len(d) /\ (m + 1) + i - 1 = m + i
    BY <1>1, <1>2, <1>3
  <2> QED BY <1>1, <1>2, <1>3, <1>4, <2>1
<1> QED BY <1>2, <1>4, <1>5

(* A symbol with its bits, and what comes after them.                      *)
LEMMA Pieces ==
  ASSUME NEW S, NEW x \in Seq(S), NEW y \in Seq(S), NEW d, d = x \o y
  PROVE  /\ d \in Seq(S) /\ Len(d) = Len(x) + Len(y)
         /\ \A i \in 1 .. Len(x) : d[i] = x[i]
         /\ \A i \in 1 .. Len(y) : d[Len(x) + i] = y[i]
         /\ SubSeq(d, Len(x) + 1, Len(d)) = y
<1>1. PICK m, n : m = Len(x) /\ n = Len(y)
  OBVIOUS
<1>2. m \in Nat /\ n \in Nat
  BY <1>1
<1>3. d \in Seq(S) /\ Len(d) = m + n /\ \A i \in 1 .. m + n : d[i] = IF i <= m THEN x[i] ELSE y[i - m]
  BY <1>1, ConcatProperties, Zenon
<1>4. \A i \in 1 .. m : d[i] = x[i]
  BY <1>2, <1>3
<1>5. ASSUME NEW i \in 1 .. n PROVE d[m + i] = y[i]
  <2>1. m + i \in 1 .. m + n /\ ~(m + i <= m) /\ (m + i) - m = i
    BY <1>2
  <2> QED BY <1>3, <2>1
<1>6. PICK e : e = SubSeq(d, m + 1, Len(d))
  OBVIOUS
<1>7. m \in 0 .. Len(d) /\ Len(d) - m = n
  BY <1>2, <1>3
<1>8. e \in Seq(S) /\ Len(e) = n /\ \A i \in 1 .. n : e[i] = d[m + i]
  BY <1>3, <1>6, <1>7, Dropped
<1>9. e = y
  <2>1. \A i \in 1 .. Len(e) : e[i] = y[i]
    BY <1>5, <1>8
  <2> QED BY <1>1, <1>8, <2>1, SeqEqual
<1> QED BY <1>1, <1>3, <1>4, <1>5, <1>6, <1>9

Matches(p, s, olds, d) ==
  \A x \in olds : d[Rank(olds, x) + 1] = Bit(Abs(Value(p, s, x[1], x[2])), s.al)

LEMMA HoldsSplits ==
  ASSUME NEW p, NEW s, NEW S \in SUBSET (Nat \X Nat), IsFiniteSet(S), NEW Q \in SUBSET S, NEW R, R = S \ Q,
         \A x \in Q : \A y \in R : Before(x, y),
         NEW d \in Seq(Int \X Int), Holds(p, s, S, d)
  PROVE  /\ Cardinality(Q) \in Nat /\ Cardinality(Q) <= Len(d)
         /\ Matches(p, s, Q, d)
         /\ SubSeq(d, Cardinality(Q) + 1, Len(d)) \in Seq(Int \X Int)
         /\ Holds(p, s, R, SubSeq(d, Cardinality(Q) + 1, Len(d)))
<1>1. /\ Cardinality(Q) \in Nat /\ Cardinality(R) \in Nat
      /\ Cardinality(S) = Cardinality(Q) + Cardinality(R)
  BY RankSplits
<1>2. \A x \in Q : Rank(S, x) = Rank(Q, x)
  BY RankSplits, Zenon
<1>3. \A x \in R : Rank(S, x) = Cardinality(Q) + Rank(R, x)
  <2>1. RanksAfter(S, Q, R)
    BY RankSplits
  <2> QED BY <2>1 DEF RanksAfter
<1>4. Len(d) = Cardinality(S) /\ \A x \in S : d[Rank(S, x) + 1] = Bit(Abs(Value(p, s, x[1], x[2])), s.al)
  BY DEF Holds
<1>5. PICK m, e : m = Cardinality(Q) /\ e = SubSeq(d, m + 1, Len(d))
  OBVIOUS
<1>6. m \in 0 .. Len(d) /\ Len(d) - m = Cardinality(R)
  BY <1>1, <1>4, <1>5
<1>7. e \in Seq(Int \X Int) /\ Len(e) = Cardinality(R) /\ \A i \in 1 .. Cardinality(R) : e[i] = d[m + i]
  BY <1>5, <1>6, Dropped
<1>8. R \in SUBSET (Nat \X Nat) /\ IsFiniteSet(R) /\ R \in SUBSET S
  <2>1. R \in SUBSET S
    OBVIOUS
  <2> QED BY <2>1, FS_Subset
<1>9. ASSUME NEW x \in R PROVE e[Rank(R, x) + 1] = Bit(Abs(Value(p, s, x[1], x[2])), s.al)
  <2>1. Rank(R, x) \in 0 .. Cardinality(R) - 1
    BY <1>8, RankGrows
  <2>2. Rank(R, x) + 1 \in 1 .. Cardinality(R) /\ m + (Rank(R, x) + 1) = Rank(S, x) + 1
    <3>1. Rank(S, x) = Cardinality(Q) + Rank(R, x) /\ Rank(R, x) \in Int
      <4>1. Rank(S, x) = Cardinality(Q) + Rank(R, x)
        BY <1>3, Zenon
      <4> QED BY <1>1, <2>1, <4>1
    <3> QED BY <1>1, <1>5, <2>1, <3>1
  <2>3. d[Rank(S, x) + 1] = Bit(Abs(Value(p, s, x[1], x[2])), s.al)
    BY <1>4, <1>8, Zenon
  <2>4. e[Rank(R, x) + 1] = d[m + (Rank(R, x) + 1)]
    BY <1>7, <2>2, Zenon
  <2> QED BY <2>2, <2>3, <2>4
<1>10. Holds(p, s, R, e)
  BY <1>7, <1>9 DEF Holds
<1>11. Matches(p, s, Q, d)
  BY <1>2, <1>4 DEF Matches
<1>12. m \in Nat /\ m <= Len(d)
  BY <1>6
<1> QED BY <1>5, <1>7, <1>10, <1>11, <1>12, Zenon

(* Pairs of one block.                                                     *)
LEMMA RowIs ==
  ASSUME NEW c \in Nat, NEW T \in SUBSET Nat, IsFiniteSet(T)
  PROVE  /\ {c} \X T \in SUBSET (Nat \X Nat) /\ IsFiniteSet({c} \X T)
         /\ Cardinality({c} \X T) = Cardinality(T)
         /\ \A l \in T : Rank({c} \X T, <<c, l>>) = Cardinality({h \in T : h < l})
<1>1. ASSUME NEW U \in SUBSET T
      PROVE  IsFiniteSet({c} \X U) /\ Cardinality({c} \X U) = Cardinality(U)
  <2>1. PICK f : f = [l \in U |-> <<c, l>>]
    OBVIOUS
  <2>2. f \in Bijection(U, {c} \X U)
    <3>1. f \in [U -> {c} \X U]
      BY <2>1
    <3>2. \A g, h \in U : f[g] = f[h] => g = h
      BY <2>1
    <3>3. ASSUME NEW x \in {c} \X U PROVE \E l \in U : f[l] = x
      <4>1. x[2] \in U /\ x = <<c, x[2]>>
        OBVIOUS
      <4> QED BY <2>1, <4>1
    <3>4. f \in Injection(U, {c} \X U)
      BY <3>1, <3>2 DEF Injection, IsInjective
    <3>5. f \in Surjection(U, {c} \X U)
      BY <3>1, <3>3 DEF Surjection
    <3> QED BY <3>4, <3>5 DEF Bijection
  <2>3. ExistsBijection(U, {c} \X U)
    BY <2>2 DEF ExistsBijection
  <2>4. IsFiniteSet(U)
    BY FS_Subset
  <2> QED BY <2>3, <2>4, FS_Bijection
<1>2. T \in SUBSET T
  OBVIOUS
<1>3. IsFiniteSet({c} \X T) /\ Cardinality({c} \X T) = Cardinality(T)
  BY <1>1, <1>2
<1>4. ASSUME NEW l \in T PROVE Rank({c} \X T, <<c, l>>) = Cardinality({h \in T : h < l})
  <2>1. PICK U : U = {h \in T : h < l}
    OBVIOUS
  <2>2. U \in SUBSET T
    BY <2>1
  <2>3. {y \in {c} \X T : Before(y, <<c, l>>)} = {c} \X U
    <3>1. ASSUME NEW y \in {c} \X T PROVE Before(y, <<c, l>>) <=> y \in {c} \X U
      <4>1. y = <<c, y[2]>> /\ y[2] \in T
        OBVIOUS
      <4>2. PICK h : h = y[2]
        OBVIOUS
      <4>3. Before(y, <<c, l>>) <=> h < l
        BY <4>1, <4>2 DEF Before
      <4>4. y \in {c} \X U <=> h \in U
        BY <4>1, <4>2
      <4> QED BY <2>1, <4>1, <4>2, <4>3, <4>4
    <3>2. {c} \X U \subseteq {c} \X T
      BY <2>2
    <3> QED BY <3>1, <3>2
  <2> QED BY <1>1, <2>1, <2>2, <2>3 DEF Rank
<1>5. {c} \X T \in SUBSET (Nat \X Nat)
  OBVIOUS
<1> QED BY <1>3, <1>4, <1>5

-------------------------------------------------------------------------------
(* Scans and what they make of coefficients.                               *)

LEMMA BufferHas ==
  ASSUME NEW p, NEW at \in Buffer(p)
  PROVE  at[1] \in DOMAIN p.factors
BY DEF Buffer

LEMMA ScanFields ==
  ASSUME NEW p, Legal(p), NEW n \in DOMAIN p.script, NEW o, o = Opened(p, p.script[n])
  PROVE  /\ p.script[n] \in [comps : Seq(DOMAIN p.factors), ss : Nat, se : Nat, ah : 0 .. 13, al : 0 .. 13]
         /\ o = [order |-> o.order, ss |-> o.ss, se |-> o.se, ah |-> o.ah, al |-> o.al]
         /\ o.order = Blocks(p, p.script[n])
         /\ o.ss \in 0 .. Final /\ o.se \in o.ss .. Final /\ o.ah \in Nat /\ o.al \in Nat
         /\ o.ah > 0 => o.al = o.ah - 1 /\ p.progressive
         /\ p.progressive => o.al = p.script[n].al /\ (o.ss = 0 => o.se = 0)
         /\ ~p.progressive => o.ss = 0 /\ o.se = Final /\ o.al = 0
<1>1. LegalScan(p, n)
  BY DEF Legal
<1>2. p.script \in Seq([comps : Seq(DOMAIN p.factors), ss : Nat, se : Nat, ah : 0 .. 13, al : 0 .. 13])
  BY DEF Legal, LegalFrame
<1>3. PICK s : s = p.script[n]
  OBVIOUS
<1>4. s \in [comps : Seq(DOMAIN p.factors), ss : Nat, se : Nat, ah : 0 .. 13, al : 0 .. 13]
  <2>1. PICK R : R = [comps : Seq(DOMAIN p.factors), ss : Nat, se : Nat, ah : 0 .. 13, al : 0 .. 13]
    OBVIOUS
  <2>2. p.script \in Seq(R) /\ n \in DOMAIN p.script
    BY <1>2, <2>1
  <2>3. p.script[n] \in R
    BY <2>2
  <2> QED BY <1>3, <2>1, <2>3
<1>5. s.ah \in Nat /\ s.al \in Nat
  BY <1>4
<1>6. /\ o.ss \in 0 .. Final /\ o.se \in o.ss .. Final
      /\ p.progressive => (o.ss = 0 => o.se = 0)
      /\ o.ah > 0 => o.al = o.ah - 1
  BY <1>1 DEF LegalScan
<1>7. CASE p.progressive
  <2>1. o = [order |-> Blocks(p, s), ss |-> s.ss, se |-> s.se, ah |-> s.ah, al |-> s.al]
    BY <1>3, <1>7 DEF Opened
  <2>2. o.order = Blocks(p, s) /\ o.ss = s.ss /\ o.se = s.se /\ o.ah = s.ah /\ o.al = s.al
    BY <2>1
  <2> QED BY <1>3, <1>4, <1>5, <1>6, <1>7, <2>1, <2>2
<1>8. CASE ~p.progressive
  <2>1. o = [order |-> Blocks(p, s), ss |-> 0, se |-> Final, ah |-> 0, al |-> 0]
    BY <1>3, <1>8 DEF Opened
  <2>2. o.order = Blocks(p, s) /\ o.ss = 0 /\ o.se = Final /\ o.ah = 0 /\ o.al = 0
    BY <2>1
  <2> QED BY <1>3, <1>4, <1>6, <1>8, <2>1, <2>2
<1> QED BY <1>7, <1>8

(* Before and after a scan that carries a coefficient.                     *)
LEMMA PreciseMade ==
  ASSUME NEW p, Legal(p), NEW n \in DOMAIN p.script, NEW o, o = Opened(p, p.script[n]),
         NEW at \in Buffer(p), NEW j \in 0 .. Final, Carries(p, p.script[n], at, j)
  PROVE  /\ Precise(p, n, at, j) = Approx(p.image[at][j], j, o.al)
         /\ Precise(p, n - 1, at, j) = IF o.ah = 0 THEN 0 ELSE Approx(p.image[at][j], j, o.ah)
<1>1. n \in Nat \ {0}
  BY SMTT(30) DEF Legal, LegalFrame
<1>2. /\ o.ah \in Nat
      /\ o.ah > 0 => p.progressive
      /\ p.progressive => o.al = p.script[n].al
      /\ ~p.progressive => o.al = 0
  BY ScanFields
<1>3. Precise(p, n, at, j) = Approx(p.image[at][j], j, o.al)
  <2>1. PICK S : S = Carrying(p, n, at, j)
    OBVIOUS
  <2>2. S \in SUBSET Int /\ n \in S /\ \A m \in S : m <= n
    BY <1>1, <2>1 DEF Carrying
  <2>3. Max(S) = n
    BY <2>2, MaxIs
  <2> QED BY <1>2, <2>1, <2>2, <2>3 DEF Precise, Approx
<1>4. PICK E : E = Carrying(p, n - 1, at, j)
  OBVIOUS
<1>5. IF o.ah = 0 THEN E = {} ELSE E # {} /\ p.script[Max(E)].al = o.ah
  <2>1. LegalScan(p, n)
    BY DEF Legal
  <2> QED BY <1>4, <2>1 DEF LegalScan
<1>6. CASE o.ah = 0
  <2>1. E = {}
    BY <1>5, <1>6
  <2>2. Precise(p, n - 1, at, j) = 0
    BY <1>4, <2>1 DEF Precise
  <2> QED BY <1>3, <1>6, <2>2
<1>7. CASE o.ah # 0
  <2>1. p.progressive /\ E # {} /\ p.script[Max(E)].al = o.ah
    BY <1>2, <1>5, <1>7
  <2>2. PICK a : a = p.script[Max(E)].al
    OBVIOUS
  <2>3. Precise(p, n - 1, at, j) = Approx(p.image[at][j], j, a)
    BY <1>4, <2>1, <2>2 DEF Precise, Approx
  <2> QED BY <1>3, <1>7, <2>1, <2>2, <2>3
<1> QED BY <1>3, <1>6, <1>7

LEMMA PreciseKept ==
  ASSUME NEW p, NEW n \in Nat \ {0}, NEW at, NEW j, ~Carries(p, p.script[n], at, j)
  PROVE  Precise(p, n, at, j) = Precise(p, n - 1, at, j)
<1>1. Carrying(p, n, at, j) = Carrying(p, n - 1, at, j)
  <2>1. \A m : m \in 1 .. n /\ m # n <=> m \in 1 .. n - 1
    OBVIOUS
  <2> QED BY <2>1 DEF Carrying
<1> QED BY <1>1 DEF Precise

-------------------------------------------------------------------------------
(* Sequences in which each element of a set occurs once.                   *)

Once(s, R) ==
  /\ s \in Seq(R)
  /\ \A i, j \in 1 .. Len(s) : s[i] = s[j] => i = j
  /\ \A x \in R : \E i \in 1 .. Len(s) : s[i] = x

LEMMA OnceEmpty == Once(<<>>, {})
BY DEF Once

LEMMA ConcatOnce ==
  ASSUME NEW A, NEW B, NEW s, NEW t, Once(s, A), Once(t, B), A \cap B = {}
  PROVE  Once(s \o t, A \cup B)
<1>1. s \in Seq(A \cup B) /\ t \in Seq(A \cup B) /\ s \in Seq(A) /\ t \in Seq(B)
  BY DEF Once
<1>2. /\ s \o t \in Seq(A \cup B) /\ Len(s \o t) = Len(s) + Len(t)
      /\ \A i \in 1 .. Len(s) + Len(t) : (s \o t)[i] = IF i <= Len(s) THEN s[i] ELSE t[i - Len(s)]
  BY <1>1, ConcatProperties
<1>3. Len(s) \in Nat /\ Len(t) \in Nat
      /\ (\A i \in 1 .. Len(s) : s[i] \in A) /\ (\A i \in 1 .. Len(t) : t[i] \in B)
  BY <1>1, ElementOfSeq, LenProperties
<1> DEFINE u == s \o t
<1> HIDE DEF u
<1>4. u \in Seq(A \cup B) /\ Len(u) = Len(s) + Len(t)
      /\ \A i \in 1 .. Len(s) + Len(t) : u[i] = IF i <= Len(s) THEN s[i] ELSE t[i - Len(s)]
  BY <1>2 DEF u
<1>5. ASSUME NEW i \in 1 .. Len(u), NEW j \in 1 .. Len(u), u[i] = u[j]
      PROVE  i = j
  <2>1. CASE i <= Len(s) /\ j <= Len(s)
    <3>1. i \in 1 .. Len(s) /\ j \in 1 .. Len(s) /\ s[i] = s[j]
      BY <2>1, <1>3, <1>4, <1>5
    <3> QED BY <3>1 DEF Once
  <2>2. CASE i > Len(s) /\ j > Len(s)
    <3>1. i - Len(s) \in 1 .. Len(t) /\ j - Len(s) \in 1 .. Len(t)
      BY <2>2, <1>3, <1>4
    <3>2. t[i - Len(s)] = t[j - Len(s)]
      BY <2>2, <1>3, <1>4, <1>5
    <3>3. i - Len(s) = j - Len(s)
      BY <3>1, <3>2 DEF Once
    <3> QED BY <3>3, <1>3, <1>4
  <2>3. CASE i <= Len(s) /\ j > Len(s)
    <3>1. u[i] \in A /\ u[j] \in B
      BY <2>3, <1>3, <1>4, SMTT(30)
    <3> QED BY <3>1, <1>5
  <2>4. CASE i > Len(s) /\ j <= Len(s)
    <3>1. u[i] \in B /\ u[j] \in A
      BY <2>4, <1>3, <1>4
    <3> QED BY <3>1, <1>5
  <2> QED BY <2>1, <2>2, <2>3, <2>4, <1>3, <1>4
<1>6. ASSUME NEW x \in A \cup B PROVE \E i \in 1 .. Len(u) : u[i] = x
  <2>1. CASE x \in A
    <3>1. PICK i \in 1 .. Len(s) : s[i] = x
      BY <2>1 DEF Once
    <3>2. i \in 1 .. Len(u) /\ u[i] = x
      BY <3>1, <1>3, <1>4
    <3> QED BY <3>2
  <2>2. CASE x \in B
    <3>1. PICK i \in 1 .. Len(t) : t[i] = x
      BY <2>2 DEF Once
    <3>2. i + Len(s) \in 1 .. Len(u) /\ u[i + Len(s)] = x
      BY <3>1, <1>3, <1>4
    <3> QED BY <3>2
  <2> QED BY <2>1, <2>2
<1>7. Once(u, A \cup B)
  BY <1>4, <1>5, <1>6 DEF Once
<1> QED BY <1>7 DEF u

-------------------------------------------------------------------------------
(* FlattenSeq.                                                             *)

LEMMA FlattenDef ==
  ASSUME NEW W, NEW seqs \in Seq(Seq(W)), Len(seqs) > 0
  PROVE  \E f \in [1 .. Len(seqs) -> Seq(W)] :
           /\ f[1] = seqs[1]
           /\ \A i \in 2 .. Len(seqs) : f[i] = f[i - 1] \o seqs[i]
           /\ FlattenSeq(seqs) = f[Len(seqs)]
<1> DEFINE n == Len(seqs)
           step == [x \in Seq(W) \X Nat |-> IF x[2] + 1 <= n THEN x[1] \o seqs[x[2] + 1] ELSE x[1]]
           Is(f) == f = [i \in 1 .. n |-> IF i = 1 THEN seqs[i] ELSE f[i - 1] \o seqs[i]]
<1>0. n \in Nat \ {0} /\ \A i \in 1 .. n : seqs[i] \in Seq(W)
  BY LenProperties, ElementOfSeq
<1> HIDE DEF n
<1>1. step \in [Seq(W) \X Nat -> Seq(W)]
  <2>1. ASSUME NEW x \in Seq(W) \X Nat
        PROVE  (IF x[2] + 1 <= n THEN x[1] \o seqs[x[2] + 1] ELSE x[1]) \in Seq(W)
    <3>1. CASE x[2] + 1 <= n
      <4>1. seqs[x[2] + 1] \in Seq(W) /\ x[1] \in Seq(W)
        BY <1>0, <3>1
      <4>2. x[1] \o seqs[x[2] + 1] \in Seq(W)
        BY <4>1, ConcatProperties
      <4> QED BY <4>2, <3>1
    <3> QED BY <3>1
  <2> QED BY <2>1
<1>2. PICK g \in [0 .. n - 1 -> Seq(W)] :
        g[0] = seqs[1] /\ \A i \in 1 .. n - 1 : g[i] = step[<<g[i - 1], i>>]
  <2> HIDE DEF step
  <2>1. n - 1 \in Nat /\ seqs[1] \in Seq(W)
    BY <1>0
  <2>2. PICK g : Iterates(g, Seq(W), seqs[1], step, n - 1)
    BY <1>1, <2>1, Recursion
  <2> QED BY <2>2 DEF Iterates
<1>3. \A i \in 1 .. n - 1 : g[i] = g[i - 1] \o seqs[i + 1]
  <2> TAKE i \in 1 .. n - 1
  <2>1. i - 1 \in 0 .. n - 1 /\ i + 1 <= n /\ i \in Nat
    BY <1>0
  <2>2. g[i] = step[<<g[i - 1], i>>]
    BY <1>2, <2>1
  <2>3. <<g[i - 1], i>> \in Seq(W) \X Nat
    BY <1>2, <2>1
  <2> QED BY <2>1, <2>2, <2>3
<1> HIDE DEF step
<1> DEFINE h == [i \in 1 .. n |-> g[i - 1]]
<1>4. ASSUME NEW i \in 1 .. n PROVE h[i] = IF i = 1 THEN seqs[i] ELSE h[i - 1] \o seqs[i]
  <2>1. CASE i = 1
    BY <1>0, <1>2, <2>1
  <2>2. CASE i # 1
    <3>1. i - 1 \in 1 .. n - 1 /\ i - 1 \in 1 .. n /\ (i - 1) + 1 = i
      BY <2>2, <1>0
    <3>2. g[i - 1] = g[(i - 1) - 1] \o seqs[(i - 1) + 1]
      BY <3>1, <1>3
    <3>3. h[i] = g[i - 1] /\ h[i - 1] = g[(i - 1) - 1]
      BY <3>1
    <3> QED BY <2>2, <3>1, <3>2, <3>3
  <2> QED BY <2>1, <2>2
<1>5. Is(h)
  <2> HIDE DEF h
  <2>1. h = [i \in 1 .. n |-> h[i]]
    BY DEF h
  <2> QED BY <1>4, <2>1
<1> HIDE DEF h
<1>6. PICK f : Is(f) /\ FlattenSeq(seqs) = f[n]
  <2> DEFINE f == CHOOSE f : Is(f)
  <2>1. Is(f)
    <3> HIDE DEF Is
    <3> QED BY <1>5
  <2>2. FlattenSeq(seqs) = f[n]
    BY <1>0 DEF FlattenSeq, n
  <2> HIDE DEF f
  <2> QED BY <2>1, <2>2
<1>7. f[1] = seqs[1] /\ \A i \in 2 .. n : f[i] = f[i - 1] \o seqs[i]
  <2>1. \A i \in 1 .. n : f[i] = IF i = 1 THEN seqs[i] ELSE f[i - 1] \o seqs[i]
    BY <1>6
  <2>2. 1 \in 1 .. n /\ \A i \in 2 .. n : i \in 1 .. n /\ i # 1
    BY <1>0
  <2> QED BY <2>1, <2>2
<1>8. f \in [1 .. n -> Seq(W)]
  <2> DEFINE T == {m \in Nat : m < n => f[m + 1] \in Seq(W)}
  <2>1. 0 \in T
    BY <1>0, <1>7
  <2>2. ASSUME NEW m \in T PROVE m + 1 \in T
    <3>1. CASE m + 1 < n
      <4>1. f[m + 1] \in Seq(W) /\ seqs[m + 2] \in Seq(W) /\ m + 2 \in 2 .. n /\ (m + 2) - 1 = m + 1
        BY <1>0, <3>1
      <4>2. f[m + 2] = f[m + 1] \o seqs[m + 2]
        BY <4>1, <1>7
      <4>3. f[m + 1] \o seqs[m + 2] \in Seq(W)
        BY <4>1, ConcatProperties
      <4>4. (m + 1) + 1 = m + 2 /\ m + 1 \in Nat
        OBVIOUS
      <4> QED BY <4>2, <4>3, <4>4
    <3>2. CASE ~ (m + 1 < n)
      BY <3>2
    <3> QED BY <3>1, <3>2
  <2>3. T = Nat
    <3>1. T \in SUBSET Nat
      OBVIOUS
    <3> HIDE DEF T
    <3> QED BY <2>1, <2>2, <3>1, Induction
  <2>4. \A i \in 1 .. n : f[i] \in Seq(W)
    <3> TAKE i \in 1 .. n
    <3>1. i - 1 \in Nat /\ i - 1 < n /\ (i - 1) + 1 = i
      BY <1>0
    <3>2. i - 1 \in T
      BY <3>1, <2>3
    <3> QED BY <3>1, <3>2
  <2>5. f = [i \in 1 .. n |-> f[i]]
    BY <1>6
  <2> HIDE DEF T, Is
  <2> QED BY <2>4, <2>5
<1> HIDE DEF Is
<1> QED BY <1>6, <1>7, <1>8 DEF n

LEMMA FunctionSeq ==
  ASSUME NEW S, NEW n \in Nat, NEW f \in [1 .. n -> S]
  PROVE  f \in Seq(S) /\ Len(f) = n
OBVIOUS

(* Disjoint parts make a whole.                                            *)
LEMMA FlattenOnce ==
  ASSUME NEW n \in Nat, NEW seqs, DOMAIN seqs = 1 .. n, seqs = [i \in 1 .. n |-> seqs[i]],
         NEW R,
         \A i \in 1 .. n : Once(seqs[i], R[i]),
         \A i, j \in 1 .. n : i # j => R[i] \cap R[j] = {}
  PROVE  Once(FlattenSeq(seqs), UNION {R[i] : i \in 1 .. n})
<1> DEFINE W == UNION {R[i] : i \in 1 .. n}
           Upto(m) == UNION {R[i] : i \in 1 .. m}
<1>0. \A i \in 1 .. n : seqs[i] \in Seq(W)
  <2> TAKE i \in 1 .. n
  <2>1. R[i] \subseteq W /\ seqs[i] \in Seq(R[i])
    BY DEF Once
  <2> HIDE DEF W
  <2> QED BY <2>1
<1>1. seqs \in Seq(Seq(W)) /\ Len(seqs) = n
  <2>1. seqs \in [1 .. n -> Seq(W)]
    <3> HIDE DEF W
    <3> QED BY <1>0
  <2> HIDE DEF W
  <2> QED BY <2>1, FunctionSeq
<1>2. CASE n = 0
  <2>1. W = {}
    BY <1>2
  <2>2. FlattenSeq(seqs) = seqs
    BY <1>1, <1>2 DEF FlattenSeq
  <2>3. Once(seqs, {})
    <3>1. seqs \in Seq({}) /\ Len(seqs) = 0
      <4>1. seqs \in [1 .. n -> {}]
        BY <1>2
      <4> QED BY <4>1, <1>2, FunctionSeq
    <3> QED BY <3>1 DEF Once
  <2> QED BY <2>1, <2>2, <2>3
<1>3. CASE n > 0
  <2>1. PICK f \in [1 .. n -> Seq(W)] :
          /\ f[1] = seqs[1]
          /\ \A i \in 2 .. n : f[i] = f[i - 1] \o seqs[i]
          /\ FlattenSeq(seqs) = f[n]
    <3> HIDE DEF W
    <3> QED BY <1>1, <1>3, FlattenDef, ZenonT(40)
  <2> DEFINE T == {m \in Nat : m < n => Once(f[m + 1], Upto(m + 1))}
  <2>2. 0 \in T
    <3>1. f[0 + 1] = seqs[1] /\ 1 \in 1 .. n
      BY <2>1, <1>3
    <3>2. Upto(0 + 1) = R[1]
      OBVIOUS
    <3> HIDE DEF Upto
    <3> QED BY <3>1, <3>2
  <2>3. ASSUME NEW m \in T PROVE m + 1 \in T
    <3>1. CASE m + 1 < n
      <4>1. Once(f[m + 1], Upto(m + 1))
        BY <3>1
      <4>2. m \in Nat /\ m + 2 \in 2 .. n /\ (m + 2) - 1 = m + 1 /\ (m + 1) + 1 = m + 2
        BY <3>1
      <4>3. f[m + 2] = f[m + 1] \o seqs[m + 2]
        BY <2>1, <4>2
      <4>4. Upto(m + 1) \cap R[m + 2] = {}
        <5>1. \A i \in 1 .. m + 1 : i \in 1 .. n /\ m + 2 \in 1 .. n /\ i # m + 2
          BY <4>2
        <5>2. \A i \in 1 .. m + 1 : R[i] \cap R[m + 2] = {}
          BY <5>1
        <5> QED BY <5>2
      <4>5. Upto(m + 2) = Upto(m + 1) \cup R[m + 2]
        <5>1. 1 .. m + 2 = (1 .. m + 1) \cup {m + 2}
          BY <4>2
        <5> QED BY <5>1
      <4> HIDE DEF Upto
      <4>6. Once(seqs[m + 2], R[m + 2])
        BY <4>2
      <4>7. Once(f[m + 1] \o seqs[m + 2], Upto(m + 1) \cup R[m + 2])
        BY <4>1, <4>4, <4>6, ConcatOnce
      <4>8. Once(f[(m + 1) + 1], Upto((m + 1) + 1))
        BY <4>2, <4>3, <4>5, <4>7
      <4>9. m + 1 \in Nat
        BY <4>2
      <4> QED BY <4>8, <4>9
    <3>2. CASE ~ (m + 1 < n)
      BY <3>2
    <3> QED BY <3>1, <3>2
  <2>4. T = Nat
    <3>1. T \in SUBSET Nat
      OBVIOUS
    <3> HIDE DEF T
    <3> QED BY <2>2, <2>3, <3>1, Induction
  <2>5. n - 1 \in T /\ (n - 1) + 1 = n /\ n - 1 < n
    <3> HIDE DEF T
    <3> QED BY <2>4, <1>3
  <2>6. Once(f[n], Upto(n))
    <3> HIDE DEF Upto
    <3> QED BY <2>5
  <2> QED BY <2>1, <2>6
<1> QED BY <1>2, <1>3

-------------------------------------------------------------------------------
(* Geometry: the blocks of a scan are blocks of the buffer, each once.     *)

LEMMA MaxIn ==
  ASSUME NEW n \in Nat, NEW T \in SUBSET (0 .. n), T # {}
  PROVE  Max(T) \in T /\ \A x \in T : x <= Max(T)
<1>1. PICK U : U = {m \in Nat : n - m \in T}
  OBVIOUS
<1>2. U \in SUBSET Nat /\ U # {}
  <2>1. PICK x \in T : TRUE
    OBVIOUS
  <2>2. n - x \in Nat /\ n - (n - x) = x
    BY <2>1
  <2> QED BY <1>1, <2>1, <2>2
<1>3. PICK m : m = Min(U)
  OBVIOUS
<1>4. m \in U /\ \A i \in U : m <= i
  BY <1>2, <1>3, MinIn
<1>5. n - m \in T
  BY <1>1, <1>4
<1>6. ASSUME NEW x \in T PROVE x <= n - m
  <2>1. n - x \in Nat /\ n - (n - x) = x
    OBVIOUS
  <2>2. n - x \in U
    BY <1>1, <2>1
  <2>3. m <= n - x /\ m \in Nat
    BY <1>1, <1>4, <2>2
  <2> QED BY <2>1, <2>3
<1>7. PICK y : y = n - m
  OBVIOUS
<1>8. y \in T /\ \A x \in T : x <= y
  BY <1>5, <1>6, <1>7
<1>9. T \in SUBSET Int
  OBVIOUS
<1>10. Max(T) = y
  BY <1>8, <1>9, MaxIs
<1> QED BY <1>8, <1>10

LEMMA CeilDivLeast ==
  ASSUME NEW a \in Nat, NEW d \in Nat \ {0}, NEW q \in Nat, a <= q * d
  PROVE  CeilDiv(a, d) \in Nat /\ CeilDiv(a, d) <= q
<1>1. PICK x, t, z : x = a + d - 1 /\ t = x \div d /\ z = q * d
  OBVIOUS
<1>2. x \in Nat /\ z \in Nat /\ x < z + d
  BY <1>1
<1>3. t \in Nat /\ t * d <= x
  BY <1>1, <1>2, Division
<1>4. t * d < (q + 1) * d
  <2>1. (q + 1) * d = z + d /\ t * d \in Nat
    BY <1>1, <1>3
  <2> QED BY <1>2, <1>3, <2>1
<1>5. t < q + 1
  <2>1. t \in Int /\ q + 1 \in Int
    BY <1>3
  <2> QED BY <1>4, <2>1, Cancel
<1> QED BY <1>1, <1>3, <1>5 DEF CeilDiv

(* The blocks that cover a component fit in the buffer's.                  *)
LEMMA Covered ==
  ASSUME NEW w \in Nat, NEW h \in Nat, NEW m \in Nat \ {0}
  PROVE  /\ CeilDiv(w, 8 * m) \in Nat
         /\ CeilDiv(CeilDiv(w * h, m), 8) \in Nat
         /\ CeilDiv(CeilDiv(w * h, m), 8) <= CeilDiv(w, 8 * m) * h
<1>1. PICK d, M, e : d = 8 * m /\ M = CeilDiv(w, d) /\ e = w * h
  OBVIOUS
<1>2. d \in Nat \ {0} /\ e \in Nat
  BY <1>1
<1>3. M \in Nat
  <2>1. w <= w * d
    BY <1>2
  <2> QED BY <1>1, <1>2, <2>1, CeilDivLeast
<1>4. M * d >= w
  BY <1>1, <1>2, CeilDivReaches
<1>5. e <= ((M * h) * 8) * m
  <2>1. PICK y : y = M * d
    OBVIOUS
  <2>2. y \in Nat /\ y - w \in Nat
    BY <1>2, <1>3, <1>4, <2>1
  <2>3. (y - w) * h \in Nat /\ (y - w) * h = y * h - e
    BY <1>1, <2>2
  <2>4. y * h \in Nat /\ y * h >= e
    BY <1>2, <2>2, <2>3
  <2>5. y * h = ((M * h) * 8) * m
    <3>1. y = M * (8 * m)
      BY <1>1, <2>1
    <3> QED BY <1>3, <3>1
  <2> QED BY <2>4, <2>5
<1>6. PICK g : g = M * h
  OBVIOUS
<1>7. g \in Nat /\ g * 8 \in Nat
  BY <1>3, <1>6
<1>8. CeilDiv(e, m) \in Nat /\ CeilDiv(e, m) <= g * 8
  BY <1>2, <1>5, <1>6, <1>7, CeilDivLeast
<1>9. PICK f : f = CeilDiv(e, m)
  OBVIOUS
<1>10. 8 \in Nat \ {0} /\ f \in Nat /\ f <= g * 8
  BY <1>8, <1>9
<1>11. CeilDiv(f, 8) \in Nat /\ CeilDiv(f, 8) <= g
  BY <1>7, <1>10, CeilDivLeast
<1> QED BY <1>1, <1>3, <1>6, <1>9, <1>11

LEMMA FrameIs ==
  ASSUME NEW p, Legal(p)
  PROVE  /\ Hmax(p) \in Nat \ {0} /\ Vmax(p) \in Nat \ {0}
         /\ p.width \in Nat /\ p.height \in Nat /\ p.interval \in Nat
         /\ \A c \in DOMAIN p.factors : p.factors[c][1] \in Nat \ {0} /\ p.factors[c][2] \in Nat \ {0}
<1>1. /\ p.width \in Nat \ {0} /\ p.height \in Nat \ {0}
      /\ p.factors \in Seq((1 .. 4) \X (1 .. 4)) /\ p.factors # <<>> /\ p.interval \in Nat
  BY DEF Legal, LegalFrame
<1>2. \A c \in DOMAIN p.factors : p.factors[c] \in (1 .. 4) \X (1 .. 4)
  BY <1>1
<1>3. \A c \in DOMAIN p.factors : p.factors[c][1] \in 1 .. 4 /\ p.factors[c][2] \in 1 .. 4
  BY <1>2
<1>4. PICK c \in DOMAIN p.factors : TRUE
  <2>1. PICK f : f = p.factors
    OBVIOUS
  <2>2. f \in Seq((1 .. 4) \X (1 .. 4)) /\ f # <<>>
    BY <1>1, <2>1
  <2>3. 1 \in DOMAIN f
    BY <2>2
  <2> QED BY <2>1, <2>3
<1>5. PICK A, B : A = {p.factors[d][1] : d \in DOMAIN p.factors} /\ B = {p.factors[d][2] : d \in DOMAIN p.factors}
  OBVIOUS
<1>6. A \in SUBSET (1 .. 4) /\ A # {} /\ B \in SUBSET (1 .. 4) /\ B # {}
  BY <1>3, <1>4, <1>5
<1>7. 4 \in Nat /\ A \in SUBSET (0 .. 4) /\ B \in SUBSET (0 .. 4)
  BY <1>6
<1>8. Max(A) \in A /\ Max(B) \in B
  BY <1>6, <1>7, MaxIn
<1>9. Hmax(p) = Max(A) /\ Vmax(p) = Max(B)
  BY <1>5 DEF Hmax, Vmax
<1>10. Hmax(p) \in Nat \ {0} /\ Vmax(p) \in Nat \ {0}
  <2>1. PICK a, b : a = Max(A) /\ b = Max(B)
    OBVIOUS
  <2>2. a \in 1 .. 4 /\ b \in 1 .. 4
    BY <1>6, <1>8, <2>1
  <2> QED BY <1>9, <2>1, <2>2
<1>11. \A d \in DOMAIN p.factors : p.factors[d][1] \in Nat \ {0} /\ p.factors[d][2] \in Nat \ {0}
  BY <1>3
<1> QED BY <1>1, <1>10, <1>11

(* The blocks of the units of a scan stay within the buffer.               *)
LEMMA UnitsFit ==
  ASSUME NEW p, Legal(p), NEW s, s.comps \in Seq(DOMAIN p.factors), s.comps # <<>>,
         NEW i \in DOMAIN s.comps, NEW c, c = s.comps[i]
  PROVE  /\ UnitsX(p, s) \in Nat /\ UnitsY(p, s) \in Nat
         /\ c \in DOMAIN p.factors
         /\ H(p, s, c) \in Nat \ {0} /\ V(p, s, c) \in Nat \ {0}
         /\ McusX(p) * p.factors[c][1] \in Nat /\ McusY(p) * p.factors[c][2] \in Nat
         /\ UnitsX(p, s) * H(p, s, c) <= McusX(p) * p.factors[c][1]
         /\ UnitsY(p, s) * V(p, s, c) <= McusY(p) * p.factors[c][2]
<1>1. c \in DOMAIN p.factors
  OBVIOUS
<1>2. PICK f, g, h, v : f = p.factors[c][1] /\ g = p.factors[c][2] /\ h = Hmax(p) /\ v = Vmax(p)
  OBVIOUS
<1>3. /\ f \in Nat \ {0} /\ g \in Nat \ {0} /\ h \in Nat \ {0} /\ v \in Nat \ {0}
      /\ p.width \in Nat /\ p.height \in Nat
  BY <1>1, <1>2, FrameIs
<1>4. /\ McusX(p) \in Nat /\ BlocksX(p, c) \in Nat /\ BlocksX(p, c) <= McusX(p) * f
  BY <1>2, <1>3, Covered DEF McusX, BlocksX
<1>5. /\ McusY(p) \in Nat /\ BlocksY(p, c) \in Nat /\ BlocksY(p, c) <= McusY(p) * g
  BY <1>2, <1>3, Covered DEF McusY, BlocksY
<1>6. McusX(p) * f \in Nat /\ McusY(p) * g \in Nat
  BY <1>3, <1>4, <1>5
<1>7. CASE Single(s)
  <2>1. s.comps[1] = c
    BY <1>7 DEF Single
  <2>2. UnitsX(p, s) = BlocksX(p, c) /\ UnitsY(p, s) = BlocksY(p, c) /\ H(p, s, c) = 1 /\ V(p, s, c) = 1
    BY <1>7, <2>1 DEF UnitsX, UnitsY, H, V
  <2>3. BlocksX(p, c) * 1 = BlocksX(p, c) /\ BlocksY(p, c) * 1 = BlocksY(p, c)
    BY <1>4, <1>5
  <2> QED BY <1>1, <1>2, <1>4, <1>5, <1>6, <2>2, <2>3
<1>8. CASE ~Single(s)
  <2>1. UnitsX(p, s) = McusX(p) /\ UnitsY(p, s) = McusY(p) /\ H(p, s, c) = f /\ V(p, s, c) = g
    BY <1>2, <1>8 DEF UnitsX, UnitsY, H, V
  <2>2. PICK a, b : a = McusX(p) * f /\ b = McusY(p) * g
    OBVIOUS
  <2>3. UnitsX(p, s) * H(p, s, c) = a /\ UnitsY(p, s) * V(p, s, c) = b /\ a \in Nat /\ b \in Nat
    BY <1>6, <2>1, <2>2
  <2>4. a <= a /\ b <= b
    BY <2>3
  <2> QED BY <1>1, <1>2, <1>3, <1>4, <1>5, <2>1, <2>2, <2>3, <2>4
<1> QED BY <1>7, <1>8

(* The blocks of a component in a unit.                                    *)
LEMMA GridOnce ==
  ASSUME NEW c, NEW h \in Nat \ {0}, NEW v \in Nat \ {0}
  PROVE  Once([b \in 1 .. h * v |-> <<c, (b - 1) % h, (b - 1) \div h>>], {c} \X (0 .. h - 1) \X (0 .. v - 1))
<1>1. PICK n, R, f : n = h * v /\ R = {c} \X (0 .. h - 1) \X (0 .. v - 1)
                     /\ f = [b \in 1 .. n |-> <<c, (b - 1) % h, (b - 1) \div h>>]
  OBVIOUS
<1>2. n \in Nat
  BY <1>1
<1>3. ASSUME NEW b \in 1 .. n
      PROVE  /\ (b - 1) \div h \in 0 .. v - 1 /\ (b - 1) % h \in 0 .. h - 1
             /\ b - 1 = ((b - 1) \div h) * h + ((b - 1) % h)
  <2>1. PICK a, q, r : a = b - 1 /\ q = a \div h /\ r = a % h
    OBVIOUS
  <2>2. a \in Nat /\ a < n
    BY <1>2, <2>1
  <2>3. q \in Nat /\ r \in 0 .. h - 1 /\ a = q * h + r
    BY <2>1, <2>2, Remainder
  <2>4. q * h < v * h
    <3>1. PICK z : z = q * h
      OBVIOUS
    <3>2. z \in Nat /\ z <= a
      BY <2>3, <3>1
    <3>3. n = v * h
      BY <1>1
    <3> QED BY <1>2, <2>2, <3>1, <3>2, <3>3
  <2>5. q < v
    BY <2>3, <2>4, Cancel
  <2> QED BY <2>1, <2>3, <2>5
<1>4. f \in Seq(R) /\ Len(f) = n
  <2>1. \A b \in 1 .. n : <<c, (b - 1) % h, (b - 1) \div h>> \in R
    BY <1>1, <1>3
  <2>2. f \in [1 .. n -> R]
    BY <1>1, <2>1
  <2> QED BY <1>2, <2>2, FunctionSeq
<1>5. ASSUME NEW b \in 1 .. Len(f), NEW d \in 1 .. Len(f), f[b] = f[d] PROVE b = d
  <2>1. b \in 1 .. n /\ d \in 1 .. n
    BY <1>4
  <2>2. (b - 1) % h = (d - 1) % h /\ (b - 1) \div h = (d - 1) \div h
    BY <1>1, <1>5, <2>1
  <2>3. b - 1 = d - 1
    BY <1>3, <2>1, <2>2
  <2> QED BY <2>1, <2>3
<1>6. ASSUME NEW x \in R PROVE \E b \in 1 .. Len(f) : f[b] = x
  <2>1. PICK q, r : q = x[3] /\ r = x[2]
    OBVIOUS
  <2>2. q \in 0 .. v - 1 /\ r \in 0 .. h - 1 /\ x = <<c, r, q>>
    BY <1>1, <2>1
  <2>3. PICK z : z = q * h
    OBVIOUS
  <2>4. z \in Nat /\ z + r + 1 <= n
    <3>1. (v - 1 - q) * h \in Nat
      <4>1. v - 1 - q \in Nat
        BY <2>2
      <4> QED BY <4>1
    <3>2. (v - 1 - q) * h = n - h - z /\ z \in Nat
      BY <1>1, <2>2, <2>3
    <3> QED BY <1>2, <2>2, <3>1, <3>2
  <2>5. (z + r) \div h = q /\ (z + r) % h = r
    BY <2>2, <2>3, QuotientIs, SMTT(30)
  <2>6. PICK b : b = z + r + 1
    OBVIOUS
  <2>7. b \in 1 .. n /\ b - 1 = z + r
    BY <1>2, <2>2, <2>4, <2>6
  <2>8. f[b] = <<c, r, q>>
    BY <1>1, <2>5, <2>7
  <2> QED BY <1>4, <2>2, <2>7, <2>8
<1>7. Once(f, R)
  BY <1>4, <1>5, <1>6 DEF Once
<1> QED BY <1>1, <1>7

LEMMA CellsOnce ==
  ASSUME NEW p, Legal(p), NEW s, s.comps \in Seq(DOMAIN p.factors), s.comps # <<>>, IsInjective(s.comps)
  PROVE  Once(Cells(p, s), UNION {{s.comps[i]} \X (0 .. H(p, s, s.comps[i]) - 1) \X (0 .. V(p, s, s.comps[i]) - 1)
                                    : i \in DOMAIN s.comps})
<1> DEFINE G(c) == [b \in 1 .. H(p, s, c) * V(p, s, c) |-> <<c, (b - 1) % H(p, s, c), (b - 1) \div H(p, s, c)>>]
           R(c) == {c} \X (0 .. H(p, s, c) - 1) \X (0 .. V(p, s, c) - 1)
<1>1. PICK n : n = Len(s.comps)
  OBVIOUS
<1>2. n \in Nat /\ DOMAIN s.comps = 1 .. n
  BY <1>1
<1>3. \A i \in 1 .. n : Once(G(s.comps[i]), R(s.comps[i]))
  <2> TAKE i \in 1 .. n
  <2>1. PICK c : c = s.comps[i]
    OBVIOUS
  <2>2. i \in DOMAIN s.comps
    BY <1>2
  <2>3. H(p, s, c) \in Nat \ {0} /\ V(p, s, c) \in Nat \ {0}
    BY <2>1, <2>2, UnitsFit
  <2>4. Once(G(c), R(c))
    BY <2>3, GridOnce
  <2> HIDE DEF G, R
  <2> QED BY <2>1, <2>4
<1>4. \A i, j \in 1 .. n : i # j => R(s.comps[i]) \cap R(s.comps[j]) = {}
  <2> TAKE i \in 1 .. n, j \in 1 .. n
  <2>1. i # j => s.comps[i] # s.comps[j]
    BY <1>2 DEF IsInjective
  <2> QED BY <2>1
<1>5. Cells(p, s) = FlattenSeq([i \in 1 .. n |-> G(s.comps[i])])
  BY <1>2 DEF Cells
<1> HIDE DEF G, R
<1>6. PICK f, A : f = [i \in 1 .. n |-> G(s.comps[i])] /\ A = [i \in 1 .. n |-> R(s.comps[i])]
  OBVIOUS
<1>7. /\ DOMAIN f = 1 .. n /\ f = [i \in 1 .. n |-> f[i]]
      /\ \A i \in 1 .. n : Once(f[i], A[i])
      /\ \A i, j \in 1 .. n : i # j => A[i] \cap A[j] = {}
  BY <1>3, <1>4, <1>6
<1>8. Once(FlattenSeq(f), UNION {A[i] : i \in 1 .. n})
  BY <1>2, <1>7, FlattenOnce
<1>9. UNION {A[i] : i \in 1 .. n} = UNION {R(s.comps[i]) : i \in DOMAIN s.comps}
  <2>1. \A i \in 1 .. n : A[i] = R(s.comps[i])
    BY <1>6
  <2> QED BY <1>2, <2>1
<1>10. Once(Cells(p, s), UNION {R(s.comps[i]) : i \in DOMAIN s.comps})
  BY <1>5, <1>6, <1>8, <1>9
<1> QED BY <1>10 DEF R

Ordered(p, order) ==
  /\ order \in Seq([at : Buffer(p), interval : Nat])
  /\ \A b, c \in DOMAIN order : order[b].at = order[c].at => b = c
  /\ \A b, c \in DOMAIN order : b <= c => order[b].interval <= order[c].interval

(* Column and row of unit u in rows of X units, with x of h in the unit.   *)
LEMMA UnitPlace ==
  ASSUME NEW X \in Nat, NEW Y \in Nat, NEW u \in 0 .. X * Y - 1,
         NEW h \in Nat \ {0}, NEW x \in 0 .. h - 1, NEW v \in Nat \ {0}, NEW y \in 0 .. v - 1
  PROVE  /\ u % X \in Nat /\ u \div X \in Nat
         /\ (u % X) * h + x \in 0 .. X * h - 1
         /\ (u \div X) * v + y \in 0 .. Y * v - 1
         /\ u = (u \div X) * X + (u % X)
<1>1. X \in Nat \ {0}
  <2>1. X # 0
    <3>1. SUFFICES ASSUME X = 0 PROVE FALSE
      OBVIOUS
    <3>2. X * Y = 0
      BY <3>1
    <3> QED BY <3>2
  <2> QED BY <2>1
<1>2. PICK q, r, z : q = u \div X /\ r = u % X /\ z = q * X
  OBVIOUS
<1>3. u \in Nat /\ X * Y \in Nat /\ u < X * Y
  OBVIOUS
<1>4. q \in Nat /\ r \in 0 .. X - 1 /\ u = z + r
  BY <1>1, <1>2, <1>3, Remainder
<1>5. z \in Nat
  BY <1>2, <1>4
<1>6. q < Y
  <2>1. q * X < Y * X
    <3>1. X * Y = Y * X
      OBVIOUS
    <3> QED BY <1>2, <1>3, <1>4, <1>5, <3>1
  <2> QED BY <1>1, <1>4, <2>1, Cancel
<1>7. ASSUME NEW a \in Nat, NEW m \in Nat, a < m, NEW g \in Nat \ {0}, NEW b \in 0 .. g - 1
      PROVE  a * g + b \in 0 .. m * g - 1
  <2>1. PICK e : e = m - 1 - a
    OBVIOUS
  <2>2. e \in Nat /\ m = a + 1 + e
    BY <1>7, <2>1
  <2>3. m * g = a * g + g + e * g /\ e * g \in Nat /\ a * g \in Nat
    BY <2>2
  <2>4. PICK s, t, w : s = m * g /\ t = a * g /\ w = e * g
    OBVIOUS
  <2>5. s = t + g + w /\ w \in Nat /\ t \in Nat
    BY <2>3, <2>4
  <2>6. t + b \in 0 .. s - 1
    BY <2>5
  <2> QED BY <2>4, <2>6
<1>8. r * h + x \in 0 .. X * h - 1
  <2>1. r \in Nat /\ r < X
    BY <1>1, <1>4
  <2> QED BY <1>7, <2>1
<1>9. q * v + y \in 0 .. Y * v - 1
  BY <1>4, <1>6, <1>7
<1> QED BY <1>2, <1>4, <1>8, <1>9

LEMMA BlocksOrdered ==
  ASSUME NEW p, Legal(p), NEW s, s.comps \in Seq(DOMAIN p.factors), s.comps # <<>>, IsInjective(s.comps)
  PROVE  Ordered(p, Blocks(p, s))
<1> DEFINE R(c) == {c} \X (0 .. H(p, s, c) - 1) \X (0 .. V(p, s, c) - 1)
<1>1. PICK cells, m, X, Y, W : cells = Cells(p, s) /\ m = Len(cells) /\ X = UnitsX(p, s) /\ Y = UnitsY(p, s)
                               /\ W = UNION {R(s.comps[i]) : i \in DOMAIN s.comps}
  OBVIOUS
<1>2. Once(cells, W)
  BY <1>1, CellsOnce
<1>3. cells \in Seq(W) /\ m \in Nat /\ \A i, j \in 1 .. m : cells[i] = cells[j] => i = j
  BY <1>1, <1>2 DEF Once
<1>4. X \in Nat /\ Y \in Nat
  <2>1. 1 \in DOMAIN s.comps
    OBVIOUS
  <2> QED BY <1>1, <2>1, UnitsFit
<1>5. ASSUME NEW x \in W
      PROVE  /\ x[1] \in DOMAIN p.factors /\ x = <<x[1], x[2], x[3]>>
             /\ H(p, s, x[1]) \in Nat \ {0} /\ V(p, s, x[1]) \in Nat \ {0}
             /\ x[2] \in 0 .. H(p, s, x[1]) - 1 /\ x[3] \in 0 .. V(p, s, x[1]) - 1
             /\ McusX(p) * p.factors[x[1]][1] \in Nat /\ McusY(p) * p.factors[x[1]][2] \in Nat
             /\ X * H(p, s, x[1]) <= McusX(p) * p.factors[x[1]][1]
             /\ Y * V(p, s, x[1]) <= McusY(p) * p.factors[x[1]][2]
  <2>1. PICK i \in DOMAIN s.comps : x \in R(s.comps[i])
    BY <1>1
  <2>2. PICK c : c = s.comps[i]
    OBVIOUS
  <2>3. x[1] = c /\ x[2] \in 0 .. H(p, s, c) - 1 /\ x[3] \in 0 .. V(p, s, c) - 1 /\ x = <<x[1], x[2], x[3]>>
    BY <2>1, <2>2
  <2>4. /\ c \in DOMAIN p.factors
        /\ H(p, s, c) \in Nat \ {0} /\ V(p, s, c) \in Nat \ {0}
        /\ McusX(p) * p.factors[c][1] \in Nat /\ McusY(p) * p.factors[c][2] \in Nat
        /\ UnitsX(p, s) * H(p, s, c) <= McusX(p) * p.factors[c][1]
        /\ UnitsY(p, s) * V(p, s, c) <= McusY(p) * p.factors[c][2]
    BY <2>2, UnitsFit
  <2> QED BY <1>1, <2>3, <2>4
<1> DEFINE Unit(b) == (b - 1) \div m
           Cell(b) == cells[((b - 1) % m) + 1]
           At(b) == <<Cell(b)[1], (Unit(b) % X) * H(p, s, Cell(b)[1]) + Cell(b)[2],
                                  (Unit(b) \div X) * V(p, s, Cell(b)[1]) + Cell(b)[3]>>
           Span(b) == IF p.interval = 0 THEN 0 ELSE Unit(b) \div p.interval
<1>6. PICK n : n = X * Y * m
  OBVIOUS
<1>7. n \in Nat
  BY <1>3, <1>4, <1>6
<1>8. Blocks(p, s) = [b \in 1 .. n |-> [at |-> At(b), interval |-> Span(b)]]
  BY <1>1, <1>6 DEF Blocks
<1>9. ASSUME NEW b \in 1 .. n
      PROVE  /\ m > 0 /\ b - 1 = Unit(b) * m + ((b - 1) % m)
             /\ (b - 1) % m \in 0 .. m - 1
             /\ Unit(b) \in 0 .. X * Y - 1 /\ Cell(b) \in W
             /\ ((b - 1) % m) + 1 \in 1 .. m
  <2>1. PICK z : z = X * Y
    OBVIOUS
  <2>2. z \in Nat /\ n = z * m
    BY <1>3, <1>4, <1>6, <2>1
  <2>3. m # 0
    <3>1. SUFFICES ASSUME m = 0 PROVE FALSE
      OBVIOUS
    <3>2. n = 0
      BY <2>2, <3>1
    <3> QED BY <3>2
  <2>4. PICK a, u, r : a = b - 1 /\ u = a \div m /\ r = a % m
    OBVIOUS
  <2>5. a \in Nat /\ a < n /\ m \in Nat \ {0}
    BY <1>3, <1>7, <2>3, <2>4
  <2>6. u \in Nat /\ r \in 0 .. m - 1 /\ a = u * m + r
    BY <2>4, <2>5, Remainder
  <2>7. u < z
    <3>1. PICK y : y = u * m
      OBVIOUS
    <3>2. y \in Nat /\ y <= a
      BY <2>5, <2>6, <3>1
    <3>3. u * m < z * m
      BY <1>7, <2>2, <2>5, <3>1, <3>2
    <3> QED BY <2>2, <2>5, <2>6, <3>3, Cancel
  <2>8. r + 1 \in 1 .. m
    BY <2>5, <2>6
  <2>9. cells[r + 1] \in W
    BY <1>1, <1>3, <2>8
  <2>10. Unit(b) = u /\ (b - 1) % m = r /\ Cell(b) = cells[r + 1]
    BY <2>4
  <2> HIDE DEF Unit, Cell
  <2>11. m > 0 /\ u \in 0 .. z - 1
    BY <2>2, <2>5, <2>6, <2>7
  <2> QED BY <2>1, <2>4, <2>6, <2>8, <2>9, <2>10, <2>11
<1>10. ASSUME NEW b \in 1 .. n PROVE At(b) \in Buffer(p)
  <2>1. PICK u, x, c : u = Unit(b) /\ x = Cell(b) /\ c = x[1]
    OBVIOUS
  <2>2. u \in 0 .. X * Y - 1 /\ x \in W
    BY <1>9, <2>1
  <2>3. /\ c \in DOMAIN p.factors
        /\ H(p, s, c) \in Nat \ {0} /\ V(p, s, c) \in Nat \ {0}
        /\ x[2] \in 0 .. H(p, s, c) - 1 /\ x[3] \in 0 .. V(p, s, c) - 1
    BY <1>5, <2>1, <2>2
  <2>4. /\ McusX(p) * p.factors[c][1] \in Nat /\ McusY(p) * p.factors[c][2] \in Nat
        /\ X * H(p, s, c) <= McusX(p) * p.factors[c][1]
        /\ Y * V(p, s, c) <= McusY(p) * p.factors[c][2]
    BY <1>5, <2>1, <2>2
  <2>5. PICK h, v, y, z, e, g, M, N :
          /\ h = H(p, s, c) /\ v = V(p, s, c) /\ y = x[2] /\ z = x[3]
          /\ e = (u % X) * h + y /\ g = (u \div X) * v + z
          /\ M = McusX(p) * p.factors[c][1] /\ N = McusY(p) * p.factors[c][2]
    OBVIOUS
  <2>6. /\ h \in Nat \ {0} /\ v \in Nat \ {0} /\ y \in 0 .. h - 1 /\ z \in 0 .. v - 1
        /\ M \in Nat /\ N \in Nat /\ X * h <= M /\ Y * v <= N
    BY <2>3, <2>4, <2>5
  <2>7. e \in 0 .. X * h - 1 /\ g \in 0 .. Y * v - 1 /\ X * h \in Nat /\ Y * v \in Nat
    <3>1. (u % X) * h + y \in 0 .. X * h - 1
      BY <1>4, <2>2, <2>6, UnitPlace
    <3>2. (u \div X) * v + z \in 0 .. Y * v - 1
      BY <1>4, <2>2, <2>6, UnitPlace
    <3>3. X * h \in Nat /\ Y * v \in Nat
      BY <1>4, <2>6
    <3> QED BY <2>5, <3>1, <3>2, <3>3
  <2>8. e \in 0 .. M - 1 /\ g \in 0 .. N - 1
    BY <2>6, <2>7
  <2>9. <<c, e, g>> \in {c} \X (0 .. McusX(p) * p.factors[c][1] - 1) \X (0 .. McusY(p) * p.factors[c][2] - 1)
    BY <2>5, <2>8
  <2>10. At(b) = <<c, e, g>>
    BY <2>1, <2>5
  <2> HIDE DEF At
  <2> QED BY <2>3, <2>9, <2>10 DEF Buffer
<1>11. ASSUME NEW b \in 1 .. n, NEW d \in 1 .. n, At(b) = At(d) PROVE b = d
  <2>1. PICK u, x, w, y, c, h, v : u = Unit(b) /\ x = Cell(b) /\ w = Unit(d) /\ y = Cell(d) /\ c = x[1]
                                   /\ h = H(p, s, c) /\ v = V(p, s, c)
    OBVIOUS
  <2>2. /\ y[1] = c
        /\ (u % X) * h + x[2] = (w % X) * h + y[2]
        /\ (u \div X) * v + x[3] = (w \div X) * v + y[3]
    BY <1>11, <2>1
  <2>3. u \in 0 .. X * Y - 1 /\ x \in W /\ w \in 0 .. X * Y - 1 /\ y \in W
    BY <1>9, <2>1
  <2>4. /\ h \in Nat \ {0} /\ v \in Nat \ {0}
        /\ x[2] \in 0 .. h - 1 /\ x[3] \in 0 .. v - 1
        /\ y[2] \in 0 .. h - 1 /\ y[3] \in 0 .. v - 1
        /\ x = <<c, x[2], x[3]>> /\ y = <<c, y[2], y[3]>>
    BY <1>5, <2>1, <2>2, <2>3
  <2>5. u % X \in Nat /\ u \div X \in Nat /\ u = (u \div X) * X + (u % X)
    BY <1>4, <2>3, <2>4, UnitPlace
  <2>6. w % X \in Nat /\ w \div X \in Nat /\ w = (w \div X) * X + (w % X)
    BY <1>4, <2>3, <2>4, UnitPlace
  <2>7. u % X = w % X /\ x[2] = y[2]
    <3>1. PICK q, r, e, f : q = u % X /\ r = w % X /\ e = x[2] /\ f = y[2]
      OBVIOUS
    <3>2. q \in Nat /\ r \in Nat /\ e \in 0 .. h - 1 /\ f \in 0 .. h - 1 /\ q * h + e = r * h + f
      BY <2>2, <2>4, <2>5, <2>6, <3>1
    <3>3. q = r /\ e = f
      <4>1. (q * h + e) \div h = q /\ (q * h + e) % h = e
        BY <2>4, <3>2, QuotientIs
      <4>2. (r * h + f) \div h = r /\ (r * h + f) % h = f
        BY <2>4, <3>2, QuotientIs
      <4> QED BY <3>2, <4>1, <4>2
    <3> QED BY <3>1, <3>3
  <2>8. u \div X = w \div X /\ x[3] = y[3]
    <3>1. PICK q, r, e, f : q = u \div X /\ r = w \div X /\ e = x[3] /\ f = y[3]
      OBVIOUS
    <3>2. q \in Nat /\ r \in Nat /\ e \in 0 .. v - 1 /\ f \in 0 .. v - 1 /\ q * v + e = r * v + f
      BY <2>2, <2>4, <2>5, <2>6, <3>1
    <3>3. q = r /\ e = f
      <4>1. (q * v + e) \div v = q /\ (q * v + e) % v = e
        BY <2>4, <3>2, QuotientIs
      <4>2. (r * v + f) \div v = r /\ (r * v + f) % v = f
        BY <2>4, <3>2, QuotientIs
      <4> QED BY <3>2, <4>1, <4>2
    <3> QED BY <3>1, <3>3
  <2>9. u = w /\ x = y
    BY <2>4, <2>5, <2>6, <2>7, <2>8
  <2>10. (b - 1) % m = (d - 1) % m
    <3>1. /\ ((b - 1) % m) + 1 \in 1 .. m /\ ((d - 1) % m) + 1 \in 1 .. m
          /\ (b - 1) % m \in 0 .. m - 1 /\ (d - 1) % m \in 0 .. m - 1
      BY <1>9
    <3>2. cells[((b - 1) % m) + 1] = cells[((d - 1) % m) + 1]
      BY <2>1, <2>9
    <3>3. ((b - 1) % m) + 1 = ((d - 1) % m) + 1
      BY <1>3, <3>1, <3>2
    <3>4. PICK q, r : q = (b - 1) % m /\ r = (d - 1) % m
      OBVIOUS
    <3> QED BY <1>3, <3>1, <3>3, <3>4
  <2>11. b - 1 = u * m + ((b - 1) % m) /\ d - 1 = w * m + ((d - 1) % m)
    BY <1>9, <2>1
  <2>12. b - 1 = d - 1
    BY <2>9, <2>10, <2>11
  <2> QED BY <2>12
<1>12. ASSUME NEW b \in 1 .. n, NEW d \in 1 .. n, b <= d PROVE Span(b) <= Span(d)
  <2>1. m \in Nat \ {0}
    BY <1>3, <1>9
  <2>2. Unit(b) \in Nat /\ Unit(d) \in Nat /\ Unit(b) <= Unit(d)
    <3>1. PICK i, j : i = b - 1 /\ j = d - 1
      OBVIOUS
    <3>2. i \in Nat /\ j \in Nat /\ i <= j
      BY <1>12, <3>1
    <3>3. i \div m \in Nat /\ j \div m \in Nat /\ i \div m <= j \div m
      BY <2>1, <3>2, QuotientGrows
    <3> QED BY <3>1, <3>3
  <2>3. p.interval \in Nat
    BY FrameIs
  <2>4. CASE p.interval = 0
    BY <2>4
  <2>5. CASE p.interval # 0
    <3>1. PICK i, j, q : i = Unit(b) /\ j = Unit(d) /\ q = p.interval
      OBVIOUS
    <3>2. q \in Nat \ {0} /\ i \in Nat /\ j \in Nat /\ i <= j
      BY <2>2, <2>3, <2>5, <3>1
    <3>3. i \div q <= j \div q
      BY <3>2, QuotientGrows
    <3>4. Span(b) = i \div q /\ Span(d) = j \div q
      BY <2>5, <3>1
    <3> QED BY <3>3, <3>4
  <2> QED BY <2>4, <2>5
<1>13. ASSUME NEW b \in 1 .. n PROVE Span(b) \in Nat
  <2>1. Unit(b) \in 0 .. X * Y - 1 /\ X * Y \in Nat
    BY <1>4, <1>9
  <2>2. p.interval \in Nat
    BY FrameIs
  <2>3. CASE p.interval = 0
    BY <2>3
  <2>4. CASE p.interval # 0
    <3>1. PICK i, q : i = Unit(b) /\ q = p.interval
      OBVIOUS
    <3>2. i \in Nat /\ q \in Nat \ {0}
      BY <2>1, <2>2, <2>4, <3>1
    <3>3. i \div q \in Nat
      BY <3>2, Division
    <3> QED BY <2>4, <3>1, <3>3
  <2> QED BY <2>3, <2>4
<1> HIDE DEF At, Span
<1>14. PICK f : f = [b \in 1 .. n |-> [at |-> At(b), interval |-> Span(b)]]
  OBVIOUS
<1>15. \A b \in 1 .. n : f[b].at = At(b) /\ f[b].interval = Span(b)
  BY <1>14
<1>16. f \in Seq([at : Buffer(p), interval : Nat]) /\ Len(f) = n
  <2>1. f \in [1 .. n -> [at : Buffer(p), interval : Nat]]
    BY <1>10, <1>13, <1>14
  <2> QED BY <1>7, <2>1, FunctionSeq
<1>17. DOMAIN f = 1 .. n
  BY <1>14
<1>18. Ordered(p, f)
  BY <1>11, <1>12, <1>15, <1>16, <1>17 DEF Ordered
<1> QED BY <1>8, <1>14, <1>18

-------------------------------------------------------------------------------
(* What the decoder knows of a scan.                                       *)

Sound(p, s) ==
  /\ Ordered(p, s.order) /\ Len(s.order) \in Nat /\ DOMAIN s.order = 1 .. Len(s.order)
  /\ s.ss \in 0 .. Final /\ s.se \in s.ss .. Final /\ s.ah \in Nat /\ s.al \in Nat
  /\ s.ah > 0 => s.al = s.ah - 1 /\ p.progressive
  /\ p.progressive => (s.ss = 0 => s.se = 0)
  /\ ~p.progressive => s.ss = 0 /\ s.se = Final /\ s.al = 0
  /\ \A b \in DOMAIN s.order : s.order[b].at \in Buffer(p) /\ s.order[b].interval \in Nat
  /\ \A b \in DOMAIN s.order : \A j \in s.ss .. s.se : Value(p, s, b, j) \in Sample

LEMMA ScanSound ==
  ASSUME NEW p, Legal(p), Final \in Nat, NEW n \in DOMAIN p.script, NEW o, o = Opened(p, p.script[n])
  PROVE  Sound(p, o)
<1>1. /\ p.script[n] \in [comps : Seq(DOMAIN p.factors), ss : Nat, se : Nat, ah : 0 .. 13, al : 0 .. 13]
      /\ o.order = Blocks(p, p.script[n])
      /\ o.ss \in 0 .. Final /\ o.se \in o.ss .. Final /\ o.ah \in Nat /\ o.al \in Nat
      /\ o.ah > 0 => o.al = o.ah - 1 /\ p.progressive
      /\ p.progressive => (o.ss = 0 => o.se = 0)
      /\ ~p.progressive => o.ss = 0 /\ o.se = Final /\ o.al = 0
  BY ScanFields
<1>2. Ordered(p, o.order)
  <2>1. PICK s : s = p.script[n]
    OBVIOUS
  <2>2. s.comps \in Seq(DOMAIN p.factors)
    BY <1>1, <2>1
  <2>3. LegalScan(p, n)
    BY DEF Legal
  <2>4. s.comps # <<>> /\ IsInjective(s.comps)
    BY <2>1, <2>3 DEF LegalScan
  <2> QED BY <1>1, <2>1, <2>2, <2>4, BlocksOrdered
<1>3. o.order \in Seq([at : Buffer(p), interval : Nat])
  BY <1>2 DEF Ordered
<1>4. Len(o.order) \in Nat /\ DOMAIN o.order = 1 .. Len(o.order)
  <2>1. PICK f, S : f = o.order /\ S = [at : Buffer(p), interval : Nat]
    OBVIOUS
  <2>2. f \in Seq(S)
    BY <1>3, <2>1
  <2> QED BY <2>1, <2>2
<1>5. \A b \in DOMAIN o.order : o.order[b].at \in Buffer(p) /\ o.order[b].interval \in Nat
  <2>1. PICK f, S : f = o.order /\ S = [at : Buffer(p), interval : Nat]
    OBVIOUS
  <2>2. f \in Seq(S)
    BY <1>3, <2>1
  <2>3. \A b \in DOMAIN f : f[b] \in S
    BY <2>2
  <2>4. \A x \in S : x.at \in Buffer(p) /\ x.interval \in Nat
    BY <2>1
  <2> QED BY <2>1, <2>3, <2>4
<1>6. ASSUME NEW b \in DOMAIN o.order, NEW j \in o.ss .. o.se PROVE Value(p, o, b, j) \in Sample
  <2>1. p.image \in [Buffer(p) -> [0 .. Final -> Sample]]
    BY DEF Legal, LegalImage, Sample
  <2>2. o.order[b].at \in Buffer(p)
    BY <1>5
  <2>3. p.image[o.order[b].at] \in [0 .. Final -> Sample]
    BY <2>1, <2>2
  <2>4. j \in 0 .. Final
    BY <1>1
  <2>5. p.image[o.order[b].at][j] \in Sample
    BY <2>3, <2>4
  <2> QED BY <2>5 DEF Value
<1> QED BY <1>1, <1>2, <1>4, <1>5, <1>6 DEF Sound

LEMMA CarriesIs ==
  ASSUME NEW p, Legal(p), NEW n \in DOMAIN p.script, NEW s, s = Opened(p, p.script[n]), NEW at, NEW j
  PROVE  Carries(p, p.script[n], at, j) <=> j \in s.ss .. s.se /\ \E b \in DOMAIN s.order : s.order[b].at = at
BY DEF Carries

(* A scan begins and ends.                                                 *)
LEMMA ScanBegins ==
  ASSUME NEW p, Legal(p), Final \in Nat, NEW n \in Nat, n + 1 \in DOMAIN p.script,
         NEW s, s = Opened(p, p.script[n + 1]), NEW x,
         \A at \in Buffer(p) : \A j \in 0 .. Final : x[at][j] = Precise(p, n, at, j)
  PROVE  Made(p, s, 1, 0, x) /\ Kept(p, n, x)
<1>1. Sound(p, s)
  BY ScanSound
<1>2. ASSUME NEW b \in DOMAIN s.order, NEW j \in s.ss .. s.se
      PROVE  x[s.order[b].at][j] = IF b < 1 \/ (b = 1 /\ j < 0) THEN Becomes(p, s, b, j) ELSE Was(p, s, b, j)
  <2>1. s.order[b].at \in Buffer(p) /\ j \in 0 .. Final /\ b >= 1 /\ j >= 0 /\ b \in Int /\ j \in Int
    BY <1>1 DEF Sound
  <2>2. Carries(p, p.script[n + 1], s.order[b].at, j)
    BY CarriesIs
  <2>3. PICK at : at = s.order[b].at
    OBVIOUS
  <2>4. at \in Buffer(p) /\ Carries(p, p.script[n + 1], at, j) /\ p.image[at][j] = Value(p, s, b, j)
    BY <2>1, <2>2, <2>3 DEF Value
  <2>5. Precise(p, (n + 1) - 1, at, j) = IF s.ah = 0 THEN 0 ELSE Approx(p.image[at][j], j, s.ah)
    BY <2>1, <2>4, PreciseMade
  <2>6. (n + 1) - 1 = n
    OBVIOUS
  <2>7. Precise(p, n, at, j) = Was(p, s, b, j)
    BY <2>4, <2>5, <2>6 DEF Was
  <2>8. x[at][j] = Precise(p, n, at, j)
    BY <2>1, <2>4
  <2>9. ~(b < 1 \/ (b = 1 /\ j < 0))
    BY <2>1
  <2> QED BY <2>3, <2>7, <2>8, <2>9
<1>3. Made(p, s, 1, 0, x)
  BY <1>2 DEF Made
<1>4. Kept(p, n, x)
  BY DEF Kept
<1> QED BY <1>3, <1>4

(* After n scans every coefficient is as precise as they have made it.     *)
Exact(p, n, x) == \A at \in Buffer(p) : \A j \in 0 .. Final : x[at][j] = Precise(p, n, at, j)

LEMMA ScanFinishes ==
  ASSUME NEW p, Legal(p), Final \in Nat, NEW n \in Nat, n + 1 \in DOMAIN p.script,
         NEW s, s = Opened(p, p.script[n + 1]), NEW x,
         NEW c \in Nat, c > Len(s.order), NEW m, Made(p, s, c, m, x), Kept(p, n, x)
  PROVE  Exact(p, n + 1, x)
<1>1. Sound(p, s)
  BY ScanSound
<1> SUFFICES ASSUME NEW at \in Buffer(p), NEW j \in 0 .. Final
             PROVE  x[at][j] = Precise(p, n + 1, at, j)
  BY DEF Exact
<1>2. n + 1 \in Nat \ {0} /\ (n + 1) - 1 = n
  OBVIOUS
<1>3. CASE Carries(p, p.script[n + 1], at, j)
  <2>1. j \in s.ss .. s.se
    BY <1>3, CarriesIs
  <2>2. PICK b \in DOMAIN s.order : s.order[b].at = at
    BY <1>3 DEF Carries
  <2>3. b < c
    BY <1>1 DEF Sound
  <2>4. x[at][j] = Becomes(p, s, b, j)
    BY <2>1, <2>2, <2>3 DEF Made
  <2>5. Precise(p, n + 1, at, j) = Approx(p.image[at][j], j, s.al)
    BY <1>3, PreciseMade
  <2> QED BY <2>2, <2>4, <2>5 DEF Becomes, Value
<1>4. CASE ~Carries(p, p.script[n + 1], at, j)
  <2>1. x[at][j] = Precise(p, n, at, j)
    BY <1>4 DEF Kept
  <2>2. Precise(p, n + 1, at, j) = Precise(p, (n + 1) - 1, at, j)
    BY <1>2, <1>4, PreciseKept
  <2> QED BY <1>2, <2>1, <2>2
<1> QED BY <1>3, <1>4

LEMMA ProductZero ==
  ASSUME NEW a \in Int, NEW q \in Nat \ {0}
  PROVE  a * q \in Int /\ (a * q = 0 <=> a = 0)
<1>1. a * q \in Int
  OBVIOUS
<1>2. ASSUME a * q = 0 PROVE a = 0
  <2>1. CASE a >= 1
    <3>1. a * q >= q
      BY <2>1
    <3> QED BY <1>2, <3>1
  <2>2. CASE a <= -1
    <3>1. a * q <= -q
      BY <2>2
    <3> QED BY <1>2, <3>1
  <2> QED BY <2>1, <2>2
<1>3. a = 0 => a * q = 0
  OBVIOUS
<1> QED BY <1>1, <1>2, <1>3

(* What a scan makes of AC coefficients.                                   *)
LEMMA AcValues ==
  ASSUME NEW p, NEW s, Sound(p, s), NEW b \in DOMAIN s.order, NEW j \in s.ss .. s.se, j > 0
  PROVE  /\ Was(p, s, b, j) \in Int
         /\ Becomes(p, s, b, j) = Point(Value(p, s, b, j), s.al) * Pow2[s.al] /\ Becomes(p, s, b, j) \in Int
         /\ Old(p, s, b, j) <=> Was(p, s, b, j) # 0
         /\ ~Old(p, s, b, j) /\ ~New(p, s, b, j) => Becomes(p, s, b, j) = 0
         /\ s.ah = 0 => ~Old(p, s, b, j)
         /\ s.ah > 0 /\ New(p, s, b, j) => Point(Value(p, s, b, j), s.al) \in {-1, 1}
<1>1. PICK x : x = Value(p, s, b, j)
  OBVIOUS
<1>2. x \in Sample /\ s.al \in Nat /\ s.ah \in Nat /\ (s.ah > 0 => s.al = s.ah - 1) /\ j \in Nat
  BY <1>1 DEF Sound
<1>3. x \in Int
  BY <1>2, SampleIs
<1>4. Point(x, s.al) \in Int /\ Point(x, s.ah) \in Int
  BY <1>2, PointFits
<1>5. PICK q, r : q = Pow2[s.al] /\ r = Pow2[s.ah]
  OBVIOUS
<1>6. q \in Nat \ {0} /\ r \in Nat \ {0}
  BY <1>2, <1>5, Pow2Is
<1>7. /\ Becomes(p, s, b, j) = Point(x, s.al) * q
      /\ Was(p, s, b, j) = IF s.ah = 0 THEN 0 ELSE Point(x, s.ah) * r
      /\ j # 0
  BY <1>1, <1>2, <1>5 DEF Becomes, Was, Approx
<1>8. /\ Point(x, s.al) * q \in Int /\ (Point(x, s.al) * q = 0 <=> Point(x, s.al) = 0)
      /\ Point(x, s.ah) * r \in Int /\ (Point(x, s.ah) * r = 0 <=> Point(x, s.ah) = 0)
  BY <1>4, <1>6, ProductZero
<1>9. Old(p, s, b, j) <=> s.ah > 0 /\ Point(x, s.ah) # 0
  BY <1>1 DEF Old
<1>10. New(p, s, b, j) <=> ~Old(p, s, b, j) /\ Point(x, s.al) # 0
  BY <1>1 DEF New
<1>11. CASE s.ah = 0
  BY <1>1, <1>2, <1>5, <1>7, <1>8, <1>9, <1>10, <1>11
<1>12. CASE s.ah > 0
  <2>1. s.ah = s.al + 1
    BY <1>2, <1>12
  <2>2. Point(x, s.ah) = 0 => Point(x, s.al) \in {-1, 0, 1}
    BY <1>2, <1>3, <2>1, AcNew
  <2> QED BY <1>1, <1>2, <1>5, <1>7, <1>8, <1>9, <1>10, <1>12, <2>2
<1> QED BY <1>2, <1>11, <1>12

LEMMA AcRefined ==
  ASSUME NEW p, NEW s, Sound(p, s), NEW b \in DOMAIN s.order, NEW j \in s.ss .. s.se, j > 0,
         Old(p, s, b, j), NEW y, y = Was(p, s, b, j)
  PROVE  Becomes(p, s, b, j) =
           IF HasBit(Abs(Value(p, s, b, j)), s.al) /\ ~HasBit(y, s.al) THEN y + Sign(y) * Pow2[s.al] ELSE y
<1>1. PICK x : x = Value(p, s, b, j)
  OBVIOUS
<1>2. x \in Sample /\ s.al \in Nat /\ s.ah \in Nat /\ (s.ah > 0 => s.al = s.ah - 1) /\ j \in Nat \ {0}
  BY <1>1 DEF Sound
<1>3. x \in Int
  BY <1>2, SampleIs
<1>4. s.ah > 0 /\ Point(x, s.ah) # 0
  BY <1>1 DEF Old
<1>5. s.ah = s.al + 1
  BY <1>2, <1>4
<1>6. y = Approx(x, j, s.al + 1) /\ Point(x, s.al + 1) # 0
  BY <1>1, <1>4, <1>5 DEF Was
<1>7. Approx(x, j, s.al) = IF HasBit(Abs(x), s.al) /\ ~HasBit(y, s.al) THEN y + Sign(y) * Pow2[s.al] ELSE y
  BY <1>2, <1>3, <1>6, AcCorrected
<1> QED BY <1>1, <1>7 DEF Becomes

(* The decoder moves over what does not change.                            *)
LEMMA MadeMoves ==
  ASSUME NEW p, NEW s, NEW c, NEW m, NEW x, Made(p, s, c, m, x), NEW d, NEW i,
         \A b \in DOMAIN s.order : \A j \in s.ss .. s.se :
           \/ (b < c \/ (b = c /\ j < m)) <=> (b < d \/ (b = d /\ j < i))
           \/ Becomes(p, s, b, j) = Was(p, s, b, j)
  PROVE  Made(p, s, d, i, x)
BY DEF Made

(* It makes part of a block.                                               *)
RowMade(p, s, b, j, i, x, row) ==
  \A l \in 0 .. Final : row[l] = IF l \in j .. i - 1 THEN Becomes(p, s, b, l) ELSE x[s.order[b].at][l]

RowStep(p, n, s, x, b, j, i, row, y) ==
  /\ Legal(p) /\ Final \in Nat /\ n \in Nat /\ n + 1 \in DOMAIN p.script /\ s = Opened(p, p.script[n + 1])
  /\ x \in [Buffer(p) -> [0 .. Final -> Int]]
  /\ b \in DOMAIN s.order /\ j \in s.ss .. s.se + 1 /\ i \in j .. s.se + 1
  /\ Made(p, s, b, j, x) /\ Kept(p, n, x)
  /\ row \in [0 .. Final -> Int] /\ RowMade(p, s, b, j, i, x, row)
  /\ y = [x EXCEPT ![s.order[b].at] = row]

LEMMA RowMakes ==
  ASSUME NEW p, NEW n, NEW s, NEW x, NEW b, NEW j, NEW i, NEW row, NEW y, RowStep(p, n, s, x, b, j, i, row, y)
  PROVE  y \in [Buffer(p) -> [0 .. Final -> Int]] /\ Made(p, s, b, i, y) /\ Kept(p, n, y)
<1> SUFFICES ASSUME Legal(p), Final \in Nat, n \in Nat, n + 1 \in DOMAIN p.script,
                    s = Opened(p, p.script[n + 1]),
                    x \in [Buffer(p) -> [0 .. Final -> Int]],
                    b \in DOMAIN s.order, j \in s.ss .. s.se + 1, i \in j .. s.se + 1,
                    Made(p, s, b, j, x), Kept(p, n, x),
                    row \in [0 .. Final -> Int], RowMade(p, s, b, j, i, x, row),
                    y = [x EXCEPT ![s.order[b].at] = row]
             PROVE  y \in [Buffer(p) -> [0 .. Final -> Int]] /\ Made(p, s, b, i, y) /\ Kept(p, n, y)
  BY DEF RowStep
<1>0. \A l \in 0 .. Final : row[l] = IF l \in j .. i - 1 THEN Becomes(p, s, b, l) ELSE x[s.order[b].at][l]
  BY DEF RowMade
<1>1. Sound(p, s)
  BY ScanSound
<1>2. PICK at : at = s.order[b].at
  OBVIOUS
<1>3. at \in Buffer(p)
  BY <1>1, <1>2 DEF Sound
<1>4. /\ y \in [Buffer(p) -> [0 .. Final -> Int]] /\ y[at] = row
      /\ \A a \in Buffer(p) : a # at => y[a] = x[a]
  BY <1>2, <1>3
<1>5. /\ s.ss \in Int /\ s.se \in Int /\ s.ss >= 0 /\ s.se <= Final /\ b \in Int /\ j \in Int /\ i \in Int
      /\ j <= i /\ i <= s.se + 1 /\ s.ss <= j
  <2>1. PICK ss, se, n1 : ss = s.ss /\ se = s.se /\ n1 = Len(s.order)
    OBVIOUS
  <2>2. /\ ss \in 0 .. Final /\ se \in ss .. Final /\ Final \in Nat /\ n1 \in Nat
        /\ b \in 1 .. n1 /\ j \in ss .. se + 1 /\ i \in j .. se + 1
    BY <1>1, <2>1 DEF Sound
  <2>3. /\ ss \in Int /\ se \in Int /\ ss >= 0 /\ se <= Final /\ b \in Int /\ j \in Int /\ i \in Int
        /\ j <= i /\ i <= se + 1 /\ ss <= j
    BY ONLY <2>2
  <2> QED BY <2>1, <2>3
<1>6. ASSUME NEW c \in DOMAIN s.order, NEW l \in s.ss .. s.se
      PROVE  y[s.order[c].at][l] = IF c < b \/ (c = b /\ l < i) THEN Becomes(p, s, c, l) ELSE Was(p, s, c, l)
  <2>1. /\ s.order[c].at \in Buffer(p) /\ l \in 0 .. Final /\ c \in Int /\ l \in Int
        /\ x[s.order[c].at][l] = IF c < b \/ (c = b /\ l < j) THEN Becomes(p, s, c, l) ELSE Was(p, s, c, l)
    <3>1. s.order[c].at \in Buffer(p) /\ c \in Int
      <4>1. /\ \A e \in DOMAIN s.order : s.order[e].at \in Buffer(p)
            /\ DOMAIN s.order = 1 .. Len(s.order) /\ Len(s.order) \in Nat
        BY <1>1, SMTT(30) DEF Sound
      <4>2. PICK n1 : n1 = Len(s.order)
        OBVIOUS
      <4>3. c \in 1 .. n1 /\ n1 \in Nat
        BY <4>1, <4>2
      <4>4. c \in Int
        BY ONLY <4>3
      <4> QED BY <4>1, <4>4
    <3>2. l \in 0 .. Final /\ l \in Int
      <4>1. PICK ss, se : ss = s.ss /\ se = s.se
        OBVIOUS
      <4>2. ss \in Int /\ se \in Int /\ ss >= 0 /\ se <= Final /\ l \in ss .. se /\ Final \in Nat
        BY <1>5, <4>1
      <4> QED BY ONLY <4>2
    <3>3. x[s.order[c].at][l] = IF c < b \/ (c = b /\ l < j) THEN Becomes(p, s, c, l) ELSE Was(p, s, c, l)
      BY DEF Made
    <3> QED BY <3>1, <3>2, <3>3
  <2>2. CASE c = b
    <3>1. y[s.order[c].at][l] = row[l]
      BY <1>2, <1>4, <2>2
    <3>2. CASE l \in j .. i - 1
      <4>1. row[l] = Becomes(p, s, c, l)
        BY <1>0, <2>1, <2>2, <3>2
      <4>2. l < i
        <5>1. l \in Int /\ j \in Int /\ i \in Int /\ l \in j .. i - 1
          BY <1>5, <2>1, <3>2
        <5> QED BY ONLY <5>1
      <4> QED BY <2>2, <3>1, <4>1, <4>2
    <3>3. CASE l \notin j .. i - 1
      <4>1. row[l] = x[s.order[c].at][l]
        BY <1>0, <2>1, <2>2, <3>3
      <4>2. l < j <=> l < i
        <5>1. l \in Int /\ j \in Int /\ i \in Int /\ j <= i /\ l \notin j .. i - 1
          BY <1>5, <2>1, <3>3
        <5> QED BY ONLY <5>1
      <4> QED BY <2>1, <2>2, <3>1, <4>1, <4>2
    <3> QED BY <3>2, <3>3
  <2>3. CASE c # b
    <3>1. s.order[c].at # at
      BY <1>1, <1>2, <2>3 DEF Sound, Ordered
    <3>2. y[s.order[c].at] = x[s.order[c].at]
      BY <1>4, <2>1, <3>1
    <3> QED BY <2>1, <2>3, <3>2
  <2> QED BY <2>2, <2>3
<1>7. Made(p, s, b, i, y)
  BY <1>6 DEF Made
<1>8. ASSUME NEW a \in Buffer(p), NEW l \in 0 .. Final, ~Carries(p, p.script[n + 1], a, l)
      PROVE  y[a][l] = Precise(p, n, a, l)
  <2>1. x[a][l] = Precise(p, n, a, l)
    BY <1>8 DEF Kept
  <2>2. CASE a = at
    <3>1. l \notin s.ss .. s.se
      BY <1>2, <1>8, <2>2 DEF Carries
    <3>2. l \notin j .. i - 1
      BY <1>5, <3>1
    <3>3. y[a][l] = x[a][l]
      BY <1>0, <1>2, <1>4, <2>2, <3>2
    <3> QED BY <2>1, <3>3
  <2>3. CASE a # at
    BY <1>4, <2>1, <2>3
  <2> QED BY <2>2, <2>3
<1>9. Kept(p, n, y)
  BY <1>8 DEF Kept
<1> QED BY <1>4, <1>7, <1>9

-------------------------------------------------------------------------------
(* What the encoder writes.                                                *)

OldRow(p, s, b, j, m) == {l \in j .. m : Old(p, s, b, l)}
Gaps(p, s, b, j, m)   == Cardinality({l \in j .. m : ~Old(p, s, b, l)})

LEMMA OldsAre ==
  ASSUME NEW p, NEW s, Sound(p, s), NEW first, NEW last
  PROVE  Olds(p, s, first, last) \in SUBSET (Nat \X Nat) /\ IsFiniteSet(Olds(p, s, first, last))
<1>1. PICK D, E : D = DOMAIN s.order /\ E = s.ss .. s.se
  OBVIOUS
<1>2. D = 1 .. Len(s.order) /\ Len(s.order) \in Nat /\ s.ss \in Nat /\ s.se \in Nat
  BY <1>1 DEF Sound
<1>3. D \in SUBSET Nat /\ E \in SUBSET Nat
  BY <1>1, <1>2
<1>4. IsFiniteSet(D) /\ IsFiniteSet(E)
  <2>1. 1 \in Int /\ Len(s.order) \in Int /\ s.ss \in Int /\ s.se \in Int
    BY <1>2
  <2>2. IsFiniteSet(1 .. Len(s.order)) /\ IsFiniteSet(s.ss .. s.se)
    BY <2>1, FS_Interval
  <2> QED BY <1>1, <1>2, <2>2
<1>5. IsFiniteSet(D \X E)
  BY <1>4, FS_Product
<1>6. Olds(p, s, first, last) \in SUBSET (D \X E)
  BY <1>1 DEF Olds
<1>7. IsFiniteSet(Olds(p, s, first, last))
  BY <1>5, <1>6, FS_Subset
<1> QED BY <1>3, <1>6, <1>7

LEMMA RowFinite ==
  ASSUME NEW j \in Nat, NEW m \in Int, NEW T \in SUBSET (j .. m)
  PROVE  T \in SUBSET Nat /\ IsFiniteSet(T) /\ Cardinality(T) \in Nat
<1>1. IsFiniteSet(j .. m)
  <2>1. j \in Int
    OBVIOUS
  <2> QED BY <2>1, FS_Interval
<1>2. IsFiniteSet(T)
  BY <1>1, FS_Subset
<1> QED BY <1>2, FS_CardinalityType

LEMMA OldsOfBlock ==
  ASSUME NEW p, NEW s, Sound(p, s), NEW b \in DOMAIN s.order, NEW j \in Nat, j >= s.ss, NEW m \in Int, m <= s.se
  PROVE  Olds(p, s, <<b, j>>, <<b, m>>) = {b} \X OldRow(p, s, b, j, m)
<1>1. b \in Nat /\ s.ss \in Nat /\ s.se \in Nat
  BY DEF Sound
<1>2. ASSUME NEW x \in (DOMAIN s.order) \X (s.ss .. s.se)
      PROVE  ~Before(x, <<b, j>>) /\ ~Before(<<b, m>>, x) <=> x[1] = b /\ x[2] \in j .. m
  <2>1. PICK c, l : c = x[1] /\ l = x[2]
    OBVIOUS
  <2>2. c \in Nat /\ l \in Nat
    <3>1. c \in DOMAIN s.order /\ l \in s.ss .. s.se
      BY <2>1
    <3>2. DOMAIN s.order = 1 .. Len(s.order) /\ Len(s.order) \in Nat
      BY DEF Sound
    <3> QED BY <1>1, <3>1, <3>2
  <2>3. Before(x, <<b, j>>) <=> c < b \/ (c = b /\ l < j)
    BY <2>1 DEF Before
  <2>4. Before(<<b, m>>, x) <=> b < c \/ (b = c /\ m < l)
    BY <2>1 DEF Before
  <2> QED BY <1>1, <2>1, <2>2, <2>3, <2>4
<1>3. ASSUME NEW x \in Olds(p, s, <<b, j>>, <<b, m>>) PROVE x \in {b} \X OldRow(p, s, b, j, m)
  <2>1. /\ x \in (DOMAIN s.order) \X (s.ss .. s.se) /\ Old(p, s, x[1], x[2])
        /\ ~Before(x, <<b, j>>) /\ ~Before(<<b, m>>, x)
    BY DEF Olds
  <2>2. x = <<x[1], x[2]>> /\ x[1] = b /\ x[2] \in j .. m
    BY <1>2, <2>1
  <2> QED BY <2>1, <2>2 DEF OldRow
<1>4. ASSUME NEW x \in {b} \X OldRow(p, s, b, j, m) PROVE x \in Olds(p, s, <<b, j>>, <<b, m>>)
  <2>1. x = <<x[1], x[2]>> /\ x[1] = b /\ x[2] \in j .. m /\ Old(p, s, b, x[2])
    BY DEF OldRow
  <2>2. x[2] \in s.ss .. s.se
    BY <1>1, <2>1
  <2>3. x \in (DOMAIN s.order) \X (s.ss .. s.se)
    BY <2>1, <2>2
  <2>4. ~Before(x, <<b, j>>) /\ ~Before(<<b, m>>, x)
    BY <1>2, <2>1, <2>3
  <2> QED BY <2>1, <2>3, <2>4 DEF Olds
<1> QED BY <1>3, <1>4

(* Corrections of several blocks begin with those of the first.            *)
LEMMA OldsSplit ==
  ASSUME NEW p, NEW s, Sound(p, s), NEW b \in DOMAIN s.order, NEW j \in Nat, j >= s.ss,
         NEW m \in Nat \ {0}, NEW S, S = Olds(p, s, <<b, j>>, <<b + m - 1, s.se>>)
  PROVE  /\ {b} \X OldRow(p, s, b, j, s.se) \in SUBSET S
         /\ S \ ({b} \X OldRow(p, s, b, j, s.se)) = Olds(p, s, <<b + 1, s.ss>>, <<b + m - 1, s.se>>)
         /\ \A x \in {b} \X OldRow(p, s, b, j, s.se) : \A y \in Olds(p, s, <<b + 1, s.ss>>, <<b + m - 1, s.se>>) :
              Before(x, y)
<1>1. b \in Nat /\ s.ss \in Nat /\ s.se \in Nat
  BY DEF Sound
<1>2. PICK e : e = b + m - 1
  OBVIOUS
<1>3. e \in Nat /\ e >= b
  BY <1>1, <1>2
<1>4. ASSUME NEW x \in (DOMAIN s.order) \X (s.ss .. s.se)
      PROVE  /\ x = <<x[1], x[2]>> /\ x[1] \in Nat /\ x[2] \in Nat /\ x[2] >= s.ss /\ x[2] <= s.se
             /\ ~Before(x, <<b, j>>) /\ ~Before(<<e, s.se>>, x) <=>
                  (x[1] = b /\ x[2] \in j .. s.se) \/ x[1] \in b + 1 .. e
             /\ ~Before(x, <<b + 1, s.ss>>) /\ ~Before(<<e, s.se>>, x) <=> x[1] \in b + 1 .. e
  <2>1. PICK c, l : c = x[1] /\ l = x[2]
    OBVIOUS
  <2>2. c \in Nat /\ l \in Nat /\ l >= s.ss /\ l <= s.se
    <3>1. c \in DOMAIN s.order /\ l \in s.ss .. s.se
      BY <2>1
    <3>2. DOMAIN s.order = 1 .. Len(s.order) /\ Len(s.order) \in Nat
      BY DEF Sound
    <3> QED BY <1>1, <3>1, <3>2
  <2>3. Before(x, <<b, j>>) <=> c < b \/ (c = b /\ l < j)
    BY <2>1 DEF Before
  <2>4. Before(<<e, s.se>>, x) <=> e < c \/ (e = c /\ s.se < l)
    BY <2>1 DEF Before
  <2>5. Before(x, <<b + 1, s.ss>>) <=> c < b + 1 \/ (c = b + 1 /\ l < s.ss)
    BY <2>1 DEF Before
  <2>6. x = <<c, l>>
    BY <2>1
  <2>7. ~Before(x, <<b, j>>) /\ ~Before(<<e, s.se>>, x) <=> (c = b /\ l \in j .. s.se) \/ c \in b + 1 .. e
    BY <1>1, <1>3, <2>2, <2>3, <2>4
  <2>8. ~Before(x, <<b + 1, s.ss>>) /\ ~Before(<<e, s.se>>, x) <=> c \in b + 1 .. e
    BY <1>1, <1>3, <2>2, <2>4, <2>5
  <2> QED BY <2>1, <2>2, <2>6, <2>7, <2>8
<1>5. PICK Q, R : Q = {b} \X OldRow(p, s, b, j, s.se) /\ R = Olds(p, s, <<b + 1, s.ss>>, <<e, s.se>>)
  OBVIOUS
<1>6. \A x : x \in Q <=> /\ x \in (DOMAIN s.order) \X (s.ss .. s.se) /\ Old(p, s, x[1], x[2])
                         /\ x[1] = b /\ x[2] \in j .. s.se
  <2>1. ASSUME NEW x \in Q
        PROVE  /\ x \in (DOMAIN s.order) \X (s.ss .. s.se) /\ Old(p, s, x[1], x[2])
               /\ x[1] = b /\ x[2] \in j .. s.se
    <3>1. x = <<x[1], x[2]>> /\ x[1] = b /\ x[2] \in j .. s.se /\ Old(p, s, b, x[2])
      BY <1>5 DEF OldRow
    <3>2. x[2] \in s.ss .. s.se
      BY <1>1, <3>1
    <3> QED BY <3>1, <3>2
  <2>2. ASSUME NEW x \in (DOMAIN s.order) \X (s.ss .. s.se), Old(p, s, x[1], x[2]), x[1] = b, x[2] \in j .. s.se
        PROVE  x \in Q
    <3>1. x = <<x[1], x[2]>>
      OBVIOUS
    <3> QED BY <1>5, <2>2, <3>1 DEF OldRow
  <2> QED BY <2>1, <2>2
<1>7. \A x : x \in R <=> /\ x \in (DOMAIN s.order) \X (s.ss .. s.se) /\ Old(p, s, x[1], x[2])
                         /\ x[1] \in b + 1 .. e
  BY <1>4, <1>5 DEF Olds
<1>8. \A x : x \in S <=> /\ x \in (DOMAIN s.order) \X (s.ss .. s.se) /\ Old(p, s, x[1], x[2])
                         /\ (x[1] = b /\ x[2] \in j .. s.se) \/ x[1] \in b + 1 .. e
  BY <1>2, <1>4 DEF Olds
<1>9. Q \in SUBSET S
  BY <1>6, <1>8
<1>10. S \ Q = R
  <2>1. b \notin b + 1 .. e
    BY <1>1
  <2> QED BY <1>6, <1>7, <1>8, <2>1
<1>11. ASSUME NEW x \in Q, NEW y \in R PROVE Before(x, y)
  <2>1. x[1] = b /\ y[1] \in b + 1 .. e
    BY <1>6, <1>7
  <2>2. x[1] < y[1]
    BY <1>1, <2>1
  <2> QED BY <2>2 DEF Before
<1> QED BY <1>2, <1>5, <1>9, <1>10, <1>11

(* The end of the block, a new coefficient, or a long run of zeros.        *)
EndWritten(p, s, b, j, d, to) ==
  \E m \in Nat \ {0} : \E r \in 0 .. MaxRun - 1 : \E c \in Seq(Int \X Int) :
    /\ Underway(p, s, b, j, m, c, to)
    /\ ~p.progressive => m = 1
    /\ \/ r = 0 /\ m = 1 /\ d = <<<<0, 0>>>> \o c
       \/ r > 0 /\ m > 1 /\ m - Pow2[r] \in Int /\ d = <<<<r, 0>>, <<r, m - Pow2[r]>>>> \o c

NewWritten(p, s, b, j, d, to) ==
  \E l \in j .. s.se : \E c \in Seq(Int \X Int) :
    /\ New(p, s, b, l) /\ \A h \in j .. l - 1 : ~New(p, s, b, h)
    /\ Gaps(p, s, b, j, l - 1) <= MaxRun
    /\ Holds(p, s, {b} \X OldRow(p, s, b, j, l), c)
    /\ d = <<<<Gaps(p, s, b, j, l - 1), Size(Point(Value(p, s, b, l), s.al))>>>>
             \o Magnitude(Point(Value(p, s, b, l), s.al)) \o c
    /\ to = Onward(s, b, l + 1)

RunWritten(p, s, b, j, d, to) ==
  \E l \in j .. s.se - 1 : \E c \in Seq(Int \X Int) :
    /\ \A h \in j .. l : ~New(p, s, b, h)
    /\ ~Old(p, s, b, l) /\ Gaps(p, s, b, j, l) = MaxRun + 1
    /\ Holds(p, s, {b} \X OldRow(p, s, b, j, l), c)
    /\ d = <<<<MaxRun, 0>>>> \o c
    /\ to = <<b, l + 1>>

LEMMA CorrectionsOfRow ==
  ASSUME NEW p, NEW s, Sound(p, s), NEW b \in DOMAIN s.order, NEW j \in Nat, j >= s.ss, NEW m \in Int, m <= s.se,
         NEW c, c = Corrections(p, s, Olds(p, s, <<b, j>>, <<b, m>>))
  PROVE  c \in Seq(Int \X Int) /\ Holds(p, s, {b} \X OldRow(p, s, b, j, m), c)
<1>1. PICK S : S = Olds(p, s, <<b, j>>, <<b, m>>)
  OBVIOUS
<1>2. S \in SUBSET (Nat \X Nat) /\ IsFiniteSet(S)
  BY <1>1, OldsAre
<1>3. Corrections(p, s, S) \in Seq(Int \X Int) /\ Holds(p, s, S, Corrections(p, s, S))
  BY <1>2, CorrectionsHold
<1>4. S = {b} \X OldRow(p, s, b, j, m)
  BY <1>1, OldsOfBlock
<1> QED BY <1>1, <1>3, <1>4

LEMMA WriteAcShape ==
  ASSUME MaxRun \in Nat \ {0}, NEW p, NEW s, Sound(p, s), NEW b \in DOMAIN s.order,
         NEW j \in s.ss .. s.se, NEW d, NEW to, WriteAc(p, s, b, j, d, to)
  PROVE  EndWritten(p, s, b, j, d, to) \/ NewWritten(p, s, b, j, d, to) \/ RunWritten(p, s, b, j, d, to)
<1>1. b \in Nat /\ j \in Nat /\ j >= s.ss /\ s.se \in Nat /\ j <= s.se /\ s.ss \in Nat
  BY DEF Sound
<1> DEFINE olds(c, m) == Corrections(p, s, Olds(p, s, <<b, j>>, <<c, m>>))
           x(l)       == Point(Value(p, s, b, l), s.al)
<1>2. \/ /\ \A l \in j .. s.se : ~New(p, s, b, l)
         /\ \E m \in Ends(p, s, b) :
              /\ d = RunSymbol(m) \o olds(b + m - 1, s.se)
              /\ to = Beginning(s, b + m)
      \/ \E l \in j .. s.se :
           /\ New(p, s, b, l) /\ \A h \in j .. l - 1 : ~New(p, s, b, h)
           /\ Gaps(p, s, b, j, l - 1) <= MaxRun
           /\ d = <<<<Gaps(p, s, b, j, l - 1), Size(x(l))>>>> \o Magnitude(x(l)) \o olds(b, l)
           /\ to = Onward(s, b, l + 1)
      \/ \E l \in j .. s.se :
           /\ \A h \in j .. l : ~New(p, s, b, h)
           /\ \E h \in l + 1 .. s.se : New(p, s, b, h)
           /\ ~Old(p, s, b, l) /\ Gaps(p, s, b, j, l) = MaxRun + 1
           /\ d = <<<<MaxRun, 0>>>> \o olds(b, l)
           /\ to = <<b, l + 1>>
  BY DEF WriteAc, Gaps
<1>3. ASSUME \A l \in j .. s.se : ~New(p, s, b, l), NEW m \in Ends(p, s, b),
             d = RunSymbol(m) \o olds(b + m - 1, s.se), to = Beginning(s, b + m)
      PROVE  EndWritten(p, s, b, j, d, to)
  <2>1. /\ m \in 1 .. (IF p.progressive THEN Pow2[MaxRun] - 1 ELSE 1)
        /\ b + m - 1 <= Len(s.order)
        /\ \A c \in b + 1 .. b + m - 1 :
             s.order[c].interval = s.order[b].interval /\ \A h \in s.ss .. s.se : ~New(p, s, c, h)
    BY DEF Ends
  <2>2. m \in 1 .. Pow2[MaxRun] - 1 /\ m \in Nat \ {0} /\ (~p.progressive => m = 1)
    <3>1. MaxRun - 1 \in Nat /\ (MaxRun - 1) + 1 = MaxRun
      OBVIOUS
    <3>2. Pow2[MaxRun] = 2 * Pow2[MaxRun - 1] /\ Pow2[MaxRun - 1] \in Nat \ {0}
      BY <3>1, Pow2Is
    <3>3. CASE p.progressive
      BY <2>1, <3>2, <3>3
    <3>4. CASE ~p.progressive
      BY <2>1, <3>2, <3>4
    <3> QED BY <3>3, <3>4
  <2>3. PICK S, c : S = Olds(p, s, <<b, j>>, <<b + m - 1, s.se>>) /\ c = Corrections(p, s, S)
    OBVIOUS
  <2>4. c \in Seq(Int \X Int) /\ Holds(p, s, S, c)
    <3>1. S \in SUBSET (Nat \X Nat) /\ IsFiniteSet(S)
      BY <2>3, OldsAre
    <3> QED BY <2>3, <3>1, CorrectionsHold
  <2>5. Underway(p, s, b, j, m, c, to)
    <3>1. Ended(p, s, b, j, m)
      BY <1>3, <2>1 DEF Ended
    <3> QED BY <1>3, <2>3, <2>4, <3>1 DEF Underway
  <2>6. PICK r \in 0 .. MaxRun - 1 :
          \/ r = 0 /\ m = 1 /\ RunSymbol(m) = <<<<0, 0>>>>
          \/ r > 0 /\ m > 1 /\ m - Pow2[r] \in Int /\ RunSymbol(m) = <<<<r, 0>>, <<r, m - Pow2[r]>>>>
    BY <2>2, RunSymbolIs
  <2>7. d = RunSymbol(m) \o c
    BY <1>3, <2>3
  <2> HIDE DEF olds
  <2>8. \/ r = 0 /\ m = 1 /\ d = <<<<0, 0>>>> \o c
        \/ r > 0 /\ m > 1 /\ m - Pow2[r] \in Int /\ d = <<<<r, 0>>, <<r, m - Pow2[r]>>>> \o c
    BY <2>6, <2>7
  <2> QED BY <2>2, <2>4, <2>5, <2>8 DEF EndWritten
<1>4. ASSUME NEW l \in j .. s.se, New(p, s, b, l), \A h \in j .. l - 1 : ~New(p, s, b, h),
             Gaps(p, s, b, j, l - 1) <= MaxRun,
             d = <<<<Gaps(p, s, b, j, l - 1), Size(x(l))>>>> \o Magnitude(x(l)) \o olds(b, l),
             to = Onward(s, b, l + 1)
      PROVE  NewWritten(p, s, b, j, d, to)
  <2>1. PICK c : c = Corrections(p, s, Olds(p, s, <<b, j>>, <<b, l>>))
    OBVIOUS
  <2>2. l \in Int /\ l <= s.se
    BY <1>1
  <2>3. c \in Seq(Int \X Int) /\ Holds(p, s, {b} \X OldRow(p, s, b, j, l), c)
    BY <1>1, <2>1, <2>2, CorrectionsOfRow
  <2> QED BY <1>4, <2>1, <2>3 DEF NewWritten
<1>5. ASSUME NEW l \in j .. s.se, \A h \in j .. l : ~New(p, s, b, h), \E h \in l + 1 .. s.se : New(p, s, b, h),
             ~Old(p, s, b, l), Gaps(p, s, b, j, l) = MaxRun + 1,
             d = <<<<MaxRun, 0>>>> \o olds(b, l), to = <<b, l + 1>>
      PROVE  RunWritten(p, s, b, j, d, to)
  <2>1. PICK c : c = Corrections(p, s, Olds(p, s, <<b, j>>, <<b, l>>))
    OBVIOUS
  <2>2. l \in Int /\ l <= s.se /\ l \in j .. s.se - 1
    BY <1>1, <1>5
  <2>3. c \in Seq(Int \X Int) /\ Holds(p, s, {b} \X OldRow(p, s, b, j, l), c)
    BY <1>1, <2>1, <2>2, CorrectionsOfRow
  <2> QED BY <1>5, <2>1, <2>2, <2>3 DEF RunWritten
<1> QED BY <1>2, <1>3, <1>4, <1>5

(* No corrections are left between blocks.                                 *)
LEMMA NoOlds ==
  ASSUME NEW p, NEW s, Sound(p, s), NEW b \in Nat
  PROVE  Olds(p, s, <<b, s.ss>>, <<b + 0 - 1, s.se>>) = {}
<1>1. SUFFICES ASSUME NEW x \in Olds(p, s, <<b, s.ss>>, <<b + 0 - 1, s.se>>) PROVE FALSE
  OBVIOUS
<1>2. PICK c : c = x[1]
  OBVIOUS
<1>3. c \in Nat
  <2>1. DOMAIN s.order = 1 .. Len(s.order) /\ Len(s.order) \in Nat
    BY DEF Sound
  <2> QED BY <1>2, <2>1 DEF Olds
<1>4. ~(c < b) /\ ~(b + 0 - 1 < c)
  BY <1>2 DEF Olds, Before
<1> QED BY <1>3, <1>4

LEMMA NothingWritten ==
  ASSUME NEW p, NEW s, Sound(p, s), NEW b \in Nat \ {0}, b <= Len(s.order) + 1
  PROVE  /\ Underway(p, s, b, s.ss, 0, <<>>, Beginning(s, b))
         /\ Between(p, s, b, 0, <<>>, Beginning(s, b))
         /\ \A d \in Seq(Int \X Int) : \A to : Underway(p, s, b, s.ss, 0, d, to) => d = <<>> /\ to = Beginning(s, b)
<1>1. Olds(p, s, <<b, s.ss>>, <<b + 0 - 1, s.se>>) = {}
  BY NoOlds
<1>2. b + 0 = b /\ Len(s.order) \in Nat
  BY DEF Sound
<1>3. Ended(p, s, b, s.ss, 0)
  <2>1. b + 1 .. b + 0 - 1 = {} /\ b + 0 - 1 <= Len(s.order)
    BY <1>2
  <2> QED BY <2>1 DEF Ended
<1>4. Cardinality({}) = 0
  BY FS_EmptySet
<1>5. Holds(p, s, {}, <<>>)
  BY <1>4 DEF Holds
<1>6. Underway(p, s, b, s.ss, 0, <<>>, Beginning(s, b))
  BY <1>1, <1>2, <1>3, <1>5 DEF Underway
<1>7. Between(p, s, b, 0, <<>>, Beginning(s, b))
  BY <1>6 DEF Between
<1>8. ASSUME NEW d \in Seq(Int \X Int), NEW to, Underway(p, s, b, s.ss, 0, d, to)
      PROVE  d = <<>> /\ to = Beginning(s, b)
  <2>1. Holds(p, s, {}, d) /\ to = Beginning(s, b)
    BY <1>1, <1>2, <1>8 DEF Underway
  <2>2. Len(d) = 0
    BY <1>4, <2>1 DEF Holds
  <2>3. d = <<>>
    BY <2>2
  <2> QED BY <2>1, <2>3
<1> QED BY <1>6, <1>7, <1>8

(* The bits from data[first] on are those of the coefficients in Q.        *)
Served(p, s, b, Q, d, first) ==
  \A l \in Q : d[first + Cardinality({h \in Q : h < l})] = Bit(Abs(Value(p, s, b, l)), s.al)

(* A block ends with its corrections, and maybe more blocks after it.      *)
LEMMA BlockEnds ==
  ASSUME NEW p, NEW s, Sound(p, s), NEW b \in DOMAIN s.order, NEW j \in Nat, j >= s.ss,
         NEW m \in Nat \ {0}, NEW d \in Seq(Int \X Int), NEW to, Underway(p, s, b, j, m, d, to),
         NEW Q, Q = OldRow(p, s, b, j, s.se), NEW e, e = SubSeq(d, Cardinality(Q) + 1, Len(d))
  PROVE  /\ Cardinality(Q) \in Nat /\ Cardinality(Q) <= Len(d)
         /\ Served(p, s, b, Q, d, 1)
         /\ e \in Seq(Int \X Int)
         /\ Between(p, s, b + 1, m - 1, e, to)
<1>1. b \in Nat /\ b <= Len(s.order) /\ s.ss \in Nat /\ s.se \in Nat
  BY DEF Sound
<1>2. PICK S, A, R : S = Olds(p, s, <<b, j>>, <<b + m - 1, s.se>>) /\ A = {b} \X Q
                     /\ R = Olds(p, s, <<b + 1, s.ss>>, <<b + m - 1, s.se>>)
  OBVIOUS
<1>3. Ended(p, s, b, j, m) /\ Holds(p, s, S, d) /\ to = Beginning(s, b + m)
  BY <1>2 DEF Underway
<1>4. S \in SUBSET (Nat \X Nat) /\ IsFiniteSet(S)
  BY <1>2, OldsAre
<1>5. A \in SUBSET S /\ R = S \ A /\ \A x \in A : \A y \in R : Before(x, y)
  BY <1>2, OldsSplit
<1>6. Q \in SUBSET Nat /\ IsFiniteSet(Q) /\ Cardinality(Q) \in Nat
  <2>1. PICK z : z = s.se
    OBVIOUS
  <2>2. Q \in SUBSET (j .. z) /\ z \in Int
    BY <1>1, <2>1 DEF OldRow
  <2>3. j \in Nat /\ z \in Int /\ Q \in SUBSET (j .. z)
    BY <2>2
  <2> HIDE <1>1
  <2> QED BY ONLY <2>3, RowFinite, Zenon
<1>7. Cardinality(A) = Cardinality(Q) /\ \A l \in Q : Rank(A, <<b, l>>) = Cardinality({h \in Q : h < l})
  <2>1. Cardinality(A) = Cardinality(Q)
    BY <1>1, <1>2, <1>6, RowIs
  <2>2. \A l \in Q : Rank({b} \X Q, <<b, l>>) = Cardinality({h \in Q : h < l})
    BY <1>1, <1>6, RowIs, Zenon
  <2> QED BY <1>2, <2>1, <2>2
<1>8. /\ Cardinality(A) <= Len(d)
      /\ \A x \in A : d[Rank(A, x) + 1] = Bit(Abs(Value(p, s, x[1], x[2])), s.al)
      /\ SubSeq(d, Cardinality(A) + 1, Len(d)) \in Seq(Int \X Int)
      /\ Holds(p, s, R, SubSeq(d, Cardinality(A) + 1, Len(d)))
  <2>1. /\ Cardinality(A) <= Len(d)
        /\ Matches(p, s, A, d)
        /\ SubSeq(d, Cardinality(A) + 1, Len(d)) \in Seq(Int \X Int)
        /\ Holds(p, s, R, SubSeq(d, Cardinality(A) + 1, Len(d)))
    BY <1>3, <1>4, <1>5, HoldsSplits, Zenon
  <2> QED BY <2>1 DEF Matches
<1>9. Cardinality(Q) <= Len(d) /\ e \in Seq(Int \X Int) /\ Holds(p, s, R, e)
  BY <1>7, <1>8
<1>10. ASSUME NEW l \in Q PROVE d[1 + Cardinality({h \in Q : h < l})] = Bit(Abs(Value(p, s, b, l)), s.al)
  <2>1. PICK x, P : x = <<b, l>> /\ P = {h \in Q : h < l}
    OBVIOUS
  <2>2. x \in A /\ x[1] = b /\ x[2] = l
    BY <1>2, <2>1
  <2>3. d[Rank(A, x) + 1] = Bit(Abs(Value(p, s, b, l)), s.al)
    BY <1>8, <2>2
  <2>4. Rank(A, x) = Cardinality(P)
    BY <1>7, <2>1
  <2>5. Cardinality(P) \in Nat
    <3>1. P \subseteq Q
      BY <2>1
    <3> QED BY <1>6, <3>1, FS_Subset, FS_CardinalityType
  <2>6. 1 + Cardinality(P) = Rank(A, x) + 1
    BY <2>4, <2>5
  <2> QED BY <2>1, <2>3, <2>6
<1>11. Underway(p, s, b + 1, s.ss, m - 1, e, to)
  <2>1. (b + 1) + (m - 1) - 1 = b + m - 1 /\ (b + 1) + (m - 1) = b + m
    BY <1>1
  <2>2. Ended(p, s, b + 1, s.ss, m - 1)
    <3>1. /\ b + m - 1 <= Len(s.order)
          /\ \A c \in b + 1 .. b + m - 1 :
               s.order[c].interval = s.order[b].interval /\ \A l \in s.ss .. s.se : ~New(p, s, c, l)
      BY <1>3 DEF Ended
    <3>2. CASE m = 1
      <4>1. m - 1 = 0 /\ (b + 1) + 1 .. (b + 1) + (m - 1) - 1 = {}
        BY <1>1, <3>2
      <4> QED BY <2>1, <3>1, <4>1 DEF Ended
    <3>3. CASE m # 1
      <4>1. b + 1 \in b + 1 .. b + m - 1 /\ (b + 1) + 1 .. b + m - 1 \subseteq b + 1 .. b + m - 1
        BY <1>1, <3>3
      <4>2. \A l \in s.ss .. s.se : ~New(p, s, b + 1, l)
        BY <3>1, <4>1
      <4>3. \A c \in (b + 1) + 1 .. b + m - 1 :
              s.order[c].interval = s.order[b + 1].interval /\ \A l \in s.ss .. s.se : ~New(p, s, c, l)
        BY <3>1, <4>1
      <4> QED BY <2>1, <3>1, <4>2, <4>3 DEF Ended
    <3> QED BY <3>2, <3>3
  <2> QED BY <1>2, <1>3, <1>9, <2>1, <2>2 DEF Underway
<1>12. m - 1 > 0 => b + 1 > 1 /\ s.order[b + 1].interval = s.order[(b + 1) - 1].interval
  <2>1. SUFFICES ASSUME m - 1 > 0 PROVE b + 1 > 1 /\ s.order[b + 1].interval = s.order[(b + 1) - 1].interval
    OBVIOUS
  <2>2. b + 1 \in b + 1 .. b + m - 1 /\ (b + 1) - 1 = b /\ b + 1 > 1
    BY <1>1, <2>1
  <2> QED BY <1>3, <2>2 DEF Ended
<1>13. Between(p, s, b + 1, m - 1, e, to)
  BY <1>11, <1>12 DEF Between
<1>14. Served(p, s, b, Q, d, 1)
  BY <1>10 DEF Served
<1> QED BY <1>6, <1>9, <1>13, <1>14

-------------------------------------------------------------------------------
(* What is written for DC, and that something always is.                   *)

LatestOf(p, s, c, b, g) == {d \in 1 .. b : s.order[d].at[1] = c /\ s.order[d].interval = g}

LEMMA LatestFits ==
  ASSUME NEW p, NEW s, Sound(p, s), s.ss = 0, NEW c, NEW b \in Nat, b <= Len(s.order), NEW g
  PROVE  Latest(p, s, c, b, g) \in Sample
<1>1. PICK T : T = LatestOf(p, s, c, b, g)
  OBVIOUS
<1>2. T \in SUBSET (0 .. b) /\ T \in SUBSET (DOMAIN s.order)
  BY <1>1 DEF LatestOf, Sound
<1>3. Latest(p, s, c, b, g) = IF T = {} THEN 0 ELSE Shift(Value(p, s, Max(T), 0), s.al)
  BY <1>1 DEF Latest, LatestOf
<1>4. CASE T = {}
  BY <1>3, <1>4, SampleIs
<1>5. CASE T # {}
  <2>1. PICK e : e = Max(T)
    OBVIOUS
  <2>2. e \in T
    BY <1>2, <1>5, <2>1, MaxIn
  <2>3. 0 \in s.ss .. s.se /\ s.al \in Nat
    BY DEF Sound
  <2>4. Value(p, s, e, 0) \in Sample
    BY <1>2, <2>2, <2>3 DEF Sound
  <2>5. Shift(Value(p, s, e, 0), s.al) \in Sample
    BY <2>3, <2>4, ShiftFits
  <2> QED BY <1>3, <1>5, <2>1, <2>5
<1> QED BY <1>4, <1>5

(* A DC symbol is the difference to the last value, or one more bit.       *)
Differs(v, d) ==
  \/ v = 0 /\ d = <<<<0, 0>>>>
  \/ \E n \in 1 .. 16 : \E y \in Int : d = <<<<0, n>>, <<n, y>>>> /\ Extend(y, n) = v

LEMMA DcShape ==
  ASSUME NEW p, NEW s, Sound(p, s), s.ss = 0, NEW b \in DOMAIN s.order, NEW d, NEW to, Write(p, s, b, 0, d, to)
  PROVE  /\ to = Onward(s, b, 1)
         /\ s.ah > 0 => d = <<Bit(Value(p, s, b, 0), s.al)>>
         /\ s.ah = 0 => DcDiff(p, s, b) \in Int /\ Differs(DcDiff(p, s, b), d)
<1>1. WriteDc(p, s, b, d, to)
  BY DEF Write
<1>2. /\ d = IF s.ah > 0 THEN <<Bit(Value(p, s, b, 0), s.al)>>
             ELSE <<<<0, Size(DcDiff(p, s, b))>>>> \o Magnitude(DcDiff(p, s, b))
      /\ to = Onward(s, b, 1)
  BY <1>1 DEF WriteDc
<1>3. ASSUME s.ah = 0 PROVE DcDiff(p, s, b) \in Int /\ Differs(DcDiff(p, s, b), d)
  <2>1. PICK v : v = DcDiff(p, s, b)
    OBVIOUS
  <2>2. v \in Int /\ Abs(v) < Pow2[16]
    <3>1. PICK y : y = Latest(p, s, s.order[b].at[1], b - 1, s.order[b].interval)
      OBVIOUS
    <3>2. b - 1 \in Nat /\ b - 1 <= Len(s.order)
      BY DEF Sound
    <3>3. y \in Sample
      BY <3>1, <3>2, LatestFits
    <3>4. 0 \in s.ss .. s.se /\ s.al \in Nat
      BY DEF Sound
    <3>5. PICK x : x = Shift(Value(p, s, b, 0), s.al)
      OBVIOUS
    <3>6. x \in Sample
      <4>1. Value(p, s, b, 0) \in Sample
        BY <3>4 DEF Sound
      <4> QED BY <3>4, <3>5, <4>1, ShiftFits
    <3>7. v = x - y
      BY <2>1, <3>1, <3>5 DEF DcDiff
    <3> QED BY <3>3, <3>6, <3>7, DiffFits
  <2>3. d = <<<<0, Size(v)>>>> \o Magnitude(v)
    BY <1>2, <1>3, <2>1
  <2>4. PICK n : n = Size(v)
    OBVIOUS
  <2>5. n \in 0 .. 16 /\ (n = 0 <=> v = 0) /\ (n = 0 => Magnitude(v) = <<>>)
    BY <2>2, <2>4, Extended
  <2>6. CASE n = 0
    <3>1. d = <<<<0, 0>>>>
      BY <2>3, <2>4, <2>5, <2>6, Alone
    <3> QED BY <2>1, <2>2, <2>5, <2>6, <3>1 DEF Differs
  <2>7. CASE n # 0
    <3>1. PICK y \in Int : Magnitude(v) = <<<<n, y>>>> /\ Extend(y, n) = v
      BY <2>2, <2>4, <2>7, Extended
    <3>2. d = <<<<0, n>>, <<n, y>>>>
      BY <2>3, <2>4, <3>1, Joined
    <3>3. n \in 1 .. 16
      BY <2>5, <2>7
    <3> QED BY <2>1, <2>2, <3>1, <3>2, <3>3 DEF Differs
  <2> QED BY <2>6, <2>7
<1> QED BY <1>2, <1>3

(* Symbols come as they are, with their bits.                              *)
LEMMA Typed ==
  ASSUME NEW a \in Int, NEW b \in Int, NEW c \in Int, NEW e \in Int
  PROVE  /\ <<<<a, b>>>> \in Seq(Int \X Int) /\ Len(<<<<a, b>>>>) = 1
         /\ <<<<a, b>>, <<c, e>>>> \in Seq(Int \X Int) /\ Len(<<<<a, b>>, <<c, e>>>>) = 2
OBVIOUS

(* A chunk begins with a symbol x, maybe with bits y.                      *)
OneSymbol(x, c, d) ==
  /\ d \in Seq(Int \X Int) /\ Len(d) = 1 + Len(c) /\ d[1] = x
  /\ \A i \in 1 .. Len(c) : d[1 + i] = c[i]
  /\ SubSeq(d, 2, Len(d)) = c

TwoSymbols(x, y, c, d) ==
  /\ d \in Seq(Int \X Int) /\ Len(d) = 2 + Len(c) /\ d[1] = x /\ d[2] = y
  /\ \A i \in 1 .. Len(c) : d[2 + i] = c[i]
  /\ SubSeq(d, 3, Len(d)) = c

LEMMA OneSymbolIs ==
  ASSUME NEW x \in Int \X Int, NEW c \in Seq(Int \X Int), NEW d, d = <<x>> \o c
  PROVE  OneSymbol(x, c, d)
<1>1. PICK S, z : S = Int \X Int /\ z = <<x>>
  OBVIOUS
<1>2. z \in Seq(S) /\ c \in Seq(S) /\ d = z \o c /\ Len(z) = 1 /\ z[1] = x
  BY <1>1
<1>3. /\ d \in Seq(S) /\ Len(d) = Len(z) + Len(c)
      /\ \A i \in 1 .. Len(z) : d[i] = z[i]
      /\ \A i \in 1 .. Len(c) : d[Len(z) + i] = c[i]
      /\ SubSeq(d, Len(z) + 1, Len(d)) = c
  BY <1>2, Pieces
<1>4. d[1] = x /\ SubSeq(d, 2, Len(d)) = c /\ Len(d) = 1 + Len(c)
  <2>1. 1 \in 1 .. Len(z) /\ Len(z) + 1 = 2
    BY <1>2
  <2> QED BY <1>2, <1>3, <2>1
<1>5. ASSUME NEW i \in 1 .. Len(c) PROVE d[1 + i] = c[i]
  BY <1>2, <1>3
<1> QED BY <1>1, <1>3, <1>4, <1>5 DEF OneSymbol

LEMMA TwoSymbolsIs ==
  ASSUME NEW x \in Int \X Int, NEW y \in Int \X Int, NEW c \in Seq(Int \X Int), NEW d, d = <<x, y>> \o c
  PROVE  TwoSymbols(x, y, c, d)
<1>1. PICK S, z : S = Int \X Int /\ z = <<x, y>>
  OBVIOUS
<1>2. z \in Seq(S) /\ c \in Seq(S) /\ d = z \o c /\ Len(z) = 2 /\ z[1] = x /\ z[2] = y
  BY <1>1
<1>3. /\ d \in Seq(S) /\ Len(d) = Len(z) + Len(c)
      /\ \A i \in 1 .. Len(z) : d[i] = z[i]
      /\ \A i \in 1 .. Len(c) : d[Len(z) + i] = c[i]
      /\ SubSeq(d, Len(z) + 1, Len(d)) = c
  BY <1>2, Pieces
<1>4. d[1] = x /\ d[2] = y /\ SubSeq(d, 3, Len(d)) = c /\ Len(d) = 2 + Len(c)
  <2>1. 1 \in 1 .. Len(z) /\ 2 \in 1 .. Len(z) /\ Len(z) + 1 = 3
    BY <1>2
  <2> QED BY <1>2, <1>3, <2>1
<1>5. ASSUME NEW i \in 1 .. Len(c) PROVE d[2 + i] = c[i]
  BY <1>2, <1>3
<1> QED BY <1>1, <1>3, <1>4, <1>5 DEF TwoSymbols

(* The same, symbol by symbol.                                             *)
EndShape(p, s, b, j, m, r, c, d, to) ==
  /\ Underway(p, s, b, j, m, c, to)
  /\ ~p.progressive => m = 1
  /\ \/ r = 0 /\ m = 1 /\ OneSymbol(<<0, 0>>, c, d)
     \/ r > 0 /\ m > 1 /\ TwoSymbols(<<r, 0>>, <<r, m - Pow2[r]>>, c, d)

NewShape(p, s, b, j, l, n, y, c, d, to) ==
  /\ New(p, s, b, l) /\ \A h \in j .. l - 1 : ~New(p, s, b, h)
  /\ Gaps(p, s, b, j, l - 1) <= MaxRun
  /\ Holds(p, s, {b} \X OldRow(p, s, b, j, l), c)
  /\ Extend(y, n) = Point(Value(p, s, b, l), s.al)
  /\ s.ah > 0 => n = 1 /\ Point(Value(p, s, b, l), s.al) = IF y = 1 THEN 1 ELSE -1
  /\ TwoSymbols(<<Gaps(p, s, b, j, l - 1), n>>, <<n, y>>, c, d)
  /\ to = Onward(s, b, l + 1)

RunShape(p, s, b, j, l, c, d, to) ==
  /\ \A h \in j .. l : ~New(p, s, b, h)
  /\ ~Old(p, s, b, l) /\ Gaps(p, s, b, j, l) = MaxRun + 1
  /\ Holds(p, s, {b} \X OldRow(p, s, b, j, l), c)
  /\ OneSymbol(<<MaxRun, 0>>, c, d)
  /\ to = <<b, l + 1>>

LEMMA EndShaped ==
  ASSUME MaxRun \in Nat \ {0}, NEW p, NEW s, NEW b, NEW j, NEW d, NEW to, EndWritten(p, s, b, j, d, to)
  PROVE  \E m \in Nat \ {0} : \E r \in 0 .. MaxRun - 1 : \E c \in Seq(Int \X Int) :
           EndShape(p, s, b, j, m, r, c, d, to)
<1>1. PICK m \in Nat \ {0}, r \in 0 .. MaxRun - 1, c \in Seq(Int \X Int) :
        /\ Underway(p, s, b, j, m, c, to)
        /\ ~p.progressive => m = 1
        /\ \/ r = 0 /\ m = 1 /\ d = <<<<0, 0>>>> \o c
           \/ r > 0 /\ m > 1 /\ m - Pow2[r] \in Int /\ d = <<<<r, 0>>, <<r, m - Pow2[r]>>>> \o c
  BY DEF EndWritten
<1>2. CASE r = 0 /\ m = 1 /\ d = <<<<0, 0>>>> \o c
  <2>1. <<0, 0>> \in Int \X Int
    OBVIOUS
  <2>2. OneSymbol(<<0, 0>>, c, d)
    BY <1>2, <2>1, OneSymbolIs
  <2> QED BY <1>1, <1>2, <2>2 DEF EndShape
<1>3. CASE r > 0 /\ m > 1 /\ m - Pow2[r] \in Int /\ d = <<<<r, 0>>, <<r, m - Pow2[r]>>>> \o c
  <2>1. <<r, 0>> \in Int \X Int /\ <<r, m - Pow2[r]>> \in Int \X Int
    BY <1>3
  <2>2. TwoSymbols(<<r, 0>>, <<r, m - Pow2[r]>>, c, d)
    BY <1>3, <2>1, TwoSymbolsIs
  <2> QED BY <1>1, <1>3, <2>2 DEF EndShape
<1> QED BY <1>1, <1>2, <1>3

LEMMA GapsAre ==
  ASSUME NEW p, NEW s, NEW b, NEW j \in Nat, NEW m \in Int
  PROVE  Gaps(p, s, b, j, m) \in Nat
<1>1. PICK T : T = {l \in j .. m : ~Old(p, s, b, l)}
  OBVIOUS
<1>2. T \in SUBSET (j .. m)
  BY <1>1
<1>3. Cardinality(T) \in Nat
  BY <1>2, RowFinite, Zenon
<1> QED BY <1>1, <1>3 DEF Gaps

LEMMA NewShaped ==
  ASSUME NEW p, NEW s, Sound(p, s), NEW b \in DOMAIN s.order, NEW j \in s.ss .. s.se, j > 0,
         NEW d, NEW to, NewWritten(p, s, b, j, d, to)
  PROVE  \E l \in j .. s.se : \E n \in 1 .. 16 : \E y \in Int : \E c \in Seq(Int \X Int) :
           NewShape(p, s, b, j, l, n, y, c, d, to)
<1>1. PICK l \in j .. s.se, c \in Seq(Int \X Int) :
        /\ New(p, s, b, l) /\ \A h \in j .. l - 1 : ~New(p, s, b, h)
        /\ Gaps(p, s, b, j, l - 1) <= MaxRun
        /\ Holds(p, s, {b} \X OldRow(p, s, b, j, l), c)
        /\ d = <<<<Gaps(p, s, b, j, l - 1), Size(Point(Value(p, s, b, l), s.al))>>>>
                 \o Magnitude(Point(Value(p, s, b, l), s.al)) \o c
        /\ to = Onward(s, b, l + 1)
  BY DEF NewWritten
<1>2. s.ss \in Nat /\ s.se \in Nat /\ s.al \in Nat
  BY DEF Sound
<1>3. l \in s.ss .. s.se /\ l > 0 /\ l - 1 \in Int /\ j \in Nat
  BY <1>2
<1>4. PICK x, g, n : x = Point(Value(p, s, b, l), s.al) /\ g = Gaps(p, s, b, j, l - 1) /\ n = Size(x)
  OBVIOUS
<1>5. x \in Int /\ Abs(x) < Pow2[16] /\ x # 0
  <2>1. Value(p, s, b, l) \in Sample
    BY <1>3 DEF Sound
  <2>2. x \in Int /\ Abs(x) < Pow2[16]
    BY <1>2, <1>4, <2>1, PointFits
  <2> QED BY <1>1, <1>4, <2>2 DEF New
<1>6. n \in 0 .. 16 /\ n # 0
  BY <1>4, <1>5, Extended
<1>7. PICK z \in Int : Magnitude(x) = <<<<n, z>>>> /\ Extend(z, n) = x
  BY <1>4, <1>5, <1>6, Extended
<1>8. d = <<<<g, n>>, <<n, z>>>> \o c
  <2>1. <<<<g, n>>>> \o <<<<n, z>>>> = <<<<g, n>>, <<n, z>>>>
    BY Joined
  <2>2. d = <<<<g, n>>>> \o Magnitude(x) \o c
    BY <1>1, <1>4
  <2> QED BY <1>7, <2>1, <2>2
<1>9. g \in Nat
  BY <1>3, <1>4, GapsAre
<1>10. TwoSymbols(<<g, n>>, <<n, z>>, c, d)
  <2>1. <<g, n>> \in Int \X Int /\ <<n, z>> \in Int \X Int
    BY <1>6, <1>9
  <2> QED BY <1>8, <2>1, TwoSymbolsIs
<1>11. ASSUME s.ah > 0 PROVE n = 1 /\ x = IF z = 1 THEN 1 ELSE -1
  <2>1. x \in {-1, 1}
    BY <1>1, <1>3, <1>4, <1>11, AcValues
  <2>2. Size(x) = 1 /\ Magnitude(x) = <<<<1, IF x = 1 THEN 1 ELSE 0>>>>
    BY <2>1, UnitSize
  <2>3. z = IF x = 1 THEN 1 ELSE 0
    <3>1. <<<<n, z>>>>[1][2] = <<<<1, IF x = 1 THEN 1 ELSE 0>>>>[1][2]
      BY <1>7, <2>2
    <3> QED BY <3>1
  <2> QED BY <1>4, <2>1, <2>2, <2>3
<1>12. n \in 1 .. 16
  BY <1>6
<1> QED BY <1>1, <1>4, <1>7, <1>10, <1>11, <1>12 DEF NewShape

LEMMA RunShaped ==
  ASSUME MaxRun \in Nat \ {0}, NEW p, NEW s, NEW b, NEW j, NEW d, NEW to, RunWritten(p, s, b, j, d, to)
  PROVE  \E l \in j .. s.se - 1 : \E c \in Seq(Int \X Int) : RunShape(p, s, b, j, l, c, d, to)
<1>1. PICK l \in j .. s.se - 1, c \in Seq(Int \X Int) :
        /\ \A h \in j .. l : ~New(p, s, b, h)
        /\ ~Old(p, s, b, l) /\ Gaps(p, s, b, j, l) = MaxRun + 1
        /\ Holds(p, s, {b} \X OldRow(p, s, b, j, l), c)
        /\ d = <<<<MaxRun, 0>>>> \o c
        /\ to = <<b, l + 1>>
  BY DEF RunWritten
<1>2. <<MaxRun, 0>> \in Int \X Int
  OBVIOUS
<1>3. OneSymbol(<<MaxRun, 0>>, c, d)
  BY <1>1, <1>2, OneSymbolIs
<1> QED BY <1>1, <1>3 DEF RunShape

(* At a coefficient the encoder writes something.                          *)
LEMMA Written ==
  ASSUME MaxRun \in Nat \ {0}, NEW p, NEW s, Sound(p, s), NEW b \in DOMAIN s.order, NEW j \in s.ss .. s.se,
         NEW d, NEW to, Write(p, s, b, j, d, to)
  PROVE  d \in Seq(Int \X Int) /\ Len(d) >= 1
<1>1. s.ss \in Nat /\ s.se \in Nat /\ j \in Nat
  BY DEF Sound
<1>2. CASE j = 0
  <2>1. s.ss = 0 /\ Write(p, s, b, 0, d, to)
    BY <1>1, <1>2
  <2>2. /\ s.ah > 0 => d = <<Bit(Value(p, s, b, 0), s.al)>>
        /\ s.ah = 0 => DcDiff(p, s, b) \in Int /\ Differs(DcDiff(p, s, b), d)
    BY <2>1, DcShape
  <2>3. CASE s.ah > 0
    <3>1. PICK y : y = IF HasBit(Value(p, s, b, 0), s.al) THEN 1 ELSE 0
      OBVIOUS
    <3>2. y \in Int /\ d = <<<<1, y>>>>
      BY <2>2, <2>3, <3>1 DEF Bit
    <3> QED BY <3>2, Typed
  <2>4. CASE s.ah = 0
    <3>1. CASE d = <<<<0, 0>>>>
      BY <3>1, Typed
    <3>2. CASE \E n \in 1 .. 16 : \E y \in Int : d = <<<<0, n>>, <<n, y>>>>
      <4>1. PICK n \in 1 .. 16, y \in Int : d = <<<<0, n>>, <<n, y>>>>
        BY <3>2
      <4>2. n \in Int /\ 0 \in Int
        OBVIOUS
      <4> QED BY <4>1, <4>2, Typed
    <3> QED BY <2>2, <2>4, <3>1, <3>2 DEF Differs
  <2> QED BY <2>3, <2>4 DEF Sound
<1>3. CASE j > 0
  <2>1. WriteAc(p, s, b, j, d, to)
    BY <1>1, <1>3 DEF Write
  <2>2. EndWritten(p, s, b, j, d, to) \/ NewWritten(p, s, b, j, d, to) \/ RunWritten(p, s, b, j, d, to)
    BY <2>1, WriteAcShape
  <2>3. ASSUME NEW x, NEW c \in Seq(Int \X Int), OneSymbol(x, c, d) PROVE d \in Seq(Int \X Int) /\ Len(d) >= 1
    BY <2>3 DEF OneSymbol
  <2>4. ASSUME NEW x, NEW y, NEW c \in Seq(Int \X Int), TwoSymbols(x, y, c, d)
        PROVE  d \in Seq(Int \X Int) /\ Len(d) >= 1
    BY <2>4 DEF TwoSymbols
  <2>5. CASE EndWritten(p, s, b, j, d, to)
    <3>1. PICK m \in Nat \ {0}, r \in 0 .. MaxRun - 1, c \in Seq(Int \X Int) : EndShape(p, s, b, j, m, r, c, d, to)
      BY <2>5, EndShaped
    <3> QED BY <2>3, <2>4, <3>1 DEF EndShape
  <2>6. CASE NewWritten(p, s, b, j, d, to)
    <3>1. PICK l \in j .. s.se, n \in 1 .. 16, y \in Int, c \in Seq(Int \X Int) :
            NewShape(p, s, b, j, l, n, y, c, d, to)
      BY <1>3, <2>6, NewShaped
    <3> QED BY <2>4, <3>1 DEF NewShape
  <2>7. CASE RunWritten(p, s, b, j, d, to)
    <3>1. PICK l \in j .. s.se - 1, c \in Seq(Int \X Int) : RunShape(p, s, b, j, l, c, d, to)
      BY <2>7, RunShaped
    <3> QED BY <2>3, <3>1 DEF RunShape
  <2> QED BY <2>2, <2>5, <2>6, <2>7
<1> QED BY <1>1, <1>2, <1>3

-------------------------------------------------------------------------------
(* The steps.                                                              *)

Given == JpegAssumption /\ IInv

(* What is known of the scan that is decoded.                              *)
LEMMA Opening ==
  ASSUME Given
  PROVE  /\ Legal(picture) /\ Final \in Nat \ {0} /\ MaxRun \in Nat \ {0} /\ nth \in Nat
         /\ picture.script \in Seq([comps : Seq(DOMAIN picture.factors), ss : Nat, se : Nat, ah : 0 .. 13, al : 0 .. 13])
         /\ pc # "scan" =>
              /\ nth + 1 \in DOMAIN picture.script /\ scan = Opened(picture, picture.script[nth + 1])
              /\ Sound(picture, scan)
<1>1. Legal(picture) /\ Final \in Nat \ {0} /\ MaxRun \in Nat \ {0}
  BY DEF Given, JpegAssumption, IInv, TypeOK
<1>2. picture.script \in Seq([comps : Seq(DOMAIN picture.factors), ss : Nat, se : Nat, ah : 0 .. 13, al : 0 .. 13])
  BY <1>1 DEF Legal, LegalFrame
<1>3. nth \in Nat
  BY <1>2 DEF Given, IInv, TypeOK
<1>4. ASSUME pc # "scan"
      PROVE  /\ nth + 1 \in DOMAIN picture.script /\ scan = Opened(picture, picture.script[nth + 1])
             /\ Sound(picture, scan)
  <2>1. nth + 1 \in DOMAIN picture.script /\ scan = Opened(picture, picture.script[nth + 1])
    BY <1>4 DEF Given, IInv, TypeOK, IsScan
  <2> QED BY <1>1, <2>1, ScanSound
<1> QED BY <1>1, <1>2, <1>3, <1>4

LEMMA StartKeeps ==
  ASSUME Given, Start
  PROVE  IInv'
<1>1. /\ Legal(picture) /\ Final \in Nat \ {0} /\ MaxRun \in Nat \ {0} /\ nth \in Nat
      /\ picture.script \in Seq([comps : Seq(DOMAIN picture.factors), ss : Nat, se : Nat, ah : 0 .. 13, al : 0 .. 13])
  BY Opening
<1>2. PICK s : s = Opened(picture, picture.script[nth + 1])
  OBVIOUS
<1>3. /\ pc = "scan" /\ nth < Len(picture.script)
      /\ scan' = s /\ cur' = 1 /\ eobrun' = 0 /\ pred' = [c \in DOMAIN pred |-> 0] /\ pc' = "block"
      /\ out' = <<1, s.ss>> /\ picture' = picture /\ nth' = nth /\ coefs' = coefs /\ k' = k /\ data' = data
  BY <1>2 DEF Start, file
<1>4. data = <<>> /\ pred \in [DOMAIN picture.factors -> Int]
  BY <1>3 DEF Given, IInv, TypeOK
<1>5. nth + 1 \in DOMAIN picture.script
  BY <1>1, <1>3
<1>6. Sound(picture, s)
  BY <1>1, <1>2, <1>5, ScanSound
<1>7. TypeOK'
  <2>1. picture' \in Picture /\ nth' \in 0 .. Len(picture'.script) /\ k' \in Nat
        /\ coefs' \in [Buffer(picture') -> [0 .. Final -> Int]]
    BY <1>3 DEF Given, IInv, TypeOK
  <2>2. pred' \in [DOMAIN picture'.factors -> Int]
    BY <1>3, <1>4
  <2>3. data' \in Seq(Int \X Int)
    BY <1>3, <1>4
  <2>4. IsScan(picture', nth' + 1, scan')
    BY <1>2, <1>3, <1>5 DEF IsScan
  <2> QED BY <1>3, <2>1, <2>2, <2>3, <2>4 DEF TypeOK, Inside
<1>8. Place'
  <2>1. Len(s.order) \in Nat
    BY <1>6 DEF Sound
  <2> QED BY <1>3, <2>1 DEF Place, Inside
<1>9. Filled'
  <2>1. \A at \in Buffer(picture) : \A j \in 0 .. Final : coefs[at][j] = Precise(picture, nth, at, j)
    BY <1>3 DEF Given, IInv, Filled
  <2>2. Made(picture, s, 1, 0, coefs) /\ Kept(picture, nth, coefs)
    BY <1>1, <1>2, <1>5, <2>1, ScanBegins
  <2> QED BY <1>3, <2>2 DEF Filled, Inside
<1>10. Foreseen'
  BY <1>3, <1>4 DEF Foreseen
<1>11. Agreed'
  <2>1. 1 \in Nat \ {0} /\ 1 <= Len(s.order) + 1
    BY <1>6 DEF Sound
  <2>2. Between(picture, s, 1, 0, <<>>, Beginning(s, 1))
    BY <1>6, <2>1, NothingWritten
  <2>3. Beginning(s, 1) = <<1, s.ss>>
    BY DEF Beginning, Fresh
  <2> QED BY <1>3, <1>4, <2>2, <2>3 DEF Agreed, Inside
<1> QED BY <1>7, <1>8, <1>9, <1>10, <1>11 DEF IInv

(* A prediction is of its interval.                                        *)
LEMMA LatestNone ==
  ASSUME NEW p, NEW s, Sound(p, s), NEW c, NEW b \in DOMAIN s.order, b = 1 \/ Fresh(s, b)
  PROVE  Latest(p, s, c, b - 1, s.order[b].interval) = 0
<1>1. PICK T : T = LatestOf(p, s, c, b - 1, s.order[b].interval)
  OBVIOUS
<1>2. DOMAIN s.order = 1 .. Len(s.order) /\ Len(s.order) \in Nat /\ b \in Nat /\ b >= 1
  BY DEF Sound
<1>3. T = {}
  <2>1. SUFFICES ASSUME NEW d \in T PROVE FALSE
    OBVIOUS
  <2>2. d \in 1 .. b - 1 /\ s.order[d].interval = s.order[b].interval
    BY <1>1, <2>1 DEF LatestOf
  <2>3. b > 1 /\ s.order[b].interval # s.order[b - 1].interval
    BY <1>2, <2>2 DEF Fresh
  <2>4. d \in DOMAIN s.order /\ b - 1 \in DOMAIN s.order /\ d <= b - 1 /\ b - 1 <= b
    BY <1>2, <2>2
  <2>5. s.order[d].interval <= s.order[b - 1].interval /\ s.order[b - 1].interval <= s.order[b].interval
    BY <2>4 DEF Sound, Ordered
  <2>6. s.order[b].interval \in Nat /\ s.order[b - 1].interval \in Nat
    BY <2>4 DEF Sound
  <2> QED BY <2>2, <2>3, <2>5, <2>6
<1> QED BY <1>1, <1>3 DEF Latest, LatestOf

LEMMA EnterKeeps ==
  ASSUME Given, Enter
  PROVE  IInv'
<1>1. pc = "block" /\ cur <= Len(scan.order)
  BY DEF Enter
<1>2. Sound(picture, scan)
  BY <1>1, Opening
<1>3. /\ DOMAIN scan.order = 1 .. Len(scan.order) /\ Len(scan.order) \in Nat /\ scan.ss \in Nat
      /\ scan.se \in Nat /\ scan.ss <= scan.se /\ scan.ah \in Nat
  BY <1>2 DEF Sound
<1>4. cur \in DOMAIN scan.order /\ cur \in Nat \ {0}
  BY <1>1, <1>3 DEF Given, IInv, TypeOK
<1>5. /\ picture' = picture /\ nth' = nth /\ coefs' = coefs /\ scan' = scan /\ cur' = cur /\ out' = out
      /\ k' = scan.ss /\ pc' = IF scan.ss = 0 THEN "dc" ELSE IF scan.ah = 0 THEN "ac" ELSE "refine"
  BY DEF Enter, file
<1>6. Between(picture, scan, cur, eobrun, data, out) /\ data \in Seq(Int \X Int) /\ eobrun \in Nat
      /\ pred \in [DOMAIN picture.factors -> Int]
  BY <1>1 DEF Given, IInv, TypeOK, Agreed
<1>7. ASSUME Underway(picture, scan, cur, scan.ss, 0, data, out)
      PROVE  data = <<>> /\ out = Beginning(scan, cur)
  <2>1. cur <= Len(scan.order) + 1
    BY <1>1, <1>3, <1>4
  <2>2. \A d \in Seq(Int \X Int) : \A to :
          Underway(picture, scan, cur, scan.ss, 0, d, to) => d = <<>> /\ to = Beginning(scan, cur)
    BY <1>2, <1>4, <2>1, NothingWritten, Zenon
  <2> QED BY <1>6, <1>7, <2>2
<1>8. CASE Fresh(scan, cur)
  <2>1. PICK i \in DOMAIN data : data' = SubSeq(data, i + 1, Len(data))
    BY <1>8 DEF Enter, Skip
  <2>2. pred' = [c \in DOMAIN pred |-> 0] /\ eobrun' = 0
    BY <1>8 DEF Enter
  <2>3. data = <<Marker>> /\ out = <<cur, scan.ss>>
    <3>1. data # <<>>
      BY <2>1
    <3>2. cur > 1 /\ scan.order[cur].interval # scan.order[cur - 1].interval
      BY <1>8 DEF Fresh
    <3>3. ~Underway(picture, scan, cur, scan.ss, eobrun, data, out) \/ eobrun > 0
      BY <1>6, <1>7, <3>1
    <3> QED BY <1>6, <3>2, <3>3 DEF Between
  <2>4. data' = <<>>
    <3>1. Len(data) = 1 /\ DOMAIN data = 1 .. 1
      BY <2>3
    <3>2. i = 1
      BY <3>1
    <3>3. data' = SubSeq(data, 2, 1)
      BY <2>1, <3>1, <3>2
    <3>4. Len(data') = 0 /\ data' \in Seq(Int \X Int)
      <4>1. 1 \in 0 .. Len(data)
        BY <3>1
      <4>2. SubSeq(data, 1 + 1, Len(data)) \in Seq(Int \X Int) /\ Len(SubSeq(data, 1 + 1, Len(data))) = Len(data) - 1
        BY <1>6, <4>1, Dropped
      <4> QED BY <3>1, <3>3, <4>2
    <3> QED BY <3>4
  <2>5. pred' \in [DOMAIN picture.factors -> Int] /\ \A c \in DOMAIN picture.factors : pred'[c] = 0
    BY <1>6, <2>2
  <2>6. Within(picture, scan, cur, scan.ss, 0, <<>>, out)
    BY <1>3, <2>3 DEF Within
  <2>7. Predicted(picture, scan, cur - 1, scan.order[cur].interval, pred')
    BY <1>2, <1>4, <1>8, <2>5, LatestNone DEF Predicted
  <2> HIDE DEF Enter
  <2>8. TypeOK'
    BY <1>1, <1>5, <2>2, <2>4, <2>5, <1>3 DEF Given, IInv, TypeOK, Inside
  <2>9. Place'
    BY <1>1, <1>3, <1>4, <1>5, <2>2 DEF Given, IInv, Place, Inside
  <2>10. Filled'
    <3>1. Made(picture, scan, cur, 0, coefs) /\ Kept(picture, nth, coefs)
      BY <1>1 DEF Given, IInv, Filled, Inside
    <3>2. Made(picture, scan, cur, scan.ss, coefs)
      <4>1. ASSUME NEW b \in DOMAIN scan.order, NEW j \in scan.ss .. scan.se
            PROVE  (b < cur \/ (b = cur /\ j < 0)) <=> (b < cur \/ (b = cur /\ j < scan.ss))
        BY <1>3
      <4> QED BY <3>1, <4>1, MadeMoves
    <3> QED BY <1>5, <3>1, <3>2 DEF Filled, Inside
  <2>11. Foreseen'
    BY <1>5, <2>7 DEF Foreseen
  <2>12. Agreed'
    BY <1>5, <2>2, <2>4, <2>6 DEF Agreed, Inside
  <2> QED BY <2>8, <2>9, <2>10, <2>11, <2>12 DEF IInv
<1>9. CASE ~Fresh(scan, cur)
  <2>1. data' = data /\ pred' = pred /\ eobrun' = eobrun
    BY <1>9 DEF Enter
  <2>2. Within(picture, scan, cur, scan.ss, eobrun, data, out)
    <3>1. Underway(picture, scan, cur, scan.ss, eobrun, data, out)
      BY <1>6, <1>9 DEF Between
    <3>2. CASE eobrun > 0
      BY <3>1, <3>2 DEF Within
    <3>3. CASE eobrun = 0
      <4>1. data = <<>> /\ out = Beginning(scan, cur)
        BY <1>7, <3>1, <3>3
      <4>2. out = <<cur, scan.ss>>
        BY <1>9, <4>1 DEF Beginning
      <4> QED BY <1>3, <3>3, <4>1, <4>2 DEF Within
    <3> QED BY <1>6, <3>2, <3>3
  <2>3. scan.ss = 0 /\ scan.ah = 0 => Predicted(picture, scan, cur - 1, scan.order[cur].interval, pred)
    <3>1. SUFFICES ASSUME scan.ss = 0 /\ scan.ah = 0
                   PROVE  Predicted(picture, scan, cur - 1, scan.order[cur].interval, pred)
      OBVIOUS
    <3>2. CASE cur = 1
      <4>1. \A c \in DOMAIN picture.factors : pred[c] = 0
        BY <1>1, <3>1, <3>2 DEF Given, IInv, Foreseen
      <4> QED BY <1>2, <1>4, <3>2, <4>1, LatestNone DEF Predicted
    <3>3. CASE cur > 1
      <4>1. Predicted(picture, scan, cur - 1, scan.order[cur - 1].interval, pred)
        BY <1>1, <3>1, <3>3 DEF Given, IInv, Foreseen
      <4>2. scan.order[cur].interval = scan.order[cur - 1].interval
        BY <1>9, <3>3 DEF Fresh
      <4> QED BY <4>1, <4>2
    <3> QED BY <1>4, <3>2, <3>3
  <2> HIDE DEF Enter
  <2>8. TypeOK'
    BY <1>1, <1>5, <2>1, <1>3 DEF Given, IInv, TypeOK, Inside
  <2>9. Place'
    BY <1>1, <1>3, <1>4, <1>5, <2>1 DEF Given, IInv, Place, Inside
  <2>10. Filled'
    <3>1. Made(picture, scan, cur, 0, coefs) /\ Kept(picture, nth, coefs)
      BY <1>1 DEF Given, IInv, Filled, Inside
    <3>2. Made(picture, scan, cur, scan.ss, coefs)
      <4>1. ASSUME NEW b \in DOMAIN scan.order, NEW j \in scan.ss .. scan.se
            PROVE  (b < cur \/ (b = cur /\ j < 0)) <=> (b < cur \/ (b = cur /\ j < scan.ss))
        BY <1>3
      <4> QED BY <3>1, <4>1, MadeMoves
    <3> QED BY <1>5, <3>1, <3>2 DEF Filled, Inside
  <2>11. Foreseen'
    BY <1>5, <2>1, <2>3 DEF Foreseen
  <2>12. Agreed'
    BY <1>5, <2>1, <2>2 DEF Agreed, Inside
  <2> QED BY <2>8, <2>9, <2>10, <2>11, <2>12 DEF IInv
<1> QED BY <1>8, <1>9

LEMMA FinishKeeps ==
  ASSUME Given, Finish
  PROVE  IInv'
<1>1. /\ pc = "block" /\ cur > Len(scan.order)
      /\ nth' = nth + 1 /\ pc' = "scan" /\ scan' = NoScan /\ cur' = 1 /\ k' = 0 /\ data' = <<>> /\ out' = <<1, 0>>
      /\ picture' = picture /\ coefs' = coefs /\ eobrun' = eobrun /\ pred' = pred
  BY DEF Finish
<1>2. /\ Legal(picture) /\ Final \in Nat \ {0} /\ nth \in Nat
      /\ picture.script \in Seq([comps : Seq(DOMAIN picture.factors), ss : Nat, se : Nat, ah : 0 .. 13, al : 0 .. 13])
      /\ nth + 1 \in DOMAIN picture.script /\ scan = Opened(picture, picture.script[nth + 1])
  BY <1>1, Opening
<1>3. cur \in Nat
  BY DEF Given, IInv, TypeOK
<1>4. Made(picture, scan, cur, 0, coefs) /\ Kept(picture, nth, coefs)
  BY <1>1 DEF Given, IInv, Filled, Inside
<1>5. Exact(picture, nth + 1, coefs)
  BY <1>1, <1>2, <1>3, <1>4, ScanFinishes
<1>6. TypeOK'
  <2>1. nth' \in 0 .. Len(picture'.script)
    BY <1>1, <1>2
  <2>2. data' \in Seq(Int \X Int)
    BY <1>1
  <2> QED BY <1>1, <2>1, <2>2 DEF Given, IInv, TypeOK, Inside
<1>7. Place'
  BY <1>1 DEF Place, Inside
<1>8. Filled'
  BY <1>1, <1>5 DEF Filled, Exact, Inside
<1>9. Foreseen'
  BY <1>1 DEF Foreseen
<1>10. Agreed'
  BY <1>1 DEF Agreed, Inside
<1> QED BY <1>6, <1>7, <1>8, <1>9, <1>10 DEF IInv

(* The encoder writes when the decoder waits and nothing is left.          *)
LEMMA EncodeKeeps ==
  ASSUME Given, Encode
  PROVE  IInv'
<1>1. /\ Waits /\ data = <<>> /\ out[1] <= Len(scan.order)
      /\ Write(picture, scan, out[1], out[2], data', out')
      /\ picture' = picture /\ nth' = nth /\ coefs' = coefs /\ pc' = pc /\ scan' = scan /\ cur' = cur /\ k' = k
      /\ eobrun' = eobrun /\ pred' = pred
  BY DEF Encode, file
<1>2. pc = "block" \/ pc \in Inside
  BY <1>1 DEF Waits, Inside
<1>3. pc # "scan"
  BY <1>2 DEF Inside
<1>4. Sound(picture, scan) /\ MaxRun \in Nat \ {0}
  BY <1>3, Opening
<1>5. /\ DOMAIN scan.order = 1 .. Len(scan.order) /\ Len(scan.order) \in Nat /\ scan.ss \in Nat
      /\ scan.se \in Nat /\ scan.ss <= scan.se
  BY <1>4 DEF Sound
<1>6. cur \in Nat \ {0} /\ eobrun \in Nat /\ data \in Seq(Int \X Int)
  BY DEF Given, IInv, TypeOK
<1>7. CASE pc = "block"
  <2>1. cur <= Len(scan.order) /\ Fresh(scan, cur)
    BY <1>1, <1>7 DEF Waits
  <2>2. cur > 1 /\ scan.order[cur].interval # scan.order[cur - 1].interval
    BY <2>1 DEF Fresh
  <2>3. Between(picture, scan, cur, eobrun, data, out)
    BY <1>7 DEF Given, IInv, Agreed
  <2>4. eobrun = 0 /\ Underway(picture, scan, cur, scan.ss, 0, data, out)
    BY <1>1, <1>6, <2>2, <2>3 DEF Between
  <2>5. out = Beginning(scan, cur)
    BY <1>6, <2>4 DEF Underway
  <2>6. out = <<cur, -1>>
    BY <2>1, <2>5 DEF Beginning
  <2>7. data' = <<Marker>> /\ out' = <<cur, scan.ss>>
    BY <1>1, <2>6 DEF Write
  <2>8. Between(picture', scan', cur', eobrun', data', out')
    BY <1>1, <2>1, <2>4, <2>7 DEF Between
  <2>9. data' \in Seq(Int \X Int)
    BY <2>7 DEF Marker
  <2>10. TypeOK' /\ Place'
    BY <1>1, <1>3, <2>9 DEF Given, IInv, TypeOK, Place, Inside
  <2>11. Filled' /\ Foreseen'
    BY <1>1 DEF Given, IInv, Filled, Foreseen, Inside
  <2>12. Agreed'
    BY <1>1, <1>7, <2>8 DEF Agreed, Inside
  <2> QED BY <2>10, <2>11, <2>12 DEF IInv
<1>8. CASE pc \in Inside
  <2>1. Within(picture, scan, cur, k, eobrun, data, out) /\ cur \in 1 .. Len(scan.order) /\ k \in scan.ss .. scan.se + 1
    BY <1>8 DEF Given, IInv, Agreed, Place
  <2>2. cur \in DOMAIN scan.order
    BY <1>5, <2>1
  <2>3. eobrun = 0 /\ k <= scan.se
    <3>1. CASE pc = "dc"
      BY <1>5, <3>1 DEF Given, IInv, Place, Inside
    <3>2. CASE pc # "dc"
      BY <1>1, <1>8, <3>2 DEF Waits, Inside
    <3> QED BY <3>1, <3>2
  <2>4. k \in scan.ss .. scan.se
    BY <1>5, <2>1, <2>3
  <2>5. ~Write(picture, scan, cur, k, data, out)
    <3>1. Len(data) = 0
      BY <1>1
    <3> QED BY <1>4, <2>2, <2>4, <3>1, Written
  <2>6. out = <<cur, k>>
    BY <1>5, <2>1, <2>3, <2>5 DEF Within
  <2>7. Write(picture, scan, cur, k, data', out')
    BY <1>1, <2>6
  <2>8. Within(picture', scan', cur', k', eobrun', data', out')
    BY <1>1, <2>3, <2>7 DEF Within
  <2>9. data' \in Seq(Int \X Int)
    BY <1>4, <2>2, <2>4, <2>7, Written
  <2>10. TypeOK' /\ Place'
    BY <1>1, <1>3, <2>9 DEF Given, IInv, TypeOK, Place, Inside
  <2>11. Filled' /\ Foreseen'
    BY <1>1 DEF Given, IInv, Filled, Foreseen, Inside
  <2>12. Agreed'
    BY <1>1, <1>8, <2>8 DEF Agreed, Inside
  <2> QED BY <2>10, <2>11, <2>12 DEF IInv
<1> QED BY <1>2, <1>7, <1>8

(* Within a block.                                                         *)
LEMMA Around ==
  ASSUME Given, pc \in Inside
  PROVE  /\ Legal(picture) /\ Final \in Nat \ {0} /\ MaxRun \in Nat \ {0} /\ Sound(picture, scan)
         /\ DOMAIN scan.order = 1 .. Len(scan.order) /\ Len(scan.order) \in Nat
         /\ cur \in DOMAIN scan.order /\ cur \in Nat \ {0} /\ scan.order[cur].at \in Buffer(picture)
         /\ scan.ss \in 0 .. Final /\ scan.se \in scan.ss .. Final /\ scan.al \in Nat /\ scan.ah \in Nat
         /\ k \in scan.ss .. scan.se + 1 /\ k \in Nat /\ eobrun \in Nat
         /\ data \in Seq(Int \X Int) /\ pred \in [DOMAIN picture.factors -> Int]
         /\ coefs \in [Buffer(picture) -> [0 .. Final -> Int]] /\ Block \in [0 .. Final -> Int]
         /\ Made(picture, scan, cur, k, coefs) /\ Kept(picture, nth, coefs)
         /\ Within(picture, scan, cur, k, eobrun, data, out)
<1>1. pc # "scan"
  BY DEF Inside
<1>2. Legal(picture) /\ Final \in Nat \ {0} /\ MaxRun \in Nat \ {0} /\ Sound(picture, scan)
  BY <1>1, Opening
<1>3. /\ DOMAIN scan.order = 1 .. Len(scan.order) /\ Len(scan.order) \in Nat
      /\ scan.ss \in 0 .. Final /\ scan.se \in scan.ss .. Final /\ scan.al \in Nat /\ scan.ah \in Nat
  BY <1>2 DEF Sound
<1>4. cur \in DOMAIN scan.order /\ cur \in Nat \ {0} /\ k \in scan.ss .. scan.se + 1
  BY <1>3 DEF Given, IInv, Place
<1>5. scan.order[cur].at \in Buffer(picture)
  BY <1>2, <1>4 DEF Sound
<1>6. /\ k \in Nat /\ eobrun \in Nat /\ data \in Seq(Int \X Int) /\ pred \in [DOMAIN picture.factors -> Int]
      /\ coefs \in [Buffer(picture) -> [0 .. Final -> Int]]
  BY DEF Given, IInv, TypeOK
<1>7. Block \in [0 .. Final -> Int]
  BY <1>5, <1>6 DEF Block
<1>8. Made(picture, scan, cur, k, coefs) /\ Kept(picture, nth, coefs)
  BY <1>1 DEF Given, IInv, Filled
<1>9. Within(picture, scan, cur, k, eobrun, data, out)
  BY DEF Given, IInv, Agreed
<1> QED BY <1>2, <1>3, <1>4, <1>5, <1>6, <1>7, <1>8, <1>9

(* The block with the coefficients up to i made.                           *)
LEMMA Advancing ==
  ASSUME Given, pc \in Inside, NEW i \in k .. scan.se + 1, NEW row \in [0 .. Final -> Int],
         \A l \in 0 .. Final : row[l] = IF l \in k .. i - 1 THEN Becomes(picture, scan, cur, l) ELSE Block[l],
         NEW y, y = [coefs EXCEPT ![scan.order[cur].at] = row]
  PROVE  y \in [Buffer(picture) -> [0 .. Final -> Int]] /\ Made(picture, scan, cur, i, y) /\ Kept(picture, nth, y)
<1>1. pc # "scan"
  BY DEF Inside
<1>2. /\ Legal(picture) /\ Final \in Nat /\ nth \in Nat /\ nth + 1 \in DOMAIN picture.script
      /\ scan = Opened(picture, picture.script[nth + 1])
  BY <1>1, Opening
<1>3. /\ cur \in DOMAIN scan.order /\ k \in scan.ss .. scan.se + 1
      /\ coefs \in [Buffer(picture) -> [0 .. Final -> Int]]
      /\ Made(picture, scan, cur, k, coefs) /\ Kept(picture, nth, coefs)
  BY Around
<1>4. PICK s, x : s = scan /\ x = coefs
  OBVIOUS
<1>5. RowMade(picture, s, cur, k, i, x, row)
  BY <1>4 DEF Block, RowMade
<1>6. /\ cur \in DOMAIN s.order /\ k \in s.ss .. s.se + 1 /\ i \in k .. s.se + 1
      /\ x \in [Buffer(picture) -> [0 .. Final -> Int]]
      /\ Made(picture, s, cur, k, x) /\ Kept(picture, nth, x)
      /\ s = Opened(picture, picture.script[nth + 1]) /\ y = [x EXCEPT ![s.order[cur].at] = row]
  BY <1>2, <1>3, <1>4
<1>7. y \in [Buffer(picture) -> [0 .. Final -> Int]] /\ Made(picture, s, cur, i, y) /\ Kept(picture, nth, y)
  <2>1. RowStep(picture, nth, s, x, cur, k, i, row, y)
    BY <1>2, <1>5, <1>6 DEF RowStep
  <2> QED BY <2>1, RowMakes
<1> QED BY <1>4, <1>7

(* A block is done when the scan leaves the rest of it as it is.           *)
LEMMA BlockDone ==
  ASSUME NEW p, NEW s, Sound(p, s), NEW b \in DOMAIN s.order, NEW j \in Nat, NEW x, Made(p, s, b, j, x),
         \A l \in s.ss .. s.se : l >= j => Becomes(p, s, b, l) = Was(p, s, b, l)
  PROVE  Made(p, s, b + 1, 0, x)
<1>1. DOMAIN s.order = 1 .. Len(s.order) /\ Len(s.order) \in Nat /\ b \in Nat /\ s.ss \in Nat /\ s.se \in Nat
  BY DEF Sound
<1>2. ASSUME NEW c \in DOMAIN s.order, NEW l \in s.ss .. s.se
      PROVE  \/ (c < b \/ (c = b /\ l < j)) <=> (c < b + 1 \/ (c = b + 1 /\ l < 0))
             \/ Becomes(p, s, c, l) = Was(p, s, c, l)
  <2>1. CASE c = b /\ l >= j
    BY <2>1
  <2>2. CASE c # b \/ l < j
    BY <1>1, <2>2
  <2> QED BY <1>1, <2>1, <2>2
<1>3. PICK d : d = b + 1
  OBVIOUS
<1>4. \A c \in DOMAIN s.order : \A l \in s.ss .. s.se :
        \/ (c < b \/ (c = b /\ l < j)) <=> (c < d \/ (c = d /\ l < 0))
        \/ Becomes(p, s, c, l) = Was(p, s, c, l)
  BY <1>2, <1>3
<1>5. Made(p, s, d, 0, x)
  BY <1>4, MadeMoves
<1> QED BY <1>3, <1>5

(* The last value of a component is that of this block, or as before.      *)
LEMMA LatestGrows ==
  ASSUME NEW p, NEW s, Sound(p, s), NEW b \in DOMAIN s.order, NEW c, NEW g, s.order[b].interval = g
  PROVE  Latest(p, s, c, b, g) = IF s.order[b].at[1] = c THEN Shift(Value(p, s, b, 0), s.al)
                                 ELSE Latest(p, s, c, b - 1, g)
<1>1. b \in Nat /\ b >= 1
  BY DEF Sound
<1>2. PICK S, T : S = LatestOf(p, s, c, b - 1, g) /\ T = LatestOf(p, s, c, b, g)
  OBVIOUS
<1>3. CASE s.order[b].at[1] = c
  <2>1. b \in T /\ T \in SUBSET Int /\ \A d \in T : d <= b
    BY <1>1, <1>2, <1>3 DEF LatestOf
  <2>2. Max(T) = b
    BY <2>1, MaxIs
  <2>3. T # {}
    BY <2>1
  <2> QED BY <1>2, <1>3, <2>2, <2>3 DEF Latest, LatestOf
<1>4. CASE s.order[b].at[1] # c
  <2>1. S = T
    <3>1. ASSUME NEW d PROVE d \in 1 .. b /\ d # b <=> d \in 1 .. b - 1
      BY <1>1
    <3>2. ASSUME NEW d \in T PROVE d \in S
      BY <1>2, <1>4, <3>1 DEF LatestOf
    <3>3. ASSUME NEW d \in S PROVE d \in T
      BY <1>2, <3>1 DEF LatestOf
    <3> QED BY <3>2, <3>3
  <2> QED BY <1>2, <1>4, <2>1 DEF Latest, LatestOf
<1> QED BY <1>3, <1>4

LEMMA Typing ==
  ASSUME Given, pc # "scan", picture' = picture, nth' = nth, scan' = scan, pc' \in {"block"} \cup Inside,
         coefs' \in [Buffer(picture) -> [0 .. Final -> Int]], cur' \in Nat \ {0}, k' \in Nat, eobrun' \in Nat,
         pred' \in [DOMAIN picture.factors -> Int], data' \in Seq(Int \X Int)
  PROVE  TypeOK'
<1>1. picture \in Picture /\ nth \in 0 .. Len(picture.script) /\ IsScan(picture, nth + 1, scan)
  BY DEF Given, IInv, TypeOK
<1>2. pc' # "scan"
  BY DEF Inside
<1> QED BY <1>1, <1>2 DEF TypeOK

LEMMA DcFirstKeeps ==
  ASSUME Given, DcFirst
  PROVE  IInv'
<1>1. pc = "dc" /\ scan.ah = 0 /\ pc \in Inside
  BY DEF DcFirst, Inside
<1>2. /\ Final \in Nat \ {0} /\ MaxRun \in Nat \ {0} /\ Sound(picture, scan)
      /\ DOMAIN scan.order = 1 .. Len(scan.order) /\ Len(scan.order) \in Nat
      /\ cur \in DOMAIN scan.order /\ cur \in Nat \ {0} /\ scan.order[cur].at \in Buffer(picture)
      /\ scan.ss \in 0 .. Final /\ scan.se \in scan.ss .. Final /\ scan.al \in Nat /\ scan.ah \in Nat
      /\ k \in scan.ss .. scan.se + 1 /\ k \in Nat /\ eobrun \in Nat
      /\ data \in Seq(Int \X Int) /\ pred \in [DOMAIN picture.factors -> Int]
      /\ coefs \in [Buffer(picture) -> [0 .. Final -> Int]] /\ Block \in [0 .. Final -> Int]
      /\ Within(picture, scan, cur, k, eobrun, data, out)
  BY <1>1, Around
<1>3. k = 0 /\ scan.ss = 0 /\ eobrun = 0
  <2>1. k = 0
    BY <1>1 DEF Given, IInv, Place
  <2>2. scan.ss = 0
    BY <1>2, <2>1
  <2> QED BY <1>1, <2>1, <2>2 DEF Given, IInv, Place
<1>21. cur + 1 \in Nat \ {0} /\ cur + 1 \in 1 .. Len(scan.order) + 1 /\ cur \in 1 .. Len(scan.order)
  <2>1. cur \in 1 .. Len(scan.order) /\ Len(scan.order) \in Nat
    BY <1>2
  <2> QED BY <2>1
<1>4. PICK x, c, g, a : x = Value(picture, scan, cur, 0) /\ c = scan.order[cur].at[1]
                        /\ g = scan.order[cur].interval /\ a = scan.al
  OBVIOUS
<1>5. Write(picture, scan, cur, 0, data, out)
  <2>1. data # <<>>
    BY <1>2 DEF DcFirst, Has
  <2>2. 0 <= scan.se /\ 0 # scan.se + 1
    BY <1>2
  <2> QED BY <1>2, <1>3, <2>1, <2>2 DEF Within
<1>6. /\ out = Onward(scan, cur, 1)
      /\ DcDiff(picture, scan, cur) \in Int /\ Differs(DcDiff(picture, scan, cur), data)
  BY <1>1, <1>2, <1>3, <1>5, DcShape
<1>7. PICK v : v = DcDiff(picture, scan, cur)
  OBVIOUS
<1>8. c \in DOMAIN picture.factors
  BY <1>2, <1>4, BufferHas
<1>9. PICK y : y = Shift(x, a)
  OBVIOUS
<1>10. y \in Int /\ pred[c] + v = y
  <2>1. Predicted(picture, scan, cur - 1, g, pred)
    BY <1>1, <1>3, <1>4 DEF Given, IInv, Foreseen
  <2>2. pred[c] = Latest(picture, scan, c, cur - 1, g)
    BY <1>8, <2>1 DEF Predicted
  <2>3. v = y - pred[c]
    BY <1>4, <1>7, <1>9, <2>2 DEF DcDiff
  <2>4. 0 \in scan.ss .. scan.se
    BY <1>2, <1>3
  <2>5. x \in Sample
    BY <1>2, <1>4, <2>4 DEF Sound
  <2>6. y \in Int
    BY <1>2, <1>4, <1>9, <2>5, ShiftFits, SampleIs
  <2>7. pred[c] \in Int
    BY <1>2, <1>8
  <2> QED BY <2>3, <2>6, <2>7
<1>11. PICK diff, used : /\ diff = IF data[1][2] = 0 THEN 0 ELSE Extend(data[2][2], data[1][2])
                         /\ used = IF data[1][2] = 0 THEN 1 ELSE 2
  OBVIOUS
<1>12. diff = v /\ SubSeq(data, used + 1, Len(data)) = <<>>
  <2>1. CASE v = 0 /\ data = <<<<0, 0>>>>
    <3>1. data[1][2] = 0 /\ Len(data) = 1
      BY <2>1
    <3>2. used = 1 /\ SubSeq(data, 2, 1) = <<>>
      BY <1>11, <2>1, <3>1
    <3> QED BY <1>11, <2>1, <3>1, <3>2
  <2>2. CASE \E n \in 1 .. 16 : \E z \in Int : data = <<<<0, n>>, <<n, z>>>> /\ Extend(z, n) = v
    <3>1. PICK n \in 1 .. 16, z \in Int : data = <<<<0, n>>, <<n, z>>>> /\ Extend(z, n) = v
      BY <2>2
    <3>2. data[1][2] = n /\ data[2][2] = z /\ Len(data) = 2 /\ n # 0
      BY <3>1
    <3>3. used = 2 /\ SubSeq(data, 3, 2) = <<>>
      BY <1>11, <3>1, <3>2
    <3> QED BY <1>11, <3>1, <3>2, <3>3
  <2> QED BY <1>6, <1>7, <2>1, <2>2 DEF Differs
<1>13. /\ pred' = [pred EXCEPT ![c] = @ + diff] /\ Set(0, (pred[c] + diff) * Pow2[a]) /\ Skip(used)
       /\ IF picture.progressive
          THEN NextBlock /\ UNCHANGED k
          ELSE pc' = "ac" /\ k' = 1 /\ UNCHANGED cur
       /\ picture' = picture /\ nth' = nth /\ scan' = scan /\ eobrun' = eobrun /\ out' = out
  BY <1>4, <1>11 DEF DcFirst, file
<1>14. PICK row : row = [Block EXCEPT ![0] = y * Pow2[a]]
  OBVIOUS
<1>15. coefs' = [coefs EXCEPT ![scan.order[cur].at] = row]
  <2>1. coefs' = [coefs EXCEPT ![scan.order[cur].at][0] = y * Pow2[a]]
    BY <1>10, <1>12, <1>13 DEF Set
  <2> QED BY <1>2, <1>14, <2>1 DEF Block
<1>16. /\ coefs' \in [Buffer(picture) -> [0 .. Final -> Int]]
       /\ Made(picture, scan, cur, 1, coefs') /\ Kept(picture, nth, coefs')
  <2>1. y * Pow2[a] = Becomes(picture, scan, cur, 0) /\ y * Pow2[a] \in Int
    <3>1. Pow2[a] \in Int
      <4>1. a \in Nat
        BY <1>2, <1>4
      <4> QED BY <4>1, Pow2Is
    <3> QED BY <1>4, <1>9, <1>10, <3>1 DEF Becomes, Approx
  <2>2. row \in [0 .. Final -> Int]
    BY <1>2, <1>14, <2>1
  <2>3. ASSUME NEW l \in 0 .. Final
        PROVE  row[l] = IF l \in k .. 1 - 1 THEN Becomes(picture, scan, cur, l) ELSE Block[l]
    BY <1>2, <1>3, <1>14, <2>1
  <2>4. 1 \in k .. scan.se + 1
    BY <1>2, <1>3
  <2> QED BY <1>1, <1>15, <2>2, <2>3, <2>4, Advancing
<1>17. Predicted(picture, scan, cur, g, pred') /\ pred' \in [DOMAIN picture.factors -> Int]
  <2>1. pred' = [pred EXCEPT ![c] = y]
    BY <1>8, <1>10, <1>12, <1>13
  <2>2. ASSUME NEW e \in DOMAIN picture.factors PROVE pred'[e] = Latest(picture, scan, e, cur, g)
    <3>1. Latest(picture, scan, e, cur, g) = IF c = e THEN y ELSE Latest(picture, scan, e, cur - 1, g)
      <4>1. /\ scan.order[cur].interval = g /\ Sound(picture, scan) /\ cur \in DOMAIN scan.order
            /\ scan.order[cur].at[1] = c /\ y = Shift(Value(picture, scan, cur, 0), scan.al)
        BY <1>2, <1>4, <1>9
      <4> QED BY <4>1, LatestGrows
    <3>2. pred[e] = Latest(picture, scan, e, cur - 1, g)
      BY <1>1, <1>3, <1>4 DEF Given, IInv, Foreseen, Predicted
    <3>3. pred'[e] = IF e = c THEN y ELSE pred[e]
      BY <1>2, <2>1
    <3> QED BY <3>1, <3>2, <3>3
  <2> QED BY <1>2, <1>10, <2>1, <2>2 DEF Predicted
<1>18. data' = <<>>
  BY <1>12, <1>13 DEF Skip
<1> HIDE DEF DcFirst
<1>19. CASE picture.progressive
  <2>1. cur' = cur + 1 /\ pc' = "block" /\ k' = k
    BY <1>13, <1>19 DEF NextBlock
  <2>2. scan.se = 0
    BY <1>2, <1>3, <1>19 DEF Sound
  <2>3. Made(picture, scan, cur + 1, 0, coefs')
    <3>1. \A l \in scan.ss .. scan.se : l >= 1 => Becomes(picture, scan, cur, l) = Was(picture, scan, cur, l)
      BY <1>3, <2>2
    <3> QED BY <1>2, <1>16, <3>1, BlockDone
  <2>4. out = Beginning(scan, cur + 1)
    BY <1>6, <2>2 DEF Onward
  <2>5. Between(picture, scan, cur + 1, 0, <<>>, Beginning(scan, cur + 1))
    <3>1. cur + 1 \in Nat \ {0} /\ cur + 1 <= Len(scan.order) + 1
      BY <1>2, <1>21
    <3> QED BY <1>2, <3>1, NothingWritten
  <2>6. TypeOK'
    <3>1. pc # "scan" /\ pc' \in {"block"} \cup Inside /\ cur' \in Nat \ {0} /\ k' \in Nat /\ eobrun' \in Nat
      BY <1>1, <1>3, <1>13, <1>21, <2>1
    <3>2. data' \in Seq(Int \X Int)
      BY <1>18
    <3> QED BY <1>13, <1>16, <1>17, <3>1, <3>2, Typing
  <2>7. Place'
    BY <1>3, <1>13, <1>21, <2>1 DEF Place, Inside
  <2>8. Filled'
    BY <1>13, <1>16, <2>1, <2>3 DEF Filled, Inside
  <2>9. Foreseen'
    <3>1. (cur + 1) - 1 = cur /\ cur + 1 # 1
      BY <1>2, SMTT(30)
    <3> QED BY <1>4, <1>13, <1>17, <2>1, <3>1 DEF Foreseen
  <2>10. Agreed'
    BY <1>3, <1>13, <1>18, <2>1, <2>4, <2>5 DEF Agreed, Inside
  <2> QED BY <2>6, <2>7, <2>8, <2>9, <2>10 DEF IInv
<1>20. CASE ~picture.progressive
  <2>1. cur' = cur /\ pc' = "ac" /\ k' = 1
    BY <1>13, <1>20
  <2>2. scan.se = Final
    BY <1>2, <1>20 DEF Sound
  <2>3. out = <<cur, 1>>
    BY <1>2, <1>6, <2>2 DEF Onward
  <2>4. Within(picture, scan, cur, 1, 0, <<>>, out)
    BY <1>2, <2>2, <2>3 DEF Within
  <2>5. TypeOK'
    <3>1. pc # "scan" /\ pc' \in {"block"} \cup Inside /\ cur' \in Nat \ {0} /\ k' \in Nat /\ eobrun' \in Nat
      BY <1>1, <1>3, <1>13, <1>21, <2>1 DEF Inside
    <3>2. data' \in Seq(Int \X Int)
      BY <1>18
    <3> QED BY <1>13, <1>16, <1>17, <3>1, <3>2, Typing
  <2>6. Place'
    BY <1>1, <1>2, <1>3, <1>13, <1>20, <2>1, <2>2 DEF Place, Inside
  <2>7. Filled'
    BY <1>13, <1>16, <2>1 DEF Filled, Inside
  <2>8. Foreseen'
    BY <1>4, <1>13, <1>17, <2>1 DEF Foreseen
  <2>9. Agreed'
    BY <1>3, <1>13, <1>18, <2>1, <2>4 DEF Agreed, Inside
  <2> QED BY <2>5, <2>6, <2>7, <2>8, <2>9 DEF IInv
<1> QED BY <1>19, <1>20

(* On to the next block.                                                   *)
LEMMA NextBlockKeeps ==
  ASSUME Given, pc \in Inside, picture' = picture, nth' = nth, scan' = scan, pc' = "block", cur' = cur + 1,
         coefs' \in [Buffer(picture) -> [0 .. Final -> Int]], k' \in Nat, eobrun' \in Nat,
         pred' \in [DOMAIN picture.factors -> Int], data' \in Seq(Int \X Int),
         scan.ss = 0 => eobrun' = 0,
         Made(picture, scan, cur + 1, 0, coefs'), Kept(picture, nth, coefs'),
         scan.ss = 0 /\ scan.ah = 0 => Predicted(picture, scan, cur, scan.order[cur].interval, pred'),
         Between(picture, scan, cur + 1, eobrun', data', out')
  PROVE  IInv'
<1>1. cur \in 1 .. Len(scan.order) /\ Len(scan.order) \in Nat /\ cur \in Nat
  <2>1. cur \in DOMAIN scan.order /\ DOMAIN scan.order = 1 .. Len(scan.order) /\ Len(scan.order) \in Nat
    BY Around
  <2> QED BY <2>1
<1>2. cur + 1 \in Nat \ {0} /\ cur + 1 \in 1 .. Len(scan.order) + 1 /\ (cur + 1) - 1 = cur /\ cur + 1 # 1
  <2>1. PICK n : n = Len(scan.order)
    OBVIOUS
  <2>2. cur \in 1 .. n /\ n \in Nat /\ cur \in Nat
    BY <1>1, <2>1
  <2>3. cur + 1 \in Nat \ {0} /\ cur + 1 \in 1 .. n + 1 /\ (cur + 1) - 1 = cur /\ cur + 1 # 1
    BY ONLY <2>2
  <2> QED BY <2>1, <2>3
<1>3. TypeOK'
  <2>1. pc # "scan" /\ pc' \in {"block"} \cup Inside /\ cur' \in Nat \ {0}
    BY <1>2 DEF Inside
  <2> QED BY <2>1, Typing
<1>4. Place'
  BY <1>2 DEF Place, Inside
<1>5. Filled'
  BY DEF Filled, Inside
<1>6. Foreseen'
  BY <1>2 DEF Foreseen
<1>7. Agreed'
  BY DEF Agreed, Inside
<1> QED BY <1>3, <1>4, <1>5, <1>6, <1>7 DEF IInv

(* On in the AC coefficients of this one.                                  *)
LEMMA SameBlockKeeps ==
  ASSUME Given, pc \in {"ac", "refine"}, picture' = picture, nth' = nth, scan' = scan, pc' = pc, cur' = cur,
         coefs' \in [Buffer(picture) -> [0 .. Final -> Int]], k' \in k .. scan.se + 1, eobrun' \in Nat,
         pred' = pred, data' \in Seq(Int \X Int),
         scan.ss = 0 => eobrun' = 0,
         Made(picture, scan, cur, k', coefs'), Kept(picture, nth, coefs'),
         Within(picture, scan, cur, k', eobrun', data', out')
  PROVE  IInv'
<1>0. pc \in Inside
  BY DEF Inside
<1>1. /\ cur \in 1 .. Len(scan.order) /\ cur \in Nat \ {0} /\ k \in Nat /\ k > 0 /\ scan.ss \in Nat /\ scan.se \in Nat
      /\ k \in scan.ss .. scan.se + 1 /\ pred \in [DOMAIN picture.factors -> Int]
  <2>1. /\ cur \in DOMAIN scan.order /\ DOMAIN scan.order = 1 .. Len(scan.order) /\ cur \in Nat \ {0}
        /\ k \in Nat /\ scan.ss \in 0 .. Final /\ scan.se \in scan.ss .. Final /\ Final \in Nat
        /\ k \in scan.ss .. scan.se + 1 /\ pred \in [DOMAIN picture.factors -> Int]
    BY <1>0, Around
  <2>2. k > 0
    BY DEF Given, IInv, Place
  <2>3. scan.ss \in Nat /\ scan.se \in Nat
    BY <2>1
  <2> QED BY <2>1, <2>2, <2>3
<1>2. k' \in Nat /\ k' > 0 /\ k' \in scan.ss .. scan.se + 1
  <2>1. PICK i, ss, se : i = k' /\ ss = scan.ss /\ se = scan.se
    OBVIOUS
  <2>2. k \in Nat /\ k > 0 /\ ss \in Nat /\ se \in Nat /\ k \in ss .. se + 1 /\ i \in k .. se + 1
    BY <1>1, <2>1
  <2>3. i \in Nat /\ i > 0 /\ i \in ss .. se + 1
    BY ONLY <2>2
  <2> QED BY <2>1, <2>3
<1>3. TypeOK'
  <2>1. pc # "scan" /\ pc' \in {"block"} \cup Inside
    BY DEF Inside
  <2> QED BY <1>1, <1>2, <2>1, Typing
<1>4. Place'
  BY <1>1, <1>2 DEF Given, IInv, Place, Inside
<1>5. Filled'
  BY DEF Filled, Inside
<1>6. Foreseen'
  <2>1. Foreseen
    BY DEF Given, IInv
  <2> QED BY <2>1 DEF Foreseen
<1>7. Agreed'
  BY DEF Agreed, Inside
<1> QED BY <1>3, <1>4, <1>5, <1>6, <1>7 DEF IInv

(* What is not made yet is as it was.                                      *)
LEMMA StillWas ==
  ASSUME Given, pc \in Inside, NEW l \in k .. scan.se
  PROVE  Block[l] = Was(picture, scan, cur, l) /\ l \in scan.ss .. scan.se /\ l \in 0 .. Final
<1>1. /\ cur \in DOMAIN scan.order /\ cur \in Nat \ {0} /\ Made(picture, scan, cur, k, coefs)
      /\ k \in scan.ss .. scan.se + 1 /\ k \in Nat
      /\ scan.ss \in 0 .. Final /\ scan.se \in scan.ss .. Final /\ Final \in Nat
  BY Around
<1>2. l \in scan.ss .. scan.se /\ l \in 0 .. Final /\ ~(l < k)
  BY <1>1
<1>3. ~(cur < cur \/ (cur = cur /\ l < k))
  BY <1>1, <1>2
<1>4. coefs[scan.order[cur].at][l] = Was(picture, scan, cur, l)
  BY <1>1, <1>2, <1>3 DEF Made
<1> QED BY <1>2, <1>4 DEF Block

LEMMA DcRefined ==
  ASSUME NEW p, NEW s, Sound(p, s), s.ah > 0, NEW b \in DOMAIN s.order, 0 \in s.ss .. s.se, NEW y, y = Was(p, s, b, 0)
  PROVE  /\ y \in Int
         /\ Becomes(p, s, b, 0) = IF HasBit(Value(p, s, b, 0), s.al) /\ ~HasBit(y, s.al) THEN y + Pow2[s.al] ELSE y
<1>1. PICK x : x = Value(p, s, b, 0)
  OBVIOUS
<1>2. x \in Sample /\ s.al \in Nat /\ s.ah = s.al + 1
  BY <1>1 DEF Sound
<1>3. x \in Int
  BY <1>2, SampleIs
<1>4. y = Approx(x, 0, s.al + 1)
  BY <1>1, <1>2 DEF Was
<1>5. y \in Int /\ Approx(x, 0, s.al) = IF HasBit(x, s.al) /\ ~HasBit(y, s.al) THEN y + Pow2[s.al] ELSE y
  BY <1>2, <1>3, <1>4, DcBit
<1> QED BY <1>1, <1>5 DEF Becomes

LEMMA DcRefineKeeps ==
  ASSUME Given, DcRefine
  PROVE  IInv'
<1>1. pc = "dc" /\ scan.ah > 0 /\ pc \in Inside
  BY DEF DcRefine, Inside
<1>2. /\ Sound(picture, scan) /\ cur \in DOMAIN scan.order
      /\ scan.ss \in 0 .. Final /\ scan.se \in scan.ss .. Final /\ scan.al \in Nat /\ scan.ah \in Nat /\ Final \in Nat
      /\ k \in scan.ss .. scan.se + 1 /\ k \in Nat
      /\ data \in Seq(Int \X Int) /\ pred \in [DOMAIN picture.factors -> Int]
      /\ coefs \in [Buffer(picture) -> [0 .. Final -> Int]] /\ Block \in [0 .. Final -> Int]
      /\ Within(picture, scan, cur, k, eobrun, data, out)
  BY <1>1, Around
<1>3. k = 0 /\ scan.ss = 0 /\ eobrun = 0
  <2>1. k = 0
    BY <1>1 DEF Given, IInv, Place
  <2>2. scan.ss = 0
    BY <1>2, <2>1
  <2> QED BY <1>1, <2>1, <2>2 DEF Given, IInv, Place
<1>4. scan.se = 0 /\ scan.ah = scan.al + 1
  BY <1>1, <1>2, <1>3 DEF Sound
<1>5. PICK x, a, y : x = Value(picture, scan, cur, 0) /\ a = scan.al /\ y = Approx(x, 0, a + 1)
  OBVIOUS
<1>6. Write(picture, scan, cur, 0, data, out)
  <2>1. data # <<>>
    BY <1>2 DEF DcRefine, Has
  <2> QED BY <1>2, <1>3, <1>4, <2>1 DEF Within
<1>7. out = Onward(scan, cur, 1) /\ data = <<Bit(x, a)>>
  BY <1>1, <1>2, <1>3, <1>5, <1>6, DcShape
<1>8. x \in Int
  <2>1. 0 \in scan.ss .. scan.se
    BY <1>3, <1>4
  <2>2. x \in Sample
    BY <1>2, <1>5, <2>1 DEF Sound
  <2> QED BY <2>2, SampleIs
<1>9. Block[0] = y
  <2>1. 0 \in k .. scan.se
    BY <1>3, <1>4
  <2>2. Block[0] = Was(picture, scan, cur, 0)
    BY <1>1, <2>1, StillWas
  <2> QED BY <1>1, <1>4, <1>5, <2>2 DEF Was
<1>10. /\ y \in Int
       /\ Becomes(picture, scan, cur, 0) = IF HasBit(x, a) /\ ~HasBit(y, a) THEN y + Pow2[a] ELSE y
  <2>1. PICK s : s = scan
    OBVIOUS
  <2>2. /\ Sound(picture, s) /\ s.ah > 0 /\ cur \in DOMAIN s.order /\ 0 \in s.ss .. s.se
        /\ y = Was(picture, s, cur, 0)
    BY <1>1, <1>2, <1>3, <1>4, <1>5, <2>1 DEF Was
  <2>3. /\ y \in Int
        /\ Becomes(picture, s, cur, 0) = IF HasBit(Value(picture, s, cur, 0), s.al) /\ ~HasBit(y, s.al)
                                        THEN y + Pow2[s.al] ELSE y
    BY <2>2, DcRefined
  <2> QED BY <1>5, <2>1, <2>3
<1>11. data[1][2] = 1 <=> HasBit(x, a)
  BY <1>7 DEF Bit
<1>12. /\ Set(0, IF data[1][2] = 1 /\ ~HasBit(Block[0], a) THEN Block[0] + Pow2[a] ELSE Block[0])
       /\ Skip(1) /\ cur' = cur + 1 /\ pc' = "block"
       /\ picture' = picture /\ nth' = nth /\ scan' = scan /\ k' = k /\ eobrun' = eobrun /\ pred' = pred /\ out' = out
  BY <1>5 DEF DcRefine, NextBlock, file
<1> HIDE DEF DcRefine
<1>13. PICK z : z = Becomes(picture, scan, cur, 0)
  OBVIOUS
<1>14. z = (IF data[1][2] = 1 /\ ~HasBit(Block[0], a) THEN Block[0] + Pow2[a] ELSE Block[0]) /\ z \in Int
  <2>1. z = IF HasBit(x, a) /\ ~HasBit(y, a) THEN y + Pow2[a] ELSE y
    BY <1>10, <1>13
  <2>2. Pow2[a] \in Int
    <3>1. a \in Nat
      BY <1>2, <1>5
    <3> QED BY <3>1, Pow2Is
  <2> QED BY <1>9, <1>10, <1>11, <2>1, <2>2
<1>15. PICK row : row = [Block EXCEPT ![0] = z]
  OBVIOUS
<1>16. coefs' = [coefs EXCEPT ![scan.order[cur].at] = row]
  <2>1. coefs' = [coefs EXCEPT ![scan.order[cur].at][0] = z]
    BY <1>12, <1>14 DEF Set
  <2> QED BY <1>15, <2>1 DEF Block
<1>17. /\ coefs' \in [Buffer(picture) -> [0 .. Final -> Int]]
       /\ Made(picture, scan, cur, 1, coefs') /\ Kept(picture, nth, coefs')
  <2>1. row \in [0 .. Final -> Int]
    BY <1>2, <1>14, <1>15
  <2>2. ASSUME NEW l \in 0 .. Final
        PROVE  row[l] = IF l \in k .. 1 - 1 THEN Becomes(picture, scan, cur, l) ELSE Block[l]
    BY <1>2, <1>3, <1>13, <1>15
  <2>3. 1 \in k .. scan.se + 1
    BY <1>3, <1>4
  <2> QED BY <1>1, <1>16, <2>1, <2>2, <2>3, Advancing
<1>18. Made(picture, scan, cur + 1, 0, coefs')
  <2>1. \A l \in scan.ss .. scan.se : l >= 1 => Becomes(picture, scan, cur, l) = Was(picture, scan, cur, l)
    BY <1>3, <1>4
  <2> QED BY <1>2, <1>17, <2>1, BlockDone
<1>19. data' = <<>>
  <2>1. Len(data) = 1 /\ SubSeq(data, 2, 1) = <<>>
    BY <1>7
  <2> QED BY <1>12, <2>1 DEF Skip
<1>20. Between(picture, scan, cur + 1, eobrun', data', out')
  <2>1. cur + 1 \in Nat \ {0} /\ cur + 1 <= Len(scan.order) + 1
    <3>1. DOMAIN scan.order = 1 .. Len(scan.order) /\ Len(scan.order) \in Nat
      BY <1>1, Around
    <3> QED BY <1>2, <3>1, SMTT(30)
  <2>2. Between(picture, scan, cur + 1, 0, <<>>, Beginning(scan, cur + 1))
    BY <1>2, <2>1, NothingWritten
  <2>3. out' = Beginning(scan, cur + 1)
    BY <1>4, <1>7, <1>12 DEF Onward
  <2> QED BY <1>3, <1>12, <1>19, <2>2, <2>3
<1>21. data' \in Seq(Int \X Int)
  BY <1>19
<1> QED BY <1>1, <1>2, <1>3, <1>12, <1>17, <1>18, <1>20, <1>21, NextBlockKeeps

(* Without a first scan before it nothing is old.                          *)
LEMMA NoneOld ==
  ASSUME NEW p, NEW s, s.ah = 0, NEW b, NEW j, NEW m
  PROVE  OldRow(p, s, b, j, m) = {}
BY DEF OldRow, Old

LEMMA Length ==
  ASSUME NEW j \in Nat, NEW m \in Int, m >= j - 1
  PROVE  Cardinality(j .. m) = m - j + 1
<1>1. Cardinality(j .. m) = IF j > m THEN 0 ELSE m - j + 1
  BY FS_Interval
<1> QED BY <1>1

LEMMA HoldsNothing ==
  ASSUME NEW p, NEW s, NEW b, NEW c \in Seq(Int \X Int), Holds(p, s, {b} \X {}, c)
  PROVE  c = <<>>
<1>1. {b} \X {} = {}
  OBVIOUS
<1>2. Cardinality({}) = 0
  BY FS_EmptySet
<1>3. Len(c) = 0
  BY <1>1, <1>2 DEF Holds
<1> QED BY <1>3

(* What is neither old nor new stays.                                      *)
LEMMA Stays ==
  ASSUME NEW p, NEW s, Sound(p, s), NEW b \in DOMAIN s.order, NEW j \in s.ss .. s.se, j > 0,
         ~Old(p, s, b, j), ~New(p, s, b, j)
  PROVE  Becomes(p, s, b, j) = 0 /\ Was(p, s, b, j) = 0
<1>1. Old(p, s, b, j) <=> Was(p, s, b, j) # 0
  BY AcValues
<1>2. ~Old(p, s, b, j) /\ ~New(p, s, b, j) => Becomes(p, s, b, j) = 0
  BY AcValues
<1> QED BY <1>1, <1>2

(* The end of blocks is read as it is written.                             *)
LEMMA EndRead ==
  ASSUME NEW p, NEW s, NEW b, NEW j, NEW m \in Nat, NEW r \in Nat, NEW c \in Seq(Int \X Int), NEW to,
         EndShape(p, s, b, j, m, r, c, data, to)
  PROVE  /\ data[1][1] = r /\ data[1][2] = 0 /\ Run(r) = m
         /\ SubSeq(data, (IF r = 0 THEN 1 ELSE 2) + 1, Len(data)) = c
<1>1. CASE r = 0 /\ m = 1 /\ OneSymbol(<<0, 0>>, c, data)
  <2>1. Pow2[0] = 1
    BY Pow2Is
  <2>2. data[1] = <<0, 0>> /\ SubSeq(data, 2, Len(data)) = c
    BY <1>1 DEF OneSymbol
  <2> QED BY <1>1, <2>1, <2>2 DEF Run
<1>2. CASE r > 0 /\ m > 1 /\ TwoSymbols(<<r, 0>>, <<r, m - Pow2[r]>>, c, data)
  <2>1. Pow2[r] \in Nat \ {0}
    BY Pow2Is
  <2>2. data[1] = <<r, 0>> /\ data[2] = <<r, m - Pow2[r]>> /\ SubSeq(data, 3, Len(data)) = c
    BY <1>2 DEF TwoSymbols
  <2>3. data[2][2] = m - Pow2[r] /\ Pow2[r] + (m - Pow2[r]) = m
    BY <2>1, <2>2
  <2> QED BY <1>2, <2>2, <2>3 DEF Run
<1> QED BY <1>1, <1>2 DEF EndShape

(* What can be next in the block.                                          *)
LEMMA AcSymbols ==
  ASSUME Given, pc \in {"ac", "refine"}, eobrun = 0, k <= scan.se, data # <<>>
  PROVE  /\ k \in scan.ss .. scan.se /\ k > 0
         /\ \/ \E m \in Nat \ {0} : \E r \in 0 .. MaxRun - 1 : \E c \in Seq(Int \X Int) :
                 EndShape(picture, scan, cur, k, m, r, c, data, out)
            \/ \E l \in k .. scan.se : \E n \in 1 .. 16 : \E y \in Int : \E c \in Seq(Int \X Int) :
                 NewShape(picture, scan, cur, k, l, n, y, c, data, out)
            \/ \E l \in k .. scan.se - 1 : \E c \in Seq(Int \X Int) :
                 RunShape(picture, scan, cur, k, l, c, data, out)
<1>0. pc \in Inside
  BY DEF Inside
<1>1. /\ MaxRun \in Nat \ {0} /\ Sound(picture, scan) /\ cur \in DOMAIN scan.order
      /\ k \in scan.ss .. scan.se + 1 /\ k \in Nat /\ Within(picture, scan, cur, k, eobrun, data, out)
      /\ scan.ss \in 0 .. Final /\ scan.se \in scan.ss .. Final /\ Final \in Nat
  BY <1>0, Around
<1>2. k \in scan.ss .. scan.se /\ k > 0
  <2>1. k > 0
    BY DEF Given, IInv, Place
  <2> QED BY <1>1, <2>1
<1>3. Write(picture, scan, cur, k, data, out)
  <2>1. k # scan.se + 1
    BY <1>1
  <2> QED BY <1>1, <2>1 DEF Within
<1>4. WriteAc(picture, scan, cur, k, data, out)
  BY <1>2, <1>3 DEF Write
<1>5. \/ EndWritten(picture, scan, cur, k, data, out) \/ NewWritten(picture, scan, cur, k, data, out)
      \/ RunWritten(picture, scan, cur, k, data, out)
  BY <1>1, <1>2, <1>4, WriteAcShape
<1>6. CASE EndWritten(picture, scan, cur, k, data, out)
  BY <1>1, <1>2, <1>6, EndShaped
<1>7. CASE NewWritten(picture, scan, cur, k, data, out)
  BY <1>1, <1>2, <1>7, NewShaped
<1>8. CASE RunWritten(picture, scan, cur, k, data, out)
  BY <1>1, <1>2, <1>8, RunShaped
<1> QED BY <1>2, <1>5, <1>6, <1>7, <1>8

(* The block ends: the decoder goes on to the next one.                    *)
LEMMA AcBlockEnds ==
  ASSUME Given, pc = "ac", NEW m \in Nat \ {0}, NEW c \in Seq(Int \X Int),
         Underway(picture, scan, cur, k, m, c, out),
         picture' = picture, nth' = nth, scan' = scan, pred' = pred, out' = out, k' = k, coefs' = coefs,
         cur' = cur + 1, pc' = "block", eobrun' = m - 1, data' = c, scan.ss = 0 => m = 1
  PROVE  IInv'
<1>1. pc \in Inside
  BY DEF Inside
<1>2. /\ Sound(picture, scan) /\ cur \in DOMAIN scan.order
      /\ scan.ss \in 0 .. Final /\ scan.se \in scan.ss .. Final /\ Final \in Nat /\ k \in scan.ss .. scan.se + 1
      /\ k \in Nat /\ pred \in [DOMAIN picture.factors -> Int]
      /\ coefs \in [Buffer(picture) -> [0 .. Final -> Int]]
      /\ Made(picture, scan, cur, k, coefs) /\ Kept(picture, nth, coefs)
  BY <1>1, Around
<1>3. scan.ah = 0 /\ k > 0
  BY DEF Given, IInv, Place
<1>4. PICK Q, e : Q = OldRow(picture, scan, cur, k, scan.se) /\ e = SubSeq(c, Cardinality(Q) + 1, Len(c))
  OBVIOUS
<1>5. Q = {} /\ Cardinality(Q) = 0
  <2>1. scan.se \in Int /\ scan.se >= k - 1
    BY <1>2
  <2>2. Q = {}
    BY <1>2, <1>3, <1>4, <2>1, NoneOld
  <2> QED BY <2>2, FS_EmptySet
<1>6. e = c
  <2>1. SubSeq(c, 1, Len(c)) = c
    BY SubSeqFull
  <2>2. Cardinality(Q) + 1 = 1
    BY <1>5
  <2> QED BY <1>4, <2>1, <2>2
<1>7. Between(picture, scan, cur + 1, m - 1, c, out)
  <2>1. k >= scan.ss
    BY <1>2
  <2>2. Between(picture, scan, cur + 1, m - 1, e, out)
    BY <1>2, <1>4, <2>1, BlockEnds, Zenon
  <2> QED BY <1>6, <2>2
<1>8. Made(picture, scan, cur + 1, 0, coefs)
  <2>1. \A l \in k .. scan.se : ~New(picture, scan, cur, l)
    BY DEF Underway, Ended
  <2>2. ASSUME NEW l \in scan.ss .. scan.se, l >= k PROVE Becomes(picture, scan, cur, l) = Was(picture, scan, cur, l)
    <3>1. l > 0 /\ l \in k .. scan.se
      BY <1>2, <1>3, <2>2
    <3>2. ~Old(picture, scan, cur, l)
      BY <1>3 DEF Old
    <3> QED BY <1>2, <2>1, <3>1, <3>2, Stays
  <2> QED BY <1>2, <2>2, BlockDone
<1>9. scan.ss = 0 /\ scan.ah = 0 => Predicted(picture, scan, cur, scan.order[cur].interval, pred)
  BY DEF Given, IInv, Foreseen
<1>10. m - 1 \in Nat /\ (scan.ss = 0 => m - 1 = 0)
  OBVIOUS
<1> QED BY <1>1, <1>2, <1>7, <1>8, <1>9, <1>10, NextBlockKeeps

LEMMA AcKeeps ==
  ASSUME Given, Ac
  PROVE  IInv'
<1>1. /\ pc = "ac" /\ eobrun = 0 /\ k <= scan.se /\ data # <<>>
      /\ picture' = picture /\ nth' = nth /\ scan' = scan /\ pred' = pred /\ out' = out
  <2>1. Has(1) \/ Has(2)
    BY DEF Ac
  <2>2. data # <<>>
    BY <2>1 DEF Has
  <2> QED BY <2>2 DEF Ac, file
<1>2. PICK r, s : r = data[1][1] /\ s = data[1][2]
  OBVIOUS
<1>3. \/ /\ Has(2) /\ s # 0
         /\ Set(k + r, Extend(data[2][2], s) * Pow2[scan.al])
         /\ k' = k + r + 1
         /\ Skip(2)
         /\ UNCHANGED <<cur, pc, eobrun>>
      \/ /\ Has(1) /\ s = 0 /\ r = MaxRun
         /\ k' = k + MaxRun + 1
         /\ Skip(1)
         /\ UNCHANGED <<coefs, cur, pc, eobrun>>
      \/ /\ Has(1) /\ s = 0 /\ r # MaxRun
         /\ IF picture.progressive
            THEN /\ r > 0 => Has(2)
                 /\ eobrun' = Run(r) - 1
                 /\ Skip(IF r = 0 THEN 1 ELSE 2)
            ELSE Skip(1) /\ UNCHANGED eobrun
         /\ NextBlock
         /\ UNCHANGED <<coefs, k>>
  BY <1>2 DEF Ac
<1> HIDE DEF Ac
<1>4. pc \in Inside /\ pc \in {"ac", "refine"}
  BY <1>1 DEF Inside
<1>5. /\ Final \in Nat /\ MaxRun \in Nat \ {0} /\ Sound(picture, scan) /\ cur \in DOMAIN scan.order
      /\ scan.ss \in 0 .. Final /\ scan.se \in scan.ss .. Final /\ scan.al \in Nat
      /\ k \in Nat /\ coefs \in [Buffer(picture) -> [0 .. Final -> Int]] /\ Block \in [0 .. Final -> Int]
      /\ Made(picture, scan, cur, k, coefs) /\ Kept(picture, nth, coefs)
  BY <1>4, Around
<1>6. scan.ah = 0 /\ (scan.ss > 0 \/ ~picture.progressive) /\ k > 0
  BY <1>1 DEF Given, IInv, Place
<1>7. k \in scan.ss .. scan.se
  BY <1>1, <1>4, AcSymbols
<1>8. ASSUME NEW m \in Nat \ {0}, NEW q \in 0 .. MaxRun - 1, NEW c \in Seq(Int \X Int),
             EndShape(picture, scan, cur, k, m, q, c, data, out)
      PROVE  IInv'
  <2>1. q \in Nat /\ q # MaxRun /\ m \in Nat
    BY <1>5
  <2>2. r = q /\ s = 0 /\ Run(r) = m /\ SubSeq(data, (IF r = 0 THEN 1 ELSE 2) + 1, Len(data)) = c
    BY <1>2, <1>8, <2>1, EndRead
  <2>3. /\ IF picture.progressive
           THEN eobrun' = Run(r) - 1 /\ Skip(IF r = 0 THEN 1 ELSE 2)
           ELSE Skip(1) /\ UNCHANGED eobrun
        /\ cur' = cur + 1 /\ pc' = "block" /\ coefs' = coefs /\ k' = k
    BY <1>3, <2>1, <2>2 DEF NextBlock
  <2>4. Underway(picture, scan, cur, k, m, c, out) /\ (~picture.progressive => m = 1 /\ r = 0)
    BY <1>8, <2>2 DEF EndShape
  <2>5. eobrun' = m - 1 /\ data' = c
    <3>1. CASE picture.progressive
      BY <2>2, <2>3, <3>1 DEF Skip
    <3>2. CASE ~picture.progressive
      <4>1. SubSeq(data, 1 + 1, Len(data)) = c
        BY <2>2, <2>4, <3>2
      <4>2. eobrun' = eobrun /\ m = 1
        BY <2>3, <2>4, <3>2
      <4>3. data' = SubSeq(data, 1 + 1, Len(data))
        BY <2>3, <3>2 DEF Skip
      <4> QED BY <1>1, <4>1, <4>2, <4>3
    <3> QED BY <3>1, <3>2
  <2>6. scan.ss = 0 => m = 1
    BY <1>6, <2>4
  <2> QED BY <1>1, <2>3, <2>4, <2>5, <2>6, AcBlockEnds
<1>9. ASSUME NEW l \in k .. scan.se, NEW n \in 1 .. 16, NEW y \in Int, NEW c \in Seq(Int \X Int),
             NewShape(picture, scan, cur, k, l, n, y, c, data, out)
      PROVE  IInv'
  <2>1. PICK g : g = Gaps(picture, scan, cur, k, l - 1)
    OBVIOUS
  <2>2. /\ \A h \in k .. l - 1 : ~New(picture, scan, cur, h)
        /\ Holds(picture, scan, {cur} \X OldRow(picture, scan, cur, k, l), c)
        /\ Extend(y, n) = Point(Value(picture, scan, cur, l), scan.al)
        /\ TwoSymbols(<<g, n>>, <<n, y>>, c, data) /\ out = Onward(scan, cur, l + 1)
    BY <1>9, <2>1 DEF NewShape
  <2>3. l \in Nat /\ l >= k /\ l > 0 /\ l \in scan.ss .. scan.se /\ l \in 0 .. Final /\ l + 1 \in k .. scan.se + 1
    BY <1>5, <1>6, <1>7
  <2>4. c = <<>> /\ g = l - k
    <3>1. l \in Int /\ l >= k - 1 /\ l - 1 \in Int /\ l - 1 >= k - 1
      BY <1>5, <2>3
    <3>2. OldRow(picture, scan, cur, k, l) = {}
      BY <1>5, <1>6, <3>1, NoneOld
    <3>3. g = (l - 1) - k + 1
      <4>1. PICK i : i = l - 1
        OBVIOUS
      <4>2. g = Gaps(picture, scan, cur, k, i) /\ i \in Int /\ i >= k - 1
        BY <2>1, <3>1, <4>1
      <4>3. Gaps(picture, scan, cur, k, i) = i - k + 1
        <5>1. Gaps(picture, scan, cur, k, i) = Cardinality(k .. i)
          <6>1. {h \in k .. i : ~Old(picture, scan, cur, h)} = k .. i
            BY <1>6 DEF Old
          <6> QED BY <6>1 DEF Gaps
        <5>2. k \in Nat
          BY <1>5
        <5> QED BY <4>2, <5>1, <5>2, Length
      <4> QED BY <4>1, <4>2, <4>3
    <3>4. c = <<>>
      BY <2>2, <3>2, HoldsNothing
    <3> QED BY <1>5, <2>3, <3>3, <3>4
  <2>5. data[1] = <<g, n>> /\ data[2] = <<n, y>> /\ SubSeq(data, 3, Len(data)) = <<>>
    BY <2>2, <2>4 DEF TwoSymbols
  <2>6. r = g /\ s = n /\ s # 0 /\ data[2][2] = y /\ k + r = l /\ k + r + 1 = l + 1
    BY <1>2, <1>5, <2>3, <2>4, <2>5
  <2>7. PICK z : z = Becomes(picture, scan, cur, l)
    OBVIOUS
  <2>8. z = Extend(y, n) * Pow2[scan.al] /\ z \in Int
    <3>1. /\ Becomes(picture, scan, cur, l) = Point(Value(picture, scan, cur, l), scan.al) * Pow2[scan.al]
          /\ Becomes(picture, scan, cur, l) \in Int
      BY <1>5, <2>3, AcValues
    <3> QED BY <2>2, <2>7, <3>1
  <2>9. Set(l, z) /\ k' = l + 1 /\ Skip(2) /\ cur' = cur /\ pc' = pc /\ eobrun' = eobrun
    BY <1>3, <2>6, <2>8
  <2>10. data' = <<>>
    BY <2>5, <2>9 DEF Skip
  <2>11. PICK row : row = [Block EXCEPT ![l] = z]
    OBVIOUS
  <2>12. coefs' = [coefs EXCEPT ![scan.order[cur].at] = row]
    <3>1. coefs' = [coefs EXCEPT ![scan.order[cur].at][l] = z]
      BY <2>9 DEF Set
    <3> QED BY <2>11, <3>1 DEF Block
  <2>13. /\ coefs' \in [Buffer(picture) -> [0 .. Final -> Int]]
         /\ Made(picture, scan, cur, l + 1, coefs') /\ Kept(picture, nth, coefs')
    <3>1. row \in [0 .. Final -> Int]
      BY <1>5, <2>8, <2>11
    <3>2. ASSUME NEW h \in 0 .. Final
          PROVE  row[h] = IF h \in k .. (l + 1) - 1 THEN Becomes(picture, scan, cur, h) ELSE Block[h]
      <4>1. CASE h = l
        BY <1>5, <2>3, <2>7, <2>11, <4>1
      <4>2. CASE h \in k .. l - 1
        <5>1. h \in k .. scan.se /\ h \in scan.ss .. scan.se /\ h > 0 /\ h # l /\ h \in k .. (l + 1) - 1
          BY <1>5, <1>6, <1>7, <2>3, <4>2, SMTT(30)
        <5>2. Block[h] = Was(picture, scan, cur, h)
          BY <1>4, <5>1, StillWas
        <5>3. ~Old(picture, scan, cur, h) /\ ~New(picture, scan, cur, h)
          BY <1>6, <2>2, <4>2 DEF Old
        <5>4. Becomes(picture, scan, cur, h) = 0 /\ Was(picture, scan, cur, h) = 0
          BY <1>5, <5>1, <5>3, Stays
        <5>5. row[h] = Block[h]
          BY <1>5, <2>11, <5>1
        <5> QED BY <5>1, <5>2, <5>4, <5>5
      <4>3. CASE h \notin k .. l
        <5>1. h # l /\ h \notin k .. (l + 1) - 1
          BY <1>5, <2>3, <4>3
        <5> QED BY <1>5, <2>11, <5>1
      <4> QED BY <1>5, <2>3, <4>1, <4>2, <4>3
    <3> QED BY <1>4, <2>3, <2>12, <3>1, <3>2, Advancing
  <2>14. Within(picture, scan, cur, l + 1, 0, <<>>, out)
    <3>1. CASE l + 1 <= scan.se
      BY <2>2, <3>1 DEF Within, Onward
    <3>2. CASE ~(l + 1 <= scan.se)
      <4>1. l + 1 = scan.se + 1
        BY <1>5, <2>3, <3>2
      <4> QED BY <2>2, <3>2, <4>1 DEF Within, Onward
    <3> QED BY <3>1, <3>2
  <2>15. data' \in Seq(Int \X Int)
    BY <2>10
  <2> QED BY <1>1, <1>4, <2>3, <2>9, <2>10, <2>13, <2>14, <2>15, SameBlockKeeps
<1>10. ASSUME NEW l \in k .. scan.se - 1, NEW c \in Seq(Int \X Int),
              RunShape(picture, scan, cur, k, l, c, data, out)
       PROVE  IInv'
  <2>1. /\ \A h \in k .. l : ~New(picture, scan, cur, h)
        /\ Gaps(picture, scan, cur, k, l) = MaxRun + 1
        /\ Holds(picture, scan, {cur} \X OldRow(picture, scan, cur, k, l), c)
        /\ OneSymbol(<<MaxRun, 0>>, c, data) /\ out = <<cur, l + 1>>
    BY <1>10 DEF RunShape
  <2>2. l \in Nat /\ l >= k /\ l + 1 \in k .. scan.se + 1 /\ l + 1 <= scan.se
    BY <1>5
  <2>3. c = <<>> /\ k + MaxRun + 1 = l + 1
    <3>1. l \in Int /\ l >= k - 1
      BY <1>5, <2>2
    <3>2. OldRow(picture, scan, cur, k, l) = {}
      BY <1>5, <1>6, <3>1, NoneOld
    <3>3. MaxRun + 1 = l - k + 1
      <4>1. Gaps(picture, scan, cur, k, l) = l - k + 1
        <5>1. Gaps(picture, scan, cur, k, l) = Cardinality(k .. l)
          <6>1. {h \in k .. l : ~Old(picture, scan, cur, h)} = k .. l
            BY <1>6 DEF Old
          <6> QED BY <6>1 DEF Gaps
        <5>2. k \in Nat
          BY <1>5
        <5> QED BY <3>1, <5>1, <5>2, Length
      <4> QED BY <2>1, <4>1
    <3>4. c = <<>>
      BY <2>1, <3>2, HoldsNothing
    <3> QED BY <1>5, <2>2, <3>3, <3>4
  <2>4. data[1] = <<MaxRun, 0>> /\ SubSeq(data, 2, Len(data)) = <<>>
    BY <2>1, <2>3 DEF OneSymbol
  <2>5. r = MaxRun /\ s = 0
    BY <1>2, <2>4
  <2>6. k' = l + 1 /\ Skip(1) /\ coefs' = coefs /\ cur' = cur /\ pc' = pc /\ eobrun' = eobrun
    BY <1>3, <2>3, <2>5
  <2>7. data' = <<>> /\ data' \in Seq(Int \X Int)
    <3>1. data' = SubSeq(data, 1 + 1, Len(data)) /\ 1 + 1 = 2
      BY <2>6 DEF Skip
    <3>2. data' = <<>>
      BY <2>4, <3>1
    <3> QED BY <3>2
  <2>8. Made(picture, scan, cur, l + 1, coefs)
    <3>1. ASSUME NEW b \in DOMAIN scan.order, NEW j \in scan.ss .. scan.se
          PROVE  \/ (b < cur \/ (b = cur /\ j < k)) <=> (b < cur \/ (b = cur /\ j < l + 1))
                 \/ Becomes(picture, scan, b, j) = Was(picture, scan, b, j)
      <4>1. CASE b = cur /\ j \in k .. l
        <5>1. ~Old(picture, scan, cur, j) /\ ~New(picture, scan, cur, j) /\ j > 0
          BY <1>5, <1>6, <2>1, <4>1 DEF Old
        <5> QED BY <1>5, <4>1, <5>1, Stays
      <4>2. CASE ~(b = cur /\ j \in k .. l)
        <5>1. j \in Nat /\ k \in Nat /\ l \in Nat /\ l >= k
          BY <1>5, <2>2, SMTT(30)
        <5>2. b = cur => (j < k <=> j < l + 1)
          BY <4>2, <5>1
        <5> QED BY <5>2
      <4> QED BY <4>1, <4>2
    <3>2. PICK i : i = l + 1
      OBVIOUS
    <3>3. \A b \in DOMAIN scan.order : \A j \in scan.ss .. scan.se :
            \/ (b < cur \/ (b = cur /\ j < k)) <=> (b < cur \/ (b = cur /\ j < i))
            \/ Becomes(picture, scan, b, j) = Was(picture, scan, b, j)
      BY <3>1, <3>2
    <3>4. Made(picture, scan, cur, i, coefs)
      BY <1>5, <3>3, MadeMoves
    <3> QED BY <3>2, <3>4
  <2>9. Within(picture, scan, cur, l + 1, 0, <<>>, out)
    BY <2>1, <2>2 DEF Within
  <2> QED BY <1>1, <1>4, <1>5, <2>2, <2>6, <2>7, <2>8, <2>9, SameBlockKeeps
<1> QED BY <1>1, <1>4, <1>8, <1>9, <1>10, AcSymbols

LEMMA AcEndKeeps ==
  ASSUME Given, AcEnd
  PROVE  IInv'
<1>1. /\ pc = "ac" /\ (eobrun > 0 \/ k > scan.se) /\ eobrun' = IF eobrun > 0 THEN eobrun - 1 ELSE 0
      /\ cur' = cur + 1 /\ pc' = "block" /\ pc \in Inside
      /\ picture' = picture /\ nth' = nth /\ coefs' = coefs /\ scan' = scan /\ k' = k /\ pred' = pred
      /\ data' = data /\ out' = out
  BY DEF AcEnd, NextBlock, file, Inside
<1>2. /\ Sound(picture, scan) /\ cur \in DOMAIN scan.order /\ cur \in Nat \ {0}
      /\ DOMAIN scan.order = 1 .. Len(scan.order) /\ Len(scan.order) \in Nat
      /\ scan.ss \in 0 .. Final /\ scan.se \in scan.ss .. Final /\ Final \in Nat /\ k \in scan.ss .. scan.se + 1
      /\ k \in Nat /\ eobrun \in Nat /\ pred \in [DOMAIN picture.factors -> Int] /\ data \in Seq(Int \X Int)
      /\ coefs \in [Buffer(picture) -> [0 .. Final -> Int]]
      /\ Made(picture, scan, cur, k, coefs) /\ Kept(picture, nth, coefs)
      /\ Within(picture, scan, cur, k, eobrun, data, out)
  BY <1>1, Around
<1>3. CASE eobrun > 0
  <2>1. Underway(picture, scan, cur, k, eobrun, data, out)
    BY <1>2, <1>3 DEF Within
  <2>2. scan.ss = 0 => eobrun = 1
    BY <1>1, <1>3 DEF Given, IInv, Place
  <2>3. eobrun \in Nat \ {0} /\ eobrun' = eobrun - 1
    BY <1>1, <1>2, <1>3
  <2> QED BY <1>1, <1>2, <2>1, <2>2, <2>3, AcBlockEnds
<1>4. CASE ~(eobrun > 0)
  <2>1. eobrun = 0 /\ k > scan.se /\ eobrun' = 0
    BY <1>1, <1>2, <1>4
  <2>2. data = <<>> /\ out = Beginning(scan, cur + 1)
    <3>1. ~(k <= scan.se)
      BY <1>2, <2>1
    <3> QED BY <1>2, <2>1, <3>1 DEF Within
  <2>3. Between(picture, scan, cur + 1, 0, data, out)
    <3>1. cur + 1 \in Nat \ {0} /\ cur + 1 <= Len(scan.order) + 1
      BY <1>2
    <3>2. Between(picture, scan, cur + 1, 0, <<>>, Beginning(scan, cur + 1))
      BY <1>2, <3>1, NothingWritten
    <3> QED BY <2>2, <3>2
  <2>4. Made(picture, scan, cur + 1, 0, coefs)
    <3>1. \A l \in scan.ss .. scan.se : l >= k => Becomes(picture, scan, cur, l) = Was(picture, scan, cur, l)
      BY <1>2, <2>1
    <3> QED BY <1>2, <3>1, BlockDone
  <2>5. scan.ss = 0 /\ scan.ah = 0 => Predicted(picture, scan, cur, scan.order[cur].interval, pred)
    BY <1>1 DEF Given, IInv, Foreseen
  <2> QED BY <1>1, <1>2, <2>1, <2>3, <2>4, <2>5, NextBlockKeeps
<1> QED BY <1>3, <1>4

LEMMA ServedBy ==
  ASSUME NEW p, NEW s, NEW b \in Nat, NEW Q \in SUBSET Nat, IsFiniteSet(Q), NEW c \in Seq(Int \X Int),
         Holds(p, s, {b} \X Q, c), NEW n \in Nat, NEW d, \A i \in 1 .. Len(c) : d[n + i] = c[i]
  PROVE  Len(c) = Cardinality(Q) /\ Served(p, s, b, Q, d, n + 1)
<1>1. PICK A : A = {b} \X Q
  OBVIOUS
<1>2. A \in SUBSET (Nat \X Nat) /\ IsFiniteSet(A) /\ Cardinality(A) = Cardinality(Q)
  BY <1>1, RowIs
<1>3. \A l \in Q : Rank({b} \X Q, <<b, l>>) = Cardinality({h \in Q : h < l})
  BY RowIs, Zenon
<1>4. Len(c) = Cardinality(A) /\ \A x \in A : c[Rank(A, x) + 1] = Bit(Abs(Value(p, s, x[1], x[2])), s.al)
  BY <1>1 DEF Holds
<1>5. \A x \in A : Rank(A, x) \in 0 .. Cardinality(A) - 1
  BY <1>2, RankGrows, Zenon
<1>6. ASSUME NEW l \in Q
      PROVE  d[(n + 1) + Cardinality({h \in Q : h < l})] = Bit(Abs(Value(p, s, b, l)), s.al)
  <2>1. PICK x, m : x = <<b, l>> /\ m = Cardinality({h \in Q : h < l})
    OBVIOUS
  <2>2. x \in A /\ x[1] = b /\ x[2] = l
    BY <1>1, <2>1
  <2>3. Rank(A, x) = m
    BY <1>1, <1>3, <2>1
  <2>4. m \in 0 .. Len(c) - 1
    BY <1>4, <1>5, <2>2, <2>3
  <2>5. m + 1 \in 1 .. Len(c) /\ n + (m + 1) = (n + 1) + m
    BY <2>4
  <2>6. d[n + (m + 1)] = c[m + 1]
    BY <2>5
  <2>7. c[m + 1] = Bit(Abs(Value(p, s, b, l)), s.al)
    BY <1>4, <2>2, <2>3
  <2> QED BY <2>1, <2>5, <2>6, <2>7
<1> QED BY <1>2, <1>4, <1>6 DEF Served

(* The old ones are those that are there.                                  *)
LEMMA ThereIsOld ==
  ASSUME Given, pc = "refine", NEW m \in Int, m <= scan.se
  PROVE  /\ There(k, m) = OldRow(picture, scan, cur, k, m)
         /\ Zeros(k, m) = {l \in k .. m : ~Old(picture, scan, cur, l)}
<1>0. pc \in Inside
  BY DEF Inside
<1>1. /\ Sound(picture, scan) /\ cur \in DOMAIN scan.order /\ k \in Nat
      /\ scan.ss \in 0 .. Final /\ scan.se \in scan.ss .. Final /\ Final \in Nat
  BY <1>0, Around
<1>2. k > 0
  BY DEF Given, IInv, Place
<1>3. ASSUME NEW l \in k .. m PROVE Block[l] # 0 <=> Old(picture, scan, cur, l)
  <2>1. l \in k .. scan.se /\ l > 0
    BY <1>1, <1>2
  <2>2. Block[l] = Was(picture, scan, cur, l) /\ l \in scan.ss .. scan.se
    BY <1>0, <2>1, StillWas
  <2>3. Old(picture, scan, cur, l) <=> Was(picture, scan, cur, l) # 0
    BY <1>1, <2>1, <2>2, AcValues
  <2> QED BY <2>2, <2>3
<1> QED BY <1>3 DEF There, Zeros, OldRow

(* A corrected block.                                                      *)
LEMMA CorrectedIs ==
  ASSUME Given, pc = "refine", NEW m \in Int, m <= scan.se, NEW first,
         NEW Q, Q = OldRow(picture, scan, cur, k, m), Served(picture, scan, cur, Q, data, first)
  PROVE  /\ Corrected(m, first) \in [0 .. Final -> Int]
         /\ \A h \in 0 .. Final :
              Corrected(m, first)[h] = IF h \in Q THEN Becomes(picture, scan, cur, h) ELSE Block[h]
<1>0. pc \in Inside
  BY DEF Inside
<1>1. /\ Sound(picture, scan) /\ cur \in DOMAIN scan.order /\ k \in Nat
      /\ scan.ss \in 0 .. Final /\ scan.se \in scan.ss .. Final /\ Final \in Nat
      /\ Block \in [0 .. Final -> Int]
  BY <1>0, Around
<1>2. k > 0
  BY DEF Given, IInv, Place
<1>3. There(k, m) = Q
  BY ThereIsOld
<1>4. ASSUME NEW h \in Q
      PROVE  /\ h \in 0 .. Final /\ Becomes(picture, scan, cur, h) \in Int
             /\ Correct(Block[h], data[first + Cardinality(There(k, h - 1))][2]) = Becomes(picture, scan, cur, h)
  <2>1. h \in k .. m /\ Old(picture, scan, cur, h)
    BY DEF OldRow
  <2>2. h \in k .. scan.se /\ h > 0 /\ h - 1 \in Int /\ h - 1 <= scan.se
    BY <1>1, <1>2, <2>1
  <2>3. Block[h] = Was(picture, scan, cur, h) /\ h \in scan.ss .. scan.se /\ h \in 0 .. Final
    BY <1>0, <2>2, StillWas
  <2>4. There(k, h - 1) = {l \in Q : l < h}
    <3>1. There(k, h - 1) = OldRow(picture, scan, cur, k, h - 1)
      BY <2>2, ThereIsOld
    <3>2. ASSUME NEW l PROVE l \in k .. h - 1 <=> l \in k .. m /\ l < h
      BY <1>1, <2>1
    <3> QED BY <3>1, <3>2 DEF OldRow
  <2>5. data[first + Cardinality(There(k, h - 1))] = Bit(Abs(Value(picture, scan, cur, h)), scan.al)
    BY <2>4 DEF Served
  <2>6. PICK x, y, a, z : x = Value(picture, scan, cur, h) /\ y = Block[h] /\ a = scan.al
                          /\ z = data[first + Cardinality(There(k, h - 1))][2]
    OBVIOUS
  <2>7. z = IF HasBit(Abs(x), a) THEN 1 ELSE 0
    BY <2>5, <2>6 DEF Bit
  <2>8. Becomes(picture, scan, cur, h) = IF HasBit(Abs(x), a) /\ ~HasBit(y, a) THEN y + Sign(y) * Pow2[a] ELSE y
    <3>1. PICK s : s = scan
      OBVIOUS
    <3>2. Sound(picture, s) /\ cur \in DOMAIN s.order /\ h \in s.ss .. s.se /\ Old(picture, s, cur, h)
          /\ y = Was(picture, s, cur, h)
      BY <1>1, <2>1, <2>3, <2>6, <3>1
    <3>3. Becomes(picture, s, cur, h) =
            IF HasBit(Abs(Value(picture, s, cur, h)), s.al) /\ ~HasBit(y, s.al) THEN y + Sign(y) * Pow2[s.al] ELSE y
      BY <2>2, <3>2, AcRefined
    <3> QED BY <2>6, <3>1, <3>3
  <2>9. Correct(y, z) = IF z = 1 /\ ~HasBit(y, a) THEN y + Sign(y) * Pow2[a] ELSE y
    BY <2>6 DEF Correct
  <2>10. Becomes(picture, scan, cur, h) \in Int
    BY <1>1, <2>2, <2>3, AcValues
  <2> QED BY <2>3, <2>6, <2>7, <2>8, <2>9, <2>10
<1>5. PICK row : row = Corrected(m, first)
  OBVIOUS
<1>6. row = [l \in 0 .. Final |->
              IF l \in Q THEN Correct(Block[l], data[first + Cardinality(There(k, l - 1))][2]) ELSE Block[l]]
  BY <1>3, <1>5 DEF Corrected
<1>7. ASSUME NEW h \in 0 .. Final
      PROVE  row[h] = (IF h \in Q THEN Becomes(picture, scan, cur, h) ELSE Block[h]) /\ row[h] \in Int
  <2>1. CASE h \in Q
    BY <1>4, <1>6, <2>1
  <2>2. CASE h \notin Q
    BY <1>1, <1>6, <2>2
  <2> QED BY <2>1, <2>2
<1>8. row \in [0 .. Final -> Int]
  BY <1>6, <1>7
<1> QED BY <1>5, <1>7, <1>8

(* Where the decoder stops is where the encoder has counted to.            *)
LEMMA GapStep ==
  ASSUME NEW p, NEW s, NEW b, NEW j \in Nat, NEW l \in Nat, l >= j, ~Old(p, s, b, l)
  PROVE  Gaps(p, s, b, j, l) = Gaps(p, s, b, j, l - 1) + 1
<1>1. PICK S, T : S = {h \in j .. l - 1 : ~Old(p, s, b, h)} /\ T = {h \in j .. l : ~Old(p, s, b, h)}
  OBVIOUS
<1>2. T = S \cup {l} /\ l \notin S
  BY <1>1
<1>3. IsFiniteSet(S)
  <2>1. l - 1 \in Int /\ S \in SUBSET (j .. l - 1)
    BY <1>1
  <2> QED BY <2>1, RowFinite, Zenon
<1>4. Cardinality(T) = Cardinality(S) + 1
  BY <1>2, <1>3, FS_AddElement
<1> QED BY <1>1, <1>4 DEF Gaps

LEMMA StopIs ==
  ASSUME Given, pc = "refine", k <= scan.se, NEW l \in k .. scan.se, ~Old(picture, scan, cur, l),
         NEW r, r = Gaps(picture, scan, cur, k, l - 1)
  PROVE  Min({h \in k .. scan.se : Cardinality(Zeros(k, h)) > r} \cup {scan.se + 1}) = l
<1>0. pc \in Inside
  BY DEF Inside
<1>1. k \in Nat /\ scan.se \in Nat
  <2>1. k \in Nat /\ scan.ss \in 0 .. Final /\ scan.se \in scan.ss .. Final /\ Final \in Nat
    BY <1>0, Around
  <2> QED BY <2>1
<1>2. PICK se, T : se = scan.se /\ T = {h \in k .. se : Cardinality(Zeros(k, h)) > r} \cup {se + 1}
  OBVIOUS
<1>3. l \in Nat /\ l >= k /\ l <= se /\ l - 1 \in Int /\ l - 1 <= se /\ se \in Nat
  BY <1>1, <1>2
<1>4. r \in Nat
  BY <1>1, <1>3, GapsAre
<1>5. ASSUME NEW h \in Int, h <= se
      PROVE  Cardinality(Zeros(k, h)) = Gaps(picture, scan, cur, k, h)
  BY <1>2, <1>5, ThereIsOld DEF Gaps
<1>6. Cardinality(Zeros(k, l)) = r + 1
  <2>1. Gaps(picture, scan, cur, k, l) = Gaps(picture, scan, cur, k, l - 1) + 1
    BY <1>1, <1>3, GapStep
  <2>2. Cardinality(Zeros(k, l)) = Gaps(picture, scan, cur, k, l)
    BY <1>3, <1>5
  <2> QED BY <2>1, <2>2
<1>7. l \in T
  BY <1>2, <1>4, <1>6
<1>8. ASSUME NEW h \in k .. se, h < l PROVE ~(Cardinality(Zeros(k, h)) > r)
  <2>1. h \in Int /\ h <= se
    BY <1>1, <1>3
  <2>2. PICK S, U : S = Zeros(k, h) /\ U = Zeros(k, l - 1)
    OBVIOUS
  <2>3. S = {g \in k .. h : ~Old(picture, scan, cur, g)}
    BY <1>2, <2>1, <2>2, ThereIsOld
  <2>4. U = {g \in k .. l - 1 : ~Old(picture, scan, cur, g)} /\ Cardinality(U) = r
    <3>1. U = {g \in k .. l - 1 : ~Old(picture, scan, cur, g)}
      BY <1>2, <1>3, <2>2, ThereIsOld
    <3>2. Cardinality(Zeros(k, l - 1)) = Gaps(picture, scan, cur, k, l - 1)
      BY <1>3, <1>5
    <3> QED BY <2>2, <3>1, <3>2
  <2>5. S \in SUBSET U
    <3>1. \A g \in k .. h : g \in k .. l - 1
      BY <1>1, <1>3, <1>8, <2>1
    <3> QED BY <2>3, <2>4, <3>1
  <2>6. IsFiniteSet(U)
    <3>1. U \in SUBSET (k .. l - 1)
      BY <2>4
    <3> QED BY <1>1, <1>3, <3>1, RowFinite, Zenon
  <2>7. Cardinality(S) \in Nat /\ Cardinality(S) <= Cardinality(U)
    BY <2>5, <2>6, FS_Subset, FS_CardinalityType
  <2> QED BY <1>4, <2>2, <2>4, <2>7
<1>9. T \in SUBSET Nat /\ T # {}
  BY <1>1, <1>2, <1>7
<1>10. PICK m : m = Min(T)
  OBVIOUS
<1>11. m \in T /\ \A h \in T : m <= h
  BY <1>9, <1>10, MinIn
<1>12. m <= l /\ m \in Nat
  BY <1>7, <1>9, <1>11
<1>13. ~(m < l)
  <2>1. SUFFICES ASSUME m < l PROVE FALSE
    OBVIOUS
  <2>2. m # se + 1
    BY <1>3, <1>12, <2>1
  <2>3. m \in k .. se /\ Cardinality(Zeros(k, m)) > r
    BY <1>2, <1>11, <2>2
  <2> QED BY <1>8, <2>1, <2>3
<1> QED BY <1>2, <1>3, <1>10, <1>12, <1>13

(* A symbol that passes over zeros up to l: the corrections are read, and  *)
(* a new coefficient put there or a zero left.                             *)
LEMMA Passing ==
  ASSUME Given, pc = "refine", k <= scan.se, NEW l \in k .. scan.se, ~Old(picture, scan, cur, l),
         \A h \in k .. l - 1 : ~New(picture, scan, cur, h),
         NEW first \in {2, 3}, NEW c \in Seq(Int \X Int),
         Holds(picture, scan, {cur} \X OldRow(picture, scan, cur, k, l), c),
         Len(data) = first - 1 + Len(c), \A i \in 1 .. Len(c) : data[first - 1 + i] = c[i],
         NEW y, y = Becomes(picture, scan, cur, l), y \in Int,
         NEW row, row = [Corrected(l - 1, first) EXCEPT ![l] = y],
         NEW x, x = [coefs EXCEPT ![scan.order[cur].at] = row]
  PROVE  /\ first - 1 + Cardinality(There(k, l - 1)) = Len(data)
         /\ x \in [Buffer(picture) -> [0 .. Final -> Int]]
         /\ Made(picture, scan, cur, l + 1, x) /\ Kept(picture, nth, x)
<1>0. pc \in Inside /\ pc \in {"ac", "refine"}
  BY DEF Inside
<1>1. /\ Sound(picture, scan) /\ cur \in DOMAIN scan.order /\ cur \in Nat \ {0} /\ k \in Nat
      /\ Block \in [0 .. Final -> Int]
  BY <1>0, Around
<1>2. k > 0
  BY DEF Given, IInv, Place
<1>3. /\ l \in Nat /\ l >= k /\ l > 0 /\ l \in 0 .. Final /\ l \in scan.ss .. scan.se
      /\ l - 1 \in Int /\ l - 1 <= scan.se /\ l + 1 \in k .. scan.se + 1
      /\ \A g : g \in k .. l <=> g \in k .. l - 1 \/ g = l
      /\ \A g \in k .. l - 1 : g > 0 /\ g \in k .. scan.se
      /\ (l + 1) - 1 = l
  <2>1. PICK ss, se : ss = scan.ss /\ se = scan.se
    OBVIOUS
  <2>2. k \in Nat /\ ss \in 0 .. Final /\ se \in ss .. Final /\ Final \in Nat /\ k \in ss .. se + 1
    BY <1>0, <2>1, Around
  <2>3. l \in k .. se /\ k > 0
    BY <1>2, <2>1
  <2>4. /\ l \in Nat /\ l >= k /\ l > 0 /\ l \in 0 .. Final /\ l \in ss .. se
        /\ l - 1 \in Int /\ l - 1 <= se /\ l + 1 \in k .. se + 1
        /\ \A g : g \in k .. l <=> g \in k .. l - 1 \/ g = l
        /\ \A g \in k .. l - 1 : g > 0 /\ g \in k .. se
        /\ (l + 1) - 1 = l
    BY ONLY <2>2, <2>3
  <2> QED BY <2>1, <2>4
<1>4. PICK Q : Q = OldRow(picture, scan, cur, k, l - 1)
  OBVIOUS
<1>5. OldRow(picture, scan, cur, k, l) = Q
  BY <1>3, <1>4 DEF OldRow
<1>6. Q \in SUBSET Nat /\ IsFiniteSet(Q)
  <2>1. Q \in SUBSET (k .. l - 1)
    BY <1>4 DEF OldRow
  <2>2. PICK i : i = l - 1
    OBVIOUS
  <2>3. k \in Nat /\ i \in Int /\ Q \in SUBSET (k .. i)
    BY <1>1, <1>3, <2>1, <2>2
  <2> QED BY ONLY <2>3, RowFinite, Zenon
<1>7. Len(c) = Cardinality(Q) /\ Served(picture, scan, cur, Q, data, first)
  <2>1. PICK n : n = first - 1
    OBVIOUS
  <2>2. n \in Nat /\ n + 1 = first /\ cur \in Nat
    BY <1>1, <2>1
  <2>3. Holds(picture, scan, {cur} \X Q, c) /\ \A i \in 1 .. Len(c) : data[n + i] = c[i]
    BY <1>5, <2>1
  <2>4. Len(c) = Cardinality(Q) /\ Served(picture, scan, cur, Q, data, n + 1)
    BY <1>6, <2>2, <2>3, ServedBy
  <2> QED BY <2>2, <2>4
<1>8. There(k, l - 1) = Q
  BY <1>3, <1>4, ThereIsOld
<1>9. PICK z : z = Corrected(l - 1, first)
  OBVIOUS
<1>10. /\ z \in [0 .. Final -> Int]
       /\ \A h \in 0 .. Final : z[h] = IF h \in Q THEN Becomes(picture, scan, cur, h) ELSE Block[h]
  <2>1. PICK i : i = l - 1
    OBVIOUS
  <2>2. /\ Corrected(i, first) \in [0 .. Final -> Int]
        /\ \A h \in 0 .. Final :
             Corrected(i, first)[h] = IF h \in Q THEN Becomes(picture, scan, cur, h) ELSE Block[h]
    BY <1>3, <1>4, <1>7, <2>1, CorrectedIs
  <2> QED BY <1>9, <2>1, <2>2
<1>11. row \in [0 .. Final -> Int]
  BY <1>9, <1>10
<1>12. ASSUME NEW h \in 0 .. Final
       PROVE  row[h] = IF h \in k .. (l + 1) - 1 THEN Becomes(picture, scan, cur, h) ELSE Block[h]
  <2>1. row[h] = IF h = l THEN y ELSE z[h]
    BY <1>9, <1>10
  <2>2. h \in k .. (l + 1) - 1 <=> h = l \/ h \in k .. l - 1
    BY <1>3
  <2>3. CASE h = l
    BY <2>1, <2>2, <2>3
  <2>4. CASE h # l /\ h \in Q
    <3>1. h \in k .. l - 1
      BY <1>4, <2>4 DEF OldRow
    <3> QED BY <1>10, <2>1, <2>2, <2>4, <3>1
  <2>5. CASE h # l /\ h \notin Q /\ h \in k .. l - 1
    <3>1. ~Old(picture, scan, cur, h) /\ ~New(picture, scan, cur, h)
      BY <1>4, <2>5 DEF OldRow
    <3>2. h > 0 /\ h \in k .. scan.se
      BY <1>3, <2>5
    <3>3. Block[h] = Was(picture, scan, cur, h) /\ h \in scan.ss .. scan.se
      BY <1>0, <3>2, StillWas
    <3>4. Becomes(picture, scan, cur, h) = 0 /\ Was(picture, scan, cur, h) = 0
      BY <1>1, <3>1, <3>2, <3>3, Stays
    <3> QED BY <1>10, <2>1, <2>2, <2>5, <3>3, <3>4
  <2>6. CASE h # l /\ h \notin k .. l - 1
    <3>1. h \notin Q
      BY <1>4, <2>6 DEF OldRow
    <3> QED BY <1>10, <2>1, <2>2, <2>6, <3>1
  <2> QED BY <2>3, <2>4, <2>5, <2>6
<1>13. /\ x \in [Buffer(picture) -> [0 .. Final -> Int]]
       /\ Made(picture, scan, cur, l + 1, x) /\ Kept(picture, nth, x)
  BY <1>0, <1>3, <1>11, <1>12, Advancing
<1>14. first - 1 + Cardinality(There(k, l - 1)) = Len(data)
  BY <1>7, <1>8
<1> QED BY <1>13, <1>14

LEMMA RefineKeeps ==
  ASSUME Given, Refine
  PROVE  IInv'
<1>1. /\ pc = "refine" /\ eobrun = 0 /\ k <= scan.se /\ data # <<>>
      /\ picture' = picture /\ nth' = nth /\ pc' = pc /\ scan' = scan /\ cur' = cur /\ pred' = pred /\ out' = out
  <2>1. data # <<>>
    BY DEF Refine, Has
  <2> QED BY <2>1 DEF Refine, file
<1>2. PICK r, s, after, stop, new :
        /\ r = data[1][1] /\ s = data[1][2] /\ after = IF s # 0 THEN 3 ELSE 2
        /\ stop = Min({l \in k .. scan.se : Cardinality(Zeros(k, l)) > r} \cup {scan.se + 1})
        /\ new = IF data[2][2] = 1 THEN Pow2[scan.al] ELSE -Pow2[scan.al]
  OBVIOUS
<1>3. \/ /\ s = 0 /\ r # MaxRun /\ eobrun' = Run(r) /\ Skip(IF r = 0 THEN 1 ELSE 2)
         /\ coefs' = coefs /\ k' = k
      \/ /\ s # 0 \/ r = MaxRun
         /\ coefs' = [coefs EXCEPT ![scan.order[cur].at] =
                       IF s # 0 THEN [Corrected(stop - 1, after) EXCEPT ![stop] = new] ELSE Corrected(stop - 1, after)]
         /\ k' = stop + 1
         /\ Skip(after - 1 + Cardinality(There(k, stop - 1)))
         /\ eobrun' = eobrun
  BY <1>2 DEF Refine
<1> HIDE DEF Refine
<1>4. pc \in Inside /\ pc \in {"ac", "refine"}
  BY <1>1 DEF Inside
<1>5. /\ Sound(picture, scan) /\ cur \in DOMAIN scan.order /\ scan.al \in Nat
      /\ coefs \in [Buffer(picture) -> [0 .. Final -> Int]] /\ Block \in [0 .. Final -> Int]
      /\ Made(picture, scan, cur, k, coefs) /\ Kept(picture, nth, coefs) /\ data \in Seq(Int \X Int)
  BY <1>4, Around
<1>6. scan.ah > 0 /\ scan.ss > 0 /\ k > 0
  BY <1>1 DEF Given, IInv, Place
<1>7. k \in scan.ss .. scan.se /\ k \in Nat /\ scan.ss \in Nat /\ scan.se \in Nat /\ scan.se <= Final
      /\ MaxRun \in Nat \ {0} /\ Final \in Nat
  <2>1. PICK ss, se : ss = scan.ss /\ se = scan.se
    OBVIOUS
  <2>2. /\ k \in Nat /\ ss \in 0 .. Final /\ se \in ss .. Final /\ Final \in Nat /\ k \in ss .. se + 1
        /\ k <= se /\ MaxRun \in Nat \ {0}
    BY <1>1, <1>4, <2>1, Around
  <2>3. k \in ss .. se /\ k \in Nat /\ ss \in Nat /\ se \in Nat /\ se <= Final
    BY ONLY <2>2
  <2> QED BY <2>1, <2>2, <2>3
<1>8. ASSUME NEW m \in Nat \ {0}, NEW q \in 0 .. MaxRun - 1, NEW c \in Seq(Int \X Int),
             EndShape(picture, scan, cur, k, m, q, c, data, out)
      PROVE  IInv'
  <2>1. q \in Nat /\ q # MaxRun /\ m \in Nat
    BY <1>7
  <2>2. r = q /\ s = 0 /\ Run(r) = m /\ SubSeq(data, (IF r = 0 THEN 1 ELSE 2) + 1, Len(data)) = c
    BY <1>2, <1>8, <2>1, EndRead
  <2>3. eobrun' = m /\ coefs' = coefs /\ k' = k /\ Skip(IF r = 0 THEN 1 ELSE 2)
    BY <1>3, <2>1, <2>2
  <2>4. data' = c
    BY <2>2, <2>3 DEF Skip
  <2>5. Underway(picture, scan, cur, k, m, c, out)
    BY <1>8 DEF EndShape
  <2>6. Within(picture, scan, cur, k, m, c, out)
    BY <2>5 DEF Within
  <2>7. k' \in k .. scan.se + 1
    BY <1>7, <2>3
  <2> QED BY <1>1, <1>4, <1>5, <1>6, <2>1, <2>3, <2>4, <2>6, <2>7, SameBlockKeeps
<1>9. ASSUME NEW l \in k .. scan.se, ~Old(picture, scan, cur, l), \A h \in k .. l - 1 : ~New(picture, scan, cur, h),
             r = Gaps(picture, scan, cur, k, l - 1), s # 0 \/ r = MaxRun,
             NEW c \in Seq(Int \X Int), Holds(picture, scan, {cur} \X OldRow(picture, scan, cur, k, l), c),
             Len(data) = after - 1 + Len(c), \A i \in 1 .. Len(c) : data[after - 1 + i] = c[i],
             s # 0 => new = Becomes(picture, scan, cur, l),
             s = 0 => ~New(picture, scan, cur, l)
      PROVE  /\ coefs' \in [Buffer(picture) -> [0 .. Final -> Int]]
             /\ Made(picture, scan, cur, l + 1, coefs') /\ Kept(picture, nth, coefs')
             /\ k' = l + 1 /\ data' = <<>> /\ eobrun' = 0
  <2>1. stop = l
    BY <1>1, <1>2, <1>9, StopIs
  <2>2. /\ coefs' = [coefs EXCEPT ![scan.order[cur].at] =
                      IF s # 0 THEN [Corrected(l - 1, after) EXCEPT ![l] = new] ELSE Corrected(l - 1, after)]
        /\ k' = l + 1 /\ Skip(after - 1 + Cardinality(There(k, l - 1))) /\ eobrun' = 0
    BY <1>1, <1>3, <1>9, <2>1
  <2>3. PICK y, row : y = Becomes(picture, scan, cur, l) /\ row = [Corrected(l - 1, after) EXCEPT ![l] = y]
    OBVIOUS
  <2>4. l \in scan.ss .. scan.se /\ l > 0 /\ l \in 0 .. Final /\ l \in k .. scan.se
    BY <1>6, <1>7
  <2>5. y \in Int
    BY <1>5, <2>3, <2>4, AcValues
  <2>6. after \in {2, 3}
    BY <1>2
  <2>7. row = IF s # 0 THEN [Corrected(l - 1, after) EXCEPT ![l] = new] ELSE Corrected(l - 1, after)
    <3>1. CASE s # 0
      BY <1>9, <2>3, <3>1
    <3>2. CASE s = 0
      <4>1. PICK z : z = Corrected(l - 1, after)
        OBVIOUS
      <4>2. l \notin There(k, l - 1)
        BY <1>7 DEF There
      <4>3. z[l] = Block[l] /\ z = [h \in 0 .. Final |-> z[h]]
        BY <2>4, <4>1, <4>2 DEF Corrected
      <4>4. Block[l] = Was(picture, scan, cur, l)
        BY <1>4, StillWas
      <4>5. y = 0 /\ Was(picture, scan, cur, l) = 0
        BY <1>5, <1>9, <2>3, <2>4, <3>2, Stays
      <4>6. [z EXCEPT ![l] = y] = z
        BY <2>4, <4>3, <4>4, <4>5
      <4> QED BY <2>3, <3>2, <4>1, <4>6
    <3> QED BY <3>1, <3>2
  <2>8. coefs' = [coefs EXCEPT ![scan.order[cur].at] = row]
    BY <2>2, <2>7
  <2>9. /\ after - 1 + Cardinality(There(k, l - 1)) = Len(data)
        /\ coefs' \in [Buffer(picture) -> [0 .. Final -> Int]]
        /\ Made(picture, scan, cur, l + 1, coefs') /\ Kept(picture, nth, coefs')
    BY <1>1, <1>9, <2>3, <2>5, <2>6, <2>8, Passing
  <2>10. data' = <<>>
    <3>1. data' = SubSeq(data, Len(data) + 1, Len(data))
      BY <2>2, <2>9 DEF Skip
    <3>2. Len(data) \in 0 .. Len(data)
      BY <1>5
    <3>3. Len(data') = Len(data) - Len(data) /\ data' \in Seq(Int \X Int)
      BY <1>5, <3>1, <3>2, Dropped
    <3> QED BY <1>5, <3>3
  <2> QED BY <2>2, <2>9, <2>10
<1>10. ASSUME NEW l \in k .. scan.se, NEW n \in 1 .. 16, NEW y \in Int, NEW c \in Seq(Int \X Int),
              NewShape(picture, scan, cur, k, l, n, y, c, data, out)
       PROVE  IInv'
  <2>1. PICK g, x : g = Gaps(picture, scan, cur, k, l - 1) /\ x = Point(Value(picture, scan, cur, l), scan.al)
    OBVIOUS
  <2>2. /\ New(picture, scan, cur, l) /\ \A h \in k .. l - 1 : ~New(picture, scan, cur, h)
        /\ Holds(picture, scan, {cur} \X OldRow(picture, scan, cur, k, l), c)
        /\ n = 1 /\ x = IF y = 1 THEN 1 ELSE -1
        /\ TwoSymbols(<<g, n>>, <<n, y>>, c, data) /\ out = Onward(scan, cur, l + 1)
    BY <1>6, <1>10, <2>1 DEF NewShape
  <2>3. /\ Len(data) = 2 + Len(c) /\ data[1] = <<g, 1>> /\ data[2] = <<1, y>>
        /\ \A i \in 1 .. Len(c) : data[2 + i] = c[i]
    BY <2>2 DEF TwoSymbols
  <2>4. r = g /\ s = 1 /\ after = 3 /\ data[2][2] = y
    BY <1>2, <2>3
  <2>5. l \in scan.ss .. scan.se /\ l > 0 /\ l + 1 \in k .. scan.se + 1
    BY <1>6, <1>7
  <2>6. new = Becomes(picture, scan, cur, l)
    <3>1. Becomes(picture, scan, cur, l) = x * Pow2[scan.al]
      BY <1>5, <2>1, <2>5, AcValues
    <3>2. PICK z : z = Pow2[scan.al]
      OBVIOUS
    <3>3. z \in Int
      <4>1. scan.al \in Nat
        BY <1>5
      <4>2. Pow2[scan.al] \in Nat \ {0}
        BY <4>1, Pow2Is
      <4> QED BY <3>2, <4>2
    <3>4. new = IF y = 1 THEN z ELSE -z
      BY <1>2, <2>4, <3>2
    <3> QED BY <2>2, <3>1, <3>2, <3>3, <3>4
  <2>7. ~Old(picture, scan, cur, l)
    BY <2>2 DEF New
  <2>8. /\ Len(data) = after - 1 + Len(c) /\ \A i \in 1 .. Len(c) : data[after - 1 + i] = c[i]
        /\ (s # 0 \/ r = MaxRun) /\ r = Gaps(picture, scan, cur, k, l - 1)
        /\ (s # 0 => new = Becomes(picture, scan, cur, l)) /\ (s = 0 => ~New(picture, scan, cur, l))
    BY <2>1, <2>3, <2>4, <2>6
  <2>9. /\ coefs' \in [Buffer(picture) -> [0 .. Final -> Int]]
        /\ Made(picture, scan, cur, l + 1, coefs') /\ Kept(picture, nth, coefs')
        /\ k' = l + 1 /\ data' = <<>> /\ eobrun' = 0
    BY <1>9, <2>2, <2>7, <2>8
  <2>10. Within(picture, scan, cur, l + 1, 0, <<>>, out)
    <3>1. CASE l + 1 <= scan.se
      BY <2>2, <3>1 DEF Within, Onward
    <3>2. CASE ~(l + 1 <= scan.se)
      <4>1. l + 1 = scan.se + 1
        BY <1>7, <3>2
      <4> QED BY <2>2, <3>2, <4>1 DEF Within, Onward
    <3> QED BY <3>1, <3>2
  <2>11. data' \in Seq(Int \X Int)
    BY <2>9
  <2> QED BY <1>1, <1>4, <2>5, <2>9, <2>10, <2>11, SameBlockKeeps
<1>11. ASSUME NEW l \in k .. scan.se - 1, NEW c \in Seq(Int \X Int),
              RunShape(picture, scan, cur, k, l, c, data, out)
       PROVE  IInv'
  <2>1. /\ \A h \in k .. l : ~New(picture, scan, cur, h)
        /\ ~Old(picture, scan, cur, l) /\ Gaps(picture, scan, cur, k, l) = MaxRun + 1
        /\ Holds(picture, scan, {cur} \X OldRow(picture, scan, cur, k, l), c)
        /\ OneSymbol(<<MaxRun, 0>>, c, data) /\ out = <<cur, l + 1>>
    BY <1>11 DEF RunShape
  <2>2. /\ Len(data) = 1 + Len(c) /\ data[1] = <<MaxRun, 0>>
        /\ \A i \in 1 .. Len(c) : data[1 + i] = c[i]
    BY <2>1 DEF OneSymbol
  <2>3. r = MaxRun /\ s = 0 /\ after = 2
    BY <1>2, <2>2
  <2>4. l \in Nat /\ l >= k /\ l \in k .. scan.se /\ l + 1 \in k .. scan.se + 1 /\ l + 1 <= scan.se /\ l - 1 \in Int
        /\ \A h \in k .. l - 1 : h \in k .. l
    BY <1>7
  <2>5. r = Gaps(picture, scan, cur, k, l - 1)
    <3>1. Gaps(picture, scan, cur, k, l) = Gaps(picture, scan, cur, k, l - 1) + 1
      BY <1>7, <2>1, <2>4, GapStep
    <3>2. Gaps(picture, scan, cur, k, l - 1) \in Nat
      BY <1>7, <2>4, GapsAre
    <3> QED BY <1>7, <2>1, <2>3, <3>1, <3>2
  <2>6. ~New(picture, scan, cur, l) /\ \A h \in k .. l - 1 : ~New(picture, scan, cur, h)
    BY <1>7, <2>1, <2>4
  <2>7. Len(data) = after - 1 + Len(c) /\ \A i \in 1 .. Len(c) : data[after - 1 + i] = c[i]
    BY <2>2, <2>3
  <2>8. /\ coefs' \in [Buffer(picture) -> [0 .. Final -> Int]]
        /\ Made(picture, scan, cur, l + 1, coefs') /\ Kept(picture, nth, coefs')
        /\ k' = l + 1 /\ data' = <<>> /\ eobrun' = 0
    BY <1>9, <2>1, <2>3, <2>4, <2>5, <2>6, <2>7
  <2>9. Within(picture, scan, cur, l + 1, 0, <<>>, out)
    BY <2>1, <2>4 DEF Within
  <2>10. data' \in Seq(Int \X Int)
    BY <2>8
  <2> QED BY <1>1, <1>4, <2>4, <2>8, <2>9, <2>10, SameBlockKeeps
<1> QED BY <1>1, <1>4, <1>8, <1>10, <1>11, AcSymbols

LEMMA RefineEndKeeps ==
  ASSUME Given, RefineEnd
  PROVE  IInv'
<1>1. /\ pc = "refine" /\ (eobrun > 0 \/ k > scan.se)
      /\ picture' = picture /\ nth' = nth /\ scan' = scan /\ k' = k /\ pred' = pred /\ out' = out
      /\ cur' = cur + 1 /\ pc' = "block"
  BY DEF RefineEnd, NextBlock, file
<1>2. /\ eobrun > 0 => /\ coefs' = [coefs EXCEPT ![scan.order[cur].at] = Corrected(scan.se, 1)]
                       /\ Skip(Cardinality(There(k, scan.se))) /\ eobrun' = eobrun - 1
      /\ ~(eobrun > 0) => coefs' = coefs /\ data' = data /\ eobrun' = eobrun
  BY DEF RefineEnd
<1> HIDE DEF RefineEnd
<1>3. pc \in Inside
  BY <1>1 DEF Inside
<1>4. scan.ss > 0 /\ scan.ah > 0 /\ k > 0
  BY <1>1 DEF Given, IInv, Place
<1>5. /\ Sound(picture, scan) /\ cur \in DOMAIN scan.order /\ cur \in Nat \ {0}
      /\ DOMAIN scan.order = 1 .. Len(scan.order) /\ Len(scan.order) \in Nat
      /\ k \in Nat /\ eobrun \in Nat /\ pred \in [DOMAIN picture.factors -> Int] /\ data \in Seq(Int \X Int)
      /\ coefs \in [Buffer(picture) -> [0 .. Final -> Int]]
      /\ Made(picture, scan, cur, k, coefs) /\ Kept(picture, nth, coefs)
      /\ Within(picture, scan, cur, k, eobrun, data, out)
  BY <1>3, Around
<1>6. /\ scan.ss # 0 /\ k >= scan.ss /\ scan.se \in Int /\ scan.se <= scan.se
      /\ scan.se + 1 \in k .. scan.se + 1 /\ (scan.se + 1) - 1 = scan.se
      /\ \A l \in scan.ss .. scan.se : ~(l >= scan.se + 1)
  <2>1. PICK ss, se : ss = scan.ss /\ se = scan.se
    OBVIOUS
  <2>2. k \in Nat /\ ss \in 0 .. Final /\ se \in ss .. Final /\ Final \in Nat /\ k \in ss .. se + 1 /\ ss > 0
    BY <1>3, <1>4, <2>1, Around
  <2>3. /\ ss # 0 /\ k >= ss /\ se \in Int /\ se <= se
        /\ se + 1 \in k .. se + 1 /\ (se + 1) - 1 = se
        /\ \A l \in ss .. se : ~(l >= se + 1)
    BY ONLY <2>2
  <2> QED BY <2>1, <2>3
<1>7. CASE eobrun > 0
  <2>1. Underway(picture, scan, cur, k, eobrun, data, out)
    BY <1>5, <1>7 DEF Within
  <2>2. \A l \in k .. scan.se : ~New(picture, scan, cur, l)
    BY <1>7, <2>1 DEF Underway, Ended
  <2>3. PICK Q, e, row : /\ Q = OldRow(picture, scan, cur, k, scan.se)
                         /\ e = SubSeq(data, Cardinality(Q) + 1, Len(data))
                         /\ row = Corrected(scan.se, 1)
    OBVIOUS
  <2>4. There(k, scan.se) = Q
    BY <1>1, <1>6, <2>3, ThereIsOld
  <2>5. eobrun \in Nat \ {0}
    BY <1>5, <1>7
  <2>6. /\ Cardinality(Q) \in Nat /\ e \in Seq(Int \X Int)
        /\ Between(picture, scan, cur + 1, eobrun - 1, e, out)
        /\ Served(picture, scan, cur, Q, data, 1)
    BY <1>5, <1>6, <2>1, <2>3, <2>5, BlockEnds, ZenonT(60)
  <2>7. /\ row \in [0 .. Final -> Int]
        /\ \A h \in 0 .. Final : row[h] = IF h \in Q THEN Becomes(picture, scan, cur, h) ELSE Block[h]
    BY <1>1, <1>6, <2>3, <2>6, CorrectedIs
  <2>8. ASSUME NEW h \in 0 .. Final
         PROVE  row[h] = IF h \in k .. (scan.se + 1) - 1 THEN Becomes(picture, scan, cur, h) ELSE Block[h]
    <3>1. CASE h \in Q
      <4>1. h \in k .. scan.se
        BY <2>3, <3>1 DEF OldRow
      <4> QED BY <1>6, <2>7, <3>1, <4>1
    <3>2. CASE h \notin Q /\ h \in k .. scan.se
      <4>1. ~Old(picture, scan, cur, h) /\ ~New(picture, scan, cur, h)
        BY <2>2, <2>3, <3>2 DEF OldRow
      <4>2. Block[h] = Was(picture, scan, cur, h) /\ h \in scan.ss .. scan.se
        BY <1>3, <3>2, StillWas
      <4>3. h > 0
        BY <1>4, <1>5, <3>2
      <4>4. Becomes(picture, scan, cur, h) = 0 /\ Was(picture, scan, cur, h) = 0
        BY <1>5, <4>1, <4>2, <4>3, Stays
      <4> QED BY <1>6, <2>7, <3>2, <4>2, <4>4
    <3>3. CASE h \notin Q /\ h \notin k .. scan.se
      BY <1>6, <2>7, <3>3
    <3> QED BY <3>1, <3>2, <3>3
  <2>9. coefs' = [coefs EXCEPT ![scan.order[cur].at] = row] /\ data' = e /\ eobrun' = eobrun - 1
    BY <1>2, <1>7, <2>3, <2>4 DEF Skip
  <2>10. /\ coefs' \in [Buffer(picture) -> [0 .. Final -> Int]]
         /\ Made(picture, scan, cur, scan.se + 1, coefs') /\ Kept(picture, nth, coefs')
    BY <1>3, <1>6, <2>7, <2>8, <2>9, Advancing
  <2>11. Made(picture, scan, cur + 1, 0, coefs')
    <3>1. PICK j : j = scan.se + 1
      OBVIOUS
    <3>2. j \in Nat
      BY <1>5, <1>6, <3>1
    <3>3. Made(picture, scan, cur, j, coefs') /\ \A l \in scan.ss .. scan.se : ~(l >= j)
      BY <1>6, <2>10, <3>1
    <3> QED BY <1>5, <3>2, <3>3, BlockDone
  <2>12. eobrun - 1 \in Nat
    BY <2>5
  <2> QED BY <1>1, <1>3, <1>5, <1>6, <2>6, <2>9, <2>10, <2>11, <2>12, NextBlockKeeps
<1>8. CASE ~(eobrun > 0)
  <2>1. eobrun = 0 /\ k > scan.se /\ eobrun' = 0 /\ coefs' = coefs /\ data' = data
    BY <1>1, <1>2, <1>5, <1>8
  <2>2. data = <<>> /\ out = Beginning(scan, cur + 1)
    <3>1. ~(k <= scan.se)
      BY <1>5, <1>6, <2>1
    <3> QED BY <1>5, <2>1, <3>1 DEF Within
  <2>3. Between(picture, scan, cur + 1, 0, data, out)
    <3>1. cur + 1 \in Nat \ {0} /\ cur + 1 <= Len(scan.order) + 1
      BY <1>5
    <3>2. Between(picture, scan, cur + 1, 0, <<>>, Beginning(scan, cur + 1))
      BY <1>5, <3>1, NothingWritten
    <3> QED BY <2>2, <3>2
  <2>4. Made(picture, scan, cur + 1, 0, coefs)
    <3>1. \A l \in scan.ss .. scan.se : l >= k => Becomes(picture, scan, cur, l) = Was(picture, scan, cur, l)
      <4>1. PICK ss, se : ss = scan.ss /\ se = scan.se
        OBVIOUS
      <4>2. k \in Nat /\ ss \in 0 .. Final /\ se \in ss .. Final /\ Final \in Nat /\ k > se
        BY <1>3, <2>1, <4>1, Around
      <4>3. \A l \in ss .. se : ~(l >= k)
        BY ONLY <4>2
      <4> QED BY <4>1, <4>3
    <3> QED BY <1>5, <3>1, BlockDone
  <2> QED BY <1>1, <1>3, <1>5, <1>6, <2>1, <2>3, <2>4, NextBlockKeeps
<1> QED BY <1>7, <1>8

-------------------------------------------------------------------------------
(* The theorems.                                                           *)

LEMMA NoMax ==
  ASSUME NEW p, NEW at, NEW j
  PROVE  Precise(p, 0, at, j) = 0
<1>1. Carrying(p, 0, at, j) = {}
  <2>1. 1 .. 0 = {}
    OBVIOUS
  <2> QED BY <2>1 DEF Carrying
<1> QED BY <1>1 DEF Precise

LEMMA Initially ==
  ASSUME JpegAssumption, Init
  PROVE  IInv
<1>1. /\ picture \in Picture /\ coefs = [at \in Buffer(picture) |-> [j \in 0 .. Final |-> 0]]
      /\ nth = 0 /\ pc = "scan" /\ scan = NoScan /\ cur = 1 /\ k = 0 /\ eobrun = 0
      /\ pred = [c \in DOMAIN picture.factors |-> 0] /\ data = <<>>
  BY DEF Init
<1>2. 0 \in 0 .. Len(picture.script)
  <2>1. Legal(picture)
    BY <1>1 DEF JpegAssumption
  <2>2. Len(picture.script) \in Nat
    BY <2>1 DEF Legal, LegalFrame
  <2> QED BY <2>2
<1>3. pc \notin Inside /\ pc # "block"
  BY <1>1 DEF Inside
<1>4. TypeOK
  <2>1. <<>> \in Seq(Int \X Int)
    OBVIOUS
  <2>2. cur \in Nat \ {0} /\ k \in Nat /\ eobrun \in Nat
    BY <1>1
  <2>3. coefs \in [Buffer(picture) -> [0 .. Final -> Int]] /\ pred \in [DOMAIN picture.factors -> Int]
    BY <1>1
  <2> QED BY <1>1, <1>2, <2>1, <2>2, <2>3 DEF TypeOK
<1>5. Place
  BY <1>1, <1>3 DEF Place, Inside
<1>6. Filled
  <2>1. ASSUME NEW at \in Buffer(picture), NEW j \in 0 .. Final
        PROVE  coefs[at][j] = Precise(picture, nth, at, j)
    BY <1>1, NoMax
  <2> QED BY <1>1, <2>1 DEF Filled
<1>7. Foreseen
  BY <1>1, <1>3 DEF Foreseen
<1>8. Agreed
  BY <1>3 DEF Agreed
<1> QED BY <1>4, <1>5, <1>6, <1>7, <1>8 DEF IInv

LEMMA Stuttering ==
  ASSUME IInv, UNCHANGED vars
  PROVE  IInv'
<1>1. /\ picture' = picture /\ coefs' = coefs /\ nth' = nth /\ pc' = pc /\ scan' = scan /\ cur' = cur /\ k' = k
      /\ eobrun' = eobrun /\ pred' = pred /\ data' = data /\ out' = out
  BY DEF vars
<1> USE <1>1
<1>2. TypeOK'
  BY DEF IInv, TypeOK
<1>3. Place'
  BY DEF IInv, Place
<1>4. Filled'
  BY DEF IInv, Filled
<1>5. Foreseen'
  BY DEF IInv, Foreseen
<1>6. Agreed'
  BY DEF IInv, Agreed
<1> QED BY <1>2, <1>3, <1>4, <1>5, <1>6 DEF IInv

(* Between any two steps of the decoder and the encoder, for every legal   *)
(* file: the coefficients before the decoder's place are what the scan     *)
(* makes of the image's, those after it what they were; the predictions    *)
(* are the values of the blocks before; and what is written and not read   *)
(* is what the encoder may write from where the decoder is to where the    *)
(* encoder is (decode_scan and decode_*, jpeg.rs).                         *)
THEOREM Inductive == Spec => []IInv
<1>1. JpegAssumption
  BY JpegAssumption
<1>2. Init => IInv
  BY <1>1, Initially
<1>3. ASSUME IInv, Next PROVE IInv'
  <2>1. Given
    BY <1>1, <1>3 DEF Given
  <2>2. CASE Start
    BY <2>1, <2>2, StartKeeps
  <2>3. CASE Enter
    BY <2>1, <2>3, EnterKeeps
  <2>4. CASE Finish
    BY <2>1, <2>4, FinishKeeps
  <2>5. CASE DcFirst
    BY <2>1, <2>5, DcFirstKeeps
  <2>6. CASE DcRefine
    BY <2>1, <2>6, DcRefineKeeps
  <2>7. CASE Ac
    BY <2>1, <2>7, AcKeeps
  <2>8. CASE AcEnd
    BY <2>1, <2>8, AcEndKeeps
  <2>9. CASE Refine
    BY <2>1, <2>9, RefineKeeps
  <2>10. CASE RefineEnd
    BY <2>1, <2>10, RefineEndKeeps
  <2>11. CASE Encode
    BY <2>1, <2>11, EncodeKeeps
  <2>12. Next <=> \/ Start \/ Enter \/ Finish \/ DcFirst \/ DcRefine \/ Ac \/ AcEnd \/ Refine \/ RefineEnd \/ Encode
    BY DEF Next, Decode
  <2> QED BY <1>3, <2>2, <2>3, <2>4, <2>5, <2>6, <2>7, <2>8, <2>9, <2>10, <2>11, <2>12
<1>4. IInv /\ [Next]_vars => IInv'
  BY <1>3, Stuttering
<1> QED BY <1>2, <1>4, PTL DEF Spec

(* After every scan of every legal file, whatever the encoder has chosen,  *)
(* each coefficient is that of the image to the last bit that any scan so  *)
(* far has carried (decode_scan, jpeg.rs).                                 *)
THEOREM ScanExactAlways == Spec => []ScanExact
<1>1. IInv => ScanExact
  BY DEF IInv, Filled, ScanExact
<1> QED BY <1>1, Inductive, PTL
===============================================================================
