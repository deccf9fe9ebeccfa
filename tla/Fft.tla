---------------------------------- MODULE Fft ----------------------------------
(***************************************************************************)
(* crates/vqtrs-core/src/embedding_gemma2/pocketfft.rs: the real transform *)
(* of power-of-two length, with its twiddles and butterflies.              *)
(*                                                                         *)
(* Real numbers are the integers modulo Prime, where Root is a root of     *)
(* unity: sums, products, sines and cosines obey the laws of the real      *)
(* ones, so the algorithm is exact here iff it is a Fourier transform.     *)
(* Rounding, and which products are fused, are left out.                   *)
(***************************************************************************)
EXTENDS Integers, Sequences, FiniteSetsExt, SequencesExt

CONSTANTS
  Longest,   \* every length divides it (512)
  Prime,
  Root       \* of order 8 * Longest modulo Prime

(* b^e modulo Prime.                                                       *)
Power(b, e) ==
  LET power[n \in 0 .. e] ==
        IF n = 0 THEN 1
        ELSE LET h == power[n \div 2]
             IN (((h * h) % Prime) * (IF n % 2 = 1 THEN b ELSE 1)) % Prime
  IN power[e]

ASSUME FftAssumption ==
  /\ Power(Root, 4 * Longest) = Prime - 1

-------------------------------------------------------------------------------
(* Arithmetic modulo Prime.                                                *)

Times(a, b) == (a * b) % Prime
Plus(a, b)  == (a + b) % Prime
Less(a, b)  == (a - b) % Prime
Over(a, b)  == Times(a, Power(b, Prime - 2))

(* cos and sin of 2 * pi * v / (8 * n).                                    *)
Angle(n, v) == Power(Root, (v % (8 * n)) * (Longest \div n))
Cos(n, v)   == Over(Plus(Angle(n, v), Angle(n, -v)), 2)
Sin(n, v)   == Over(Less(Angle(n, v), Angle(n, -v)), Times(2, Power(Root, 2 * Longest)))
HalfRoot    == Cos(Longest, Longest)

-------------------------------------------------------------------------------
(* SinCos: calc folds every angle into the first eighth of the circle.     *)

Calc(index, n) ==
  LET x == 8 * index
      c(v) == Cos(n, v)
      s(v) == Sin(n, v)
      minus(v) == Less(0, v)
      y == x - 2 * n
      z == 8 * n - x
      u == z - 2 * n
  IN CASE x < n                  -> <<c(x), s(x)>>
       [] x \in n .. 2 * n - 1   -> <<s(2 * n - x), c(2 * n - x)>>
       [] x \in 2 * n .. 3 * n - 1 -> <<minus(s(y)), c(y)>>
       [] x \in 3 * n .. 4 * n - 1 -> <<minus(c(2 * n - y)), s(2 * n - y)>>
       [] x >= 4 * n /\ z < n    -> <<c(z), minus(s(z))>>
       [] x >= 4 * n /\ z \in n .. 2 * n - 1 -> <<s(2 * n - z), minus(c(2 * n - z))>>
       [] x >= 4 * n /\ z >= 2 * n /\ u < n -> <<minus(s(u)), minus(c(u))>>
       [] OTHER                  -> <<minus(c(2 * n - u)), minus(s(2 * n - u))>>

(* The two tables hold the fine and the coarse angles.                     *)
Tables(n) ==
  LET half  == n \div 2 + 1
      shift == CHOOSE p \in 1 .. n : 4 ^ p >= half /\ \A q \in 1 .. p - 1 : 4 ^ q < half
      entry(i) == IF i = 0 THEN <<1, 0>> ELSE Calc(i, n)
      step  == 2 ^ shift
  IN [step   |-> step,
      fine   |-> [i \in 0 .. step - 1 |-> entry(i)],
      coarse |-> [i \in 0 .. (half + step - 1) \div step - 1 |-> entry(i * step)]]

Twiddle(tables, n, index) ==
  LET conj == 2 * index > n
      i == IF conj THEN n - index ELSE index
      a == tables.fine[i % tables.step]
      b == tables.coarse[i \div tables.step]
      re == Less(Times(a[1], b[1]), Times(a[2], b[2]))
      im == Plus(Times(a[1], b[2]), Times(a[2], b[1]))
  IN <<re, IF conj THEN Less(0, im) ELSE im>>

(* Rfft::new: fours, with a two in front if the length is an odd power.    *)
Radices(n) ==
  LET p == CHOOSE p \in 0 .. n : 2 ^ p = n
  IN (IF p % 2 = 1 THEN <<2>> ELSE <<>>) \o [i \in 1 .. p \div 2 |-> 4]

Product(s) == FoldLeft(LAMBDA a, b : a * b, 1, s)

(* Mutant: the twiddles of a factor do not count the factors before it.    *)
PlanNear(n) ==
  LET ips == Radices(n)
      tables == Tables(n)
      l1(f)  == Product(SubSeq(ips, 1, f - 1))
      ido(f) == n \div (l1(f) * ips[f])
  IN [f \in DOMAIN ips |->
       [ip |-> ips[f],
        tw |-> [m \in 0 .. (IF f = Len(ips) THEN 0 ELSE (ips[f] - 1) * (ido(f) - 1)) - 1 |->
                 LET j == m \div (ido(f) - 1) + 1
                     r == m % (ido(f) - 1)
                     i == (r \div 2) + 1
                 IN IF i > (ido(f) - 1) \div 2 THEN 0
                    ELSE Twiddle(tables, n, j * i)[(r % 2) + 1]]]]

Plan(n) ==
  LET ips == Radices(n)
      tables == Tables(n)
      l1(f)  == Product(SubSeq(ips, 1, f - 1))
      ido(f) == n \div (l1(f) * ips[f])
  IN [f \in DOMAIN ips |->
       [ip |-> ips[f],
        tw |-> [m \in 0 .. (IF f = Len(ips) THEN 0 ELSE (ips[f] - 1) * (ido(f) - 1)) - 1 |->
                 LET j == m \div (ido(f) - 1) + 1
                     r == m % (ido(f) - 1)
                     i == (r \div 2) + 1
                 IN IF i > (ido(f) - 1) \div 2 THEN 0
                    ELSE Twiddle(tables, n, j * l1(f) * i)[(r % 2) + 1]]]]

-------------------------------------------------------------------------------
(* The butterflies.  Each is the set of what it writes: <<place, value>>.  *)

Mulpm(c, d, e, f) == <<Plus(Times(c, e), Times(d, f)), Less(Times(c, f), Times(d, e))>>

Radf2(ido, l1, cc, wa) ==
  LET in(a, b, c)  == cc[a + ido * (b + l1 * c)]
      at(a, b, c)  == a + ido * (b + 2 * c)
      turn(i, k)   == Mulpm(wa[i - 2], wa[i - 1], in(i - 1, k, 1), in(i, k, 1))
  IN UNION {
       {<<at(0, 0, k), Plus(in(0, k, 0), in(0, k, 1))>>,
        <<at(ido - 1, 1, k), Less(in(0, k, 0), in(0, k, 1))>>}
       \cup (IF ido % 2 # 0 THEN {} ELSE
         {<<at(0, 1, k), Less(0, in(ido - 1, k, 1))>>, <<at(ido - 1, 0, k), in(ido - 1, k, 0)>>})
       \cup UNION {
         LET t == turn(2 * h, k)
             i == 2 * h
             ic == ido - i
         IN {<<at(i - 1, 0, k), Plus(in(i - 1, k, 0), t[1])>>,
             <<at(ic - 1, 1, k), Less(in(i - 1, k, 0), t[1])>>,
             <<at(i, 0, k), Plus(t[2], in(i, k, 0))>>,
             <<at(ic, 1, k), Less(t[2], in(i, k, 0))>>}
         : h \in 1 .. (ido - 1) \div 2}
     : k \in 0 .. l1 - 1}

Radf4(ido, l1, cc, wa) ==
  LET in(a, b, c) == cc[a + ido * (b + l1 * c)]
      at(a, b, c) == a + ido * (b + 4 * c)
      turn(x, i, k) == Mulpm(wa[i - 2 + x * (ido - 1)], wa[i - 1 + x * (ido - 1)],
                             in(i - 1, k, x + 1), in(i, k, x + 1))
      first(k) ==
        LET t1 == Plus(in(0, k, 3), in(0, k, 1))
            t2 == Plus(in(0, k, 0), in(0, k, 2))
        IN {<<at(0, 2, k), Less(in(0, k, 3), in(0, k, 1))>>,
            <<at(ido - 1, 1, k), Less(in(0, k, 0), in(0, k, 2))>>,
            <<at(0, 0, k), Plus(t2, t1)>>, <<at(ido - 1, 3, k), Less(t2, t1)>>}
      middle(k) ==
        LET l == ido - 1
            ti == Times(Less(0, HalfRoot), Plus(in(l, k, 1), in(l, k, 3)))
            tr == Times(HalfRoot, Less(in(l, k, 1), in(l, k, 3)))
        IN {<<at(l, 0, k), Plus(in(l, k, 0), tr)>>, <<at(l, 2, k), Less(in(l, k, 0), tr)>>,
            <<at(0, 3, k), Plus(ti, in(l, k, 2))>>, <<at(0, 1, k), Less(ti, in(l, k, 2))>>}
      rest(i, k) ==
        LET c2 == turn(0, i, k)
            c3 == turn(1, i, k)
            c4 == turn(2, i, k)
            ic == ido - i
            tr1 == Plus(c4[1], c2[1])
            tr4 == Less(c4[1], c2[1])
            ti1 == Plus(c2[2], c4[2])
            ti4 == Less(c2[2], c4[2])
            tr2 == Plus(in(i - 1, k, 0), c3[1])
            tr3 == Less(in(i - 1, k, 0), c3[1])
            ti2 == Plus(in(i, k, 0), c3[2])
            ti3 == Less(in(i, k, 0), c3[2])
        IN {<<at(i - 1, 0, k), Plus(tr2, tr1)>>, <<at(ic - 1, 3, k), Less(tr2, tr1)>>,
            <<at(i, 0, k), Plus(ti1, ti2)>>, <<at(ic, 3, k), Less(ti1, ti2)>>,
            <<at(i - 1, 2, k), Plus(tr3, ti4)>>, <<at(ic - 1, 1, k), Less(tr3, ti4)>>,
            <<at(i, 2, k), Plus(tr4, ti3)>>, <<at(ic, 1, k), Less(tr4, ti3)>>}
  IN UNION {first(k) \cup (IF ido % 2 = 0 THEN middle(k) ELSE {})
              \cup UNION {rest(2 * h, k) : h \in 1 .. (ido - 1) \div 2}
            : k \in 0 .. l1 - 1}

(* forward: the factors from the last to the first, between two buffers.   *)
Forward(plan, c) ==
  LET n == Cardinality(DOMAIN c)
      l1(f) == Product([g \in 1 .. f - 1 |-> plan[g].ip])
      Pass(a, f) ==
        LET ido == n \div (l1(f) * plan[f].ip)
            written == IF plan[f].ip = 4 THEN Radf4(ido, l1(f), a, plan[f].tw)
                       ELSE Radf2(ido, l1(f), a, plan[f].tw)
        IN [m \in 0 .. n - 1 |-> (CHOOSE w \in written : w[1] = m)[2]]
  IN FoldRight(LAMBDA f, a : Pass(a, f), [f \in DOMAIN plan |-> f], c)

(* rfft: the bins 0 to n / 2 as pairs of real and imaginary part.          *)
Rfft(plan, n, frame) ==
  LET buf == Forward(plan, [j \in 0 .. n - 1 |-> IF j < Len(frame) THEN frame[j + 1] ELSE 0])
  IN [k \in 0 .. n \div 2 |->
       CASE k = 0 -> <<buf[0], 0>>
         [] k \in 1 .. n \div 2 - 1 -> <<buf[2 * k - 1], buf[2 * k]>>
         [] OTHER -> <<buf[n - 1], 0>>]
===============================================================================
