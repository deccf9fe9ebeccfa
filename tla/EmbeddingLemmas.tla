---------------------------- MODULE EmbeddingLemmas ----------------------------
(***************************************************************************)
(* Lemmas about the operators of Kernels, Speech, Images and Embedding for *)
(* every length of input and every value of the constants: what the        *)
(* reductions add, what a token of a clip hears, how many tokens, rows and *)
(* patches an input has, and which samples, frames and pixels they stand   *)
(* for.                                                                    *)
(*                                                                         *)
(* The recursive functions of the model are reached by induction over a    *)
(* set of numbers that holds 0 and the successor of each of its members.   *)
(***************************************************************************)
EXTENDS Embedding, SequenceTheorems, FiniteSetTheorems, TLAPS

-------------------------------------------------------------------------------
(* Induction and recursion over the natural numbers.                       *)

LEMMA Induction ==
  ASSUME NEW T \in SUBSET Nat, 0 \in T, \A n \in T : n + 1 \in T
  PROVE  T = Nat
<1> SUFFICES ASSUME Nat \ T # {} PROVE FALSE
  OBVIOUS
<1>1. IsWellFoundedOn(OpToRel(<, Nat), Nat)
  BY NatLessThanWellFounded
<1>2. PICK m \in Nat \ T : \A n \in Nat \ T : ~ (<<n, m>> \in OpToRel(<, Nat))
  <2>1. Nat \ T \subseteq Nat
    OBVIOUS
  <2> QED BY <1>1, <2>1, WFMin
<1>3. m # 0 /\ m - 1 \in Nat /\ m - 1 < m
  OBVIOUS
<1>4. m - 1 \in T
  BY <1>2, <1>3 DEF OpToRel
<1>5. (m - 1) + 1 \in T
  BY <1>4
<1> QED BY <1>5

(* What starts with base and goes on by step is there up to every n.       *)
Iterates(g, A, base, step, n) ==
  /\ g \in [0 .. n -> A]
  /\ g[0] = base
  /\ \A i \in 1 .. n : g[i] = step[<<g[i - 1], i>>]

LEMMA Recursion ==
  ASSUME NEW A, NEW base \in A, NEW step \in [A \X Nat -> A], NEW n \in Nat
  PROVE  \E g : Iterates(g, A, base, step, n)
<1> DEFINE Up(m) == \E g : Iterates(g, A, base, step, m)
           T == {m \in Nat : Up(m)}
<1>1. 0 \in T
  <2> DEFINE g == [i \in 0 .. 0 |-> base]
  <2>1. g \in [0 .. 0 -> A] /\ g[0] = base /\ 1 .. 0 = {}
    OBVIOUS
  <2> HIDE DEF g
  <2>2. Iterates(g, A, base, step, 0)
    BY <2>1 DEF Iterates
  <2> QED BY <2>2
<1>2. ASSUME NEW m \in T PROVE m + 1 \in T
  <2>0. PICK g : Iterates(g, A, base, step, m)
    OBVIOUS
  <2>1. /\ g \in [0 .. m -> A] /\ g[0] = base
        /\ \A i \in 1 .. m : g[i] = step[<<g[i - 1], i>>]
    BY <2>0 DEF Iterates
  <2> DEFINE last == step[<<g[m], m + 1>>]
             h == [i \in 0 .. m + 1 |-> IF i <= m THEN g[i] ELSE last]
  <2>2. m \in Nat /\ g[m] \in A /\ last \in A
    BY <2>1
  <2> HIDE DEF last
  <2>3. h \in [0 .. m + 1 -> A]
    BY <2>1, <2>2
  <2>4. ASSUME NEW i \in 1 .. m + 1 PROVE h[i] = step[<<h[i - 1], i>>]
    <3>1. CASE i <= m
      <4>1. h[i] = g[i] /\ h[i - 1] = g[i - 1] /\ i \in 1 .. m
        BY <3>1, <2>2
      <4> QED BY <2>1, <4>1
    <3>2. CASE i = m + 1
      <4>1. h[i] = last /\ h[i - 1] = g[m]
        BY <3>2, <2>2
      <4> QED BY <4>1, <3>2 DEF last
    <3> QED BY <3>1, <3>2, <2>2
  <2>5. h[0] = base
    <3>1. 0 \in 0 .. m + 1 /\ 0 <= m
      BY <2>2
    <3> QED BY <2>1, <3>1
  <2> HIDE DEF h
  <2>6. Iterates(h, A, base, step, m + 1)
    BY <2>3, <2>4, <2>5 DEF Iterates
  <2>7. m + 1 \in Nat
    BY <2>2
  <2> QED BY <2>6, <2>7
<1>3. T = Nat
  <2> HIDE DEF T
  <2>1. T \in SUBSET Nat
    BY DEF T
  <2> QED BY <1>1, <1>2, <2>1, Induction
<1> QED BY <1>3

-------------------------------------------------------------------------------
(* Sequences in which each element of a set occurs once.                   *)

Once(s, R) ==
  /\ s \in Seq(R)
  /\ \A i, j \in 1 .. Len(s) : s[i] = s[j] => i = j
  /\ \A x \in R : \E i \in 1 .. Len(s) : s[i] = x

LEMMA OnceEmpty == Once(<<>>, {})
BY DEF Once

LEMMA ConcatOnce ==
  ASSUME NEW A, NEW B, NEW s, NEW t, Once(s, A), Once(t, B), A \cap B = {}
  PROVE  Once(s \o t, A \cup B)
<1>1. s \in Seq(A \cup B) /\ t \in Seq(A \cup B) /\ s \in Seq(A) /\ t \in Seq(B)
  BY DEF Once
<1>2. /\ s \o t \in Seq(A \cup B) /\ Len(s \o t) = Len(s) + Len(t)
      /\ \A i \in 1 .. Len(s) + Len(t) : (s \o t)[i] = IF i <= Len(s) THEN s[i] ELSE t[i - Len(s)]
  BY <1>1, ConcatProperties
<1>3. Len(s) \in Nat /\ Len(t) \in Nat
      /\ (\A i \in 1 .. Len(s) : s[i] \in A) /\ (\A i \in 1 .. Len(t) : t[i] \in B)
  BY <1>1, ElementOfSeq, LenProperties
<1> DEFINE u == s \o t
<1> HIDE DEF u
<1>4. u \in Seq(A \cup B) /\ Len(u) = Len(s) + Len(t)
      /\ \A i \in 1 .. Len(s) + Len(t) : u[i] = IF i <= Len(s) THEN s[i] ELSE t[i - Len(s)]
  BY <1>2 DEF u
<1>5. ASSUME NEW i \in 1 .. Len(u), NEW j \in 1 .. Len(u), u[i] = u[j]
      PROVE  i = j
  <2>1. CASE i <= Len(s) /\ j <= Len(s)
    <3>1. i \in 1 .. Len(s) /\ j \in 1 .. Len(s) /\ s[i] = s[j]
      BY <2>1, <1>3, <1>4, <1>5
    <3> QED BY <3>1 DEF Once
  <2>2. CASE i > Len(s) /\ j > Len(s)
    <3>1. i - Len(s) \in 1 .. Len(t) /\ j - Len(s) \in 1 .. Len(t)
      BY <2>2, <1>3, <1>4
    <3>2. t[i - Len(s)] = t[j - Len(s)]
      BY <2>2, <1>3, <1>4, <1>5
    <3>3. i - Len(s) = j - Len(s)
      BY <3>1, <3>2 DEF Once
    <3> QED BY <3>3, <1>3, <1>4
  <2>3. CASE i <= Len(s) /\ j > Len(s)
    <3>1. u[i] \in A /\ u[j] \in B
      BY <2>3, <1>3, <1>4, SMTT(30)
    <3> QED BY <3>1, <1>5
  <2>4. CASE i > Len(s) /\ j <= Len(s)
    <3>1. u[i] \in B /\ u[j] \in A
      BY <2>4, <1>3, <1>4
    <3> QED BY <3>1, <1>5
  <2> QED BY <2>1, <2>2, <2>3, <2>4, <1>3, <1>4
<1>6. ASSUME NEW x \in A \cup B PROVE \E i \in 1 .. Len(u) : u[i] = x
  <2>1. CASE x \in A
    <3>1. PICK i \in 1 .. Len(s) : s[i] = x
      BY <2>1 DEF Once
    <3>2. i \in 1 .. Len(u) /\ u[i] = x
      BY <3>1, <1>3, <1>4
    <3> QED BY <3>2
  <2>2. CASE x \in B
    <3>1. PICK i \in 1 .. Len(t) : t[i] = x
      BY <2>2 DEF Once
    <3>2. i + Len(s) \in 1 .. Len(u) /\ u[i + Len(s)] = x
      BY <3>1, <1>3, <1>4
    <3> QED BY <3>2
  <2> QED BY <2>1, <2>2
<1>7. Once(u, A \cup B)
  BY <1>4, <1>5, <1>6 DEF Once
<1> QED BY <1>7 DEF u

-------------------------------------------------------------------------------
(* FlattenSeq.                                                             *)

LEMMA FlattenDef ==
  ASSUME NEW V, NEW seqs \in Seq(Seq(V)), Len(seqs) > 0
  PROVE  \E f \in [1 .. Len(seqs) -> Seq(V)] :
           /\ f[1] = seqs[1]
           /\ \A i \in 2 .. Len(seqs) : f[i] = f[i - 1] \o seqs[i]
           /\ FlattenSeq(seqs) = f[Len(seqs)]
<1> DEFINE n == Len(seqs)
           step == [x \in Seq(V) \X Nat |-> IF x[2] + 1 <= n THEN x[1] \o seqs[x[2] + 1] ELSE x[1]]
           Is(f) == f = [i \in 1 .. n |-> IF i = 1 THEN seqs[i] ELSE f[i - 1] \o seqs[i]]
<1>0. n \in Nat \ {0} /\ \A i \in 1 .. n : seqs[i] \in Seq(V)
  BY LenProperties, ElementOfSeq
<1> HIDE DEF n
<1>1. step \in [Seq(V) \X Nat -> Seq(V)]
  <2>1. ASSUME NEW x \in Seq(V) \X Nat
        PROVE  (IF x[2] + 1 <= n THEN x[1] \o seqs[x[2] + 1] ELSE x[1]) \in Seq(V)
    <3>1. CASE x[2] + 1 <= n
      <4>1. seqs[x[2] + 1] \in Seq(V) /\ x[1] \in Seq(V)
        BY <1>0, <3>1
      <4>2. x[1] \o seqs[x[2] + 1] \in Seq(V)
        BY <4>1, ConcatProperties
      <4> QED BY <4>2, <3>1
    <3> QED BY <3>1
  <2> QED BY <2>1
<1>2. PICK g \in [0 .. n - 1 -> Seq(V)] :
        g[0] = seqs[1] /\ \A i \in 1 .. n - 1 : g[i] = step[<<g[i - 1], i>>]
  <2> HIDE DEF step
  <2>1. n - 1 \in Nat /\ seqs[1] \in Seq(V)
    BY <1>0
  <2>2. PICK g : Iterates(g, Seq(V), seqs[1], step, n - 1)
    BY <1>1, <2>1, Recursion
  <2> QED BY <2>2 DEF Iterates
<1>3. \A i \in 1 .. n - 1 : g[i] = g[i - 1] \o seqs[i + 1]
  <2> TAKE i \in 1 .. n - 1
  <2>1. i - 1 \in 0 .. n - 1 /\ i + 1 <= n /\ i \in Nat
    BY <1>0
  <2>2. g[i] = step[<<g[i - 1], i>>]
    BY <1>2, <2>1
  <2>3. <<g[i - 1], i>> \in Seq(V) \X Nat
    BY <1>2, <2>1
  <2> QED BY <2>1, <2>2, <2>3
<1> HIDE DEF step
<1> DEFINE h == [i \in 1 .. n |-> g[i - 1]]
<1>4. ASSUME NEW i \in 1 .. n PROVE h[i] = IF i = 1 THEN seqs[i] ELSE h[i - 1] \o seqs[i]
  <2>1. CASE i = 1
    BY <1>0, <1>2, <2>1
  <2>2. CASE i # 1
    <3>1. i - 1 \in 1 .. n - 1 /\ i - 1 \in 1 .. n /\ (i - 1) + 1 = i
      BY <2>2, <1>0
    <3>2. g[i - 1] = g[(i - 1) - 1] \o seqs[(i - 1) + 1]
      BY <3>1, <1>3
    <3>3. h[i] = g[i - 1] /\ h[i - 1] = g[(i - 1) - 1]
      BY <3>1
    <3> QED BY <2>2, <3>1, <3>2, <3>3
  <2> QED BY <2>1, <2>2
<1>5. Is(h)
  <2> HIDE DEF h
  <2>1. h = [i \in 1 .. n |-> h[i]]
    BY DEF h
  <2> QED BY <1>4, <2>1
<1> HIDE DEF h
<1>6. PICK f : Is(f) /\ FlattenSeq(seqs) = f[n]
  <2> DEFINE f == CHOOSE f : Is(f)
  <2>1. Is(f)
    <3> HIDE DEF Is
    <3> QED BY <1>5
  <2>2. FlattenSeq(seqs) = f[n]
    BY <1>0 DEF FlattenSeq, n
  <2> HIDE DEF f
  <2> QED BY <2>1, <2>2
<1>7. f[1] = seqs[1] /\ \A i \in 2 .. n : f[i] = f[i - 1] \o seqs[i]
  <2>1. \A i \in 1 .. n : f[i] = IF i = 1 THEN seqs[i] ELSE f[i - 1] \o seqs[i]
    BY <1>6
  <2>2. 1 \in 1 .. n /\ \A i \in 2 .. n : i \in 1 .. n /\ i # 1
    BY <1>0
  <2> QED BY <2>1, <2>2
<1>8. f \in [1 .. n -> Seq(V)]
  <2> DEFINE T == {m \in Nat : m < n => f[m + 1] \in Seq(V)}
  <2>1. 0 \in T
    BY <1>0, <1>7
  <2>2. ASSUME NEW m \in T PROVE m + 1 \in T
    <3>1. CASE m + 1 < n
      <4>1. f[m + 1] \in Seq(V) /\ seqs[m + 2] \in Seq(V) /\ m + 2 \in 2 .. n /\ (m + 2) - 1 = m + 1
        BY <1>0, <3>1
      <4>2. f[m + 2] = f[m + 1] \o seqs[m + 2]
        BY <4>1, <1>7
      <4>3. f[m + 1] \o seqs[m + 2] \in Seq(V)
        BY <4>1, ConcatProperties
      <4>4. (m + 1) + 1 = m + 2 /\ m + 1 \in Nat
        OBVIOUS
      <4> QED BY <4>2, <4>3, <4>4
    <3>2. CASE ~ (m + 1 < n)
      BY <3>2
    <3> QED BY <3>1, <3>2
  <2>3. T = Nat
    <3>1. T \in SUBSET Nat
      OBVIOUS
    <3> HIDE DEF T
    <3> QED BY <2>1, <2>2, <3>1, Induction
  <2>4. \A i \in 1 .. n : f[i] \in Seq(V)
    <3> TAKE i \in 1 .. n
    <3>1. i - 1 \in Nat /\ i - 1 < n /\ (i - 1) + 1 = i
      BY <1>0
    <3>2. i - 1 \in T
      BY <3>1, <2>3
    <3> QED BY <3>1, <3>2
  <2>5. f = [i \in 1 .. n |-> f[i]]
    BY <1>6
  <2> HIDE DEF T, Is
  <2> QED BY <2>4, <2>5
<1> HIDE DEF Is
<1> QED BY <1>6, <1>7, <1>8 DEF n

LEMMA FunctionSeq ==
  ASSUME NEW S, NEW n \in Nat, NEW f \in [1 .. n -> S]
  PROVE  f \in Seq(S) /\ Len(f) = n
OBVIOUS

(* Disjoint parts make a whole.                                            *)
LEMMA FlattenOnce ==
  ASSUME NEW n \in Nat, NEW seqs, DOMAIN seqs = 1 .. n, seqs = [i \in 1 .. n |-> seqs[i]],
         NEW R,
         \A i \in 1 .. n : Once(seqs[i], R[i]),
         \A i, j \in 1 .. n : i # j => R[i] \cap R[j] = {}
  PROVE  Once(FlattenSeq(seqs), UNION {R[i] : i \in 1 .. n})
<1> DEFINE V == UNION {R[i] : i \in 1 .. n}
           Upto(m) == UNION {R[i] : i \in 1 .. m}
<1>0. \A i \in 1 .. n : seqs[i] \in Seq(V)
  <2> TAKE i \in 1 .. n
  <2>1. R[i] \subseteq V /\ seqs[i] \in Seq(R[i])
    BY DEF Once
  <2> HIDE DEF V
  <2> QED BY <2>1
<1>1. seqs \in Seq(Seq(V)) /\ Len(seqs) = n
  <2>1. seqs \in [1 .. n -> Seq(V)]
    <3> HIDE DEF V
    <3> QED BY <1>0
  <2> HIDE DEF V
  <2> QED BY <2>1, FunctionSeq
<1>2. CASE n = 0
  <2>1. V = {}
    BY <1>2
  <2>2. FlattenSeq(seqs) = seqs
    BY <1>1, <1>2 DEF FlattenSeq
  <2>3. Once(seqs, {})
    <3>1. seqs \in Seq({}) /\ Len(seqs) = 0
      <4>1. seqs \in [1 .. n -> {}]
        BY <1>2
      <4> QED BY <4>1, <1>2, FunctionSeq
    <3> QED BY <3>1 DEF Once
  <2> QED BY <2>1, <2>2, <2>3
<1>3. CASE n > 0
  <2>1. PICK f \in [1 .. n -> Seq(V)] :
          /\ f[1] = seqs[1]
          /\ \A i \in 2 .. n : f[i] = f[i - 1] \o seqs[i]
          /\ FlattenSeq(seqs) = f[n]
    <3> HIDE DEF V
    <3> QED BY <1>1, <1>3, FlattenDef, ZenonT(40)
  <2> DEFINE T == {m \in Nat : m < n => Once(f[m + 1], Upto(m + 1))}
  <2>2. 0 \in T
    <3>1. f[0 + 1] = seqs[1] /\ 1 \in 1 .. n
      BY <2>1, <1>3
    <3>2. Upto(0 + 1) = R[1]
      OBVIOUS
    <3> HIDE DEF Upto
    <3> QED BY <3>1, <3>2
  <2>3. ASSUME NEW m \in T PROVE m + 1 \in T
    <3>1. CASE m + 1 < n
      <4>1. Once(f[m + 1], Upto(m + 1))
        BY <3>1
      <4>2. m \in Nat /\ m + 2 \in 2 .. n /\ (m + 2) - 1 = m + 1 /\ (m + 1) + 1 = m + 2
        BY <3>1
      <4>3. f[m + 2] = f[m + 1] \o seqs[m + 2]
        BY <2>1, <4>2
      <4>4. Upto(m + 1) \cap R[m + 2] = {}
        <5>1. \A i \in 1 .. m + 1 : i \in 1 .. n /\ m + 2 \in 1 .. n /\ i # m + 2
          BY <4>2
        <5>2. \A i \in 1 .. m + 1 : R[i] \cap R[m + 2] = {}
          BY <5>1
        <5> QED BY <5>2
      <4>5. Upto(m + 2) = Upto(m + 1) \cup R[m + 2]
        <5>1. 1 .. m + 2 = (1 .. m + 1) \cup {m + 2}
          BY <4>2
        <5> QED BY <5>1
      <4> HIDE DEF Upto
      <4>6. Once(seqs[m + 2], R[m + 2])
        BY <4>2
      <4>7. Once(f[m + 1] \o seqs[m + 2], Upto(m + 1) \cup R[m + 2])
        BY <4>1, <4>4, <4>6, ConcatOnce
      <4>8. Once(f[(m + 1) + 1], Upto((m + 1) + 1))
        BY <4>2, <4>3, <4>5, <4>7
      <4>9. m + 1 \in Nat
        BY <4>2
      <4> QED BY <4>8, <4>9
    <3>2. CASE ~ (m + 1 < n)
      BY <3>2
    <3> QED BY <3>1, <3>2
  <2>4. T = Nat
    <3>1. T \in SUBSET Nat
      OBVIOUS
    <3> HIDE DEF T
    <3> QED BY <2>2, <2>3, <3>1, Induction
  <2>5. n - 1 \in T /\ (n - 1) + 1 = n /\ n - 1 < n
    <3> HIDE DEF T
    <3> QED BY <2>4, <1>3
  <2>6. Once(f[n], Upto(n))
    <3> HIDE DEF Upto
    <3> QED BY <2>5
  <2> QED BY <2>1, <2>6
<1> QED BY <1>2, <1>3

(* Places in rows of w.                                                    *)
LEMMA PlaceBelow ==
  ASSUME NEW m \in Nat, NEW w \in Nat, NEW r \in 1 .. m, NEW c \in 1 .. w
  PROVE  (r - 1) * w + c \in 1 .. m * w
<1>1. r - 1 \in Nat /\ m - r \in Nat
  OBVIOUS
<1>2. (r - 1) * w \in Nat /\ (m - r) * w \in Nat
  BY <1>1
<1>3. m * w = (r - 1) * w + w + (m - r) * w
  OBVIOUS
<1> QED BY <1>2, <1>3

(* Sequences of one length lie one after the other.                        *)
Laid(s, seqs, n, w) ==
  Len(s) = n * w /\ \A r \in 1 .. n, c \in 1 .. w : s[(r - 1) * w + c] = seqs[r][c]

LEMMA FlattenBlocks ==
  ASSUME NEW n \in Nat \ {0}, NEW w \in Nat, NEW V, NEW seqs \in [1 .. n -> [1 .. w -> V]]
  PROVE  FlattenSeq(seqs) \in Seq(V) /\ Laid(FlattenSeq(seqs), seqs, n, w)
<1>1. \A i \in 1 .. n : seqs[i] \in Seq(V) /\ Len(seqs[i]) = w
  <2> TAKE i \in 1 .. n
  <2>1. seqs[i] \in [1 .. w -> V]
    OBVIOUS
  <2> QED BY <2>1, FunctionSeq
<1>2. seqs \in Seq(Seq(V)) /\ Len(seqs) = n
  <2>1. seqs \in [1 .. n -> Seq(V)]
    BY <1>1
  <2> QED BY <2>1, FunctionSeq
<1>3. PICK f \in [1 .. n -> Seq(V)] :
        /\ f[1] = seqs[1]
        /\ \A i \in 2 .. n : f[i] = f[i - 1] \o seqs[i]
        /\ FlattenSeq(seqs) = f[n]
  <2>1. Len(seqs) > 0
    BY <1>2
  <2>2. PICK f \in [1 .. Len(seqs) -> Seq(V)] :
          /\ f[1] = seqs[1]
          /\ \A i \in 2 .. Len(seqs) : f[i] = f[i - 1] \o seqs[i]
          /\ FlattenSeq(seqs) = f[Len(seqs)]
    BY <1>2, <2>1, FlattenDef
  <2> QED BY <1>2, <2>2
<1> DEFINE P(m) == /\ Len(f[m]) = m * w
                   /\ \A r \in 1 .. m, c \in 1 .. w : f[m][(r - 1) * w + c] = seqs[r][c]
           T == {m \in Nat : m < n => P(m + 1)}
<1>4. 0 \in T
  <2>1. f[1] = seqs[1] /\ 1 \in 1 .. n /\ Len(f[1]) = 1 * w
    BY <1>1, <1>3
  <2>2. ASSUME NEW r \in 1 .. 1, NEW c \in 1 .. w PROVE f[1][(r - 1) * w + c] = seqs[r][c]
    <3>1. r = 1 /\ (r - 1) * w + c = c
      OBVIOUS
    <3> QED BY <2>1, <3>1
  <2> QED BY <2>1, <2>2
<1>5. ASSUME NEW m \in T PROVE m + 1 \in T
  <2>1. CASE m + 1 < n
    <3>1. m \in Nat /\ m + 2 \in 2 .. n /\ m + 2 \in 1 .. n /\ (m + 2) - 1 = m + 1 /\ m + 1 \in 1 .. n
      BY <2>1
    <3>2. P(m + 1)
      BY <2>1, <3>1
    <3>3. f[m + 2] = f[m + 1] \o seqs[m + 2]
      BY <1>3, <3>1
    <3>4. PICK a, b : a = f[m + 1] /\ b = seqs[m + 2]
      OBVIOUS
    <3>5. /\ Len(a \o b) = Len(a) + Len(b)
          /\ \A i \in 1 .. Len(a) + Len(b) :
               (a \o b)[i] = IF i <= Len(a) THEN a[i] ELSE b[i - Len(a)]
      <4>1. a \in Seq(V) /\ b \in Seq(V)
        BY <1>1, <3>1, <3>4
      <4> QED BY ONLY <4>1, ConcatProperties
    <3>6. Len(a) = (m + 1) * w /\ Len(b) = w
      BY <1>1, <3>1, <3>2, <3>4
    <3> DEFINE l == (m + 1) * w
    <3>7. l \in Nat /\ l + w = (m + 2) * w
      BY <3>1
    <3>8. Len(f[m + 2]) = (m + 2) * w
      BY <3>3, <3>4, <3>5, <3>6, <3>7
    <3>9. ASSUME NEW r \in 1 .. m + 2, NEW c \in 1 .. w
          PROVE  f[m + 2][(r - 1) * w + c] = seqs[r][c]
      <4> DEFINE i == (r - 1) * w + c
      <4>1. CASE r = m + 2
        <5>0. i = l + c
          <6>1. r - 1 = m + 1
            BY <4>1, <3>1
          <6> QED BY <6>1
        <5> HIDE DEF l, i
        <5>1. i \in 1 .. l + w /\ ~ (i <= l) /\ i - l = c
          BY <5>0, <3>7
        <5> HIDE DEF i, l
        <5>2. (a \o b)[i] = b[c]
          BY <3>5, <3>6, <5>1 DEF l
        <5> QED BY <5>2, <3>3, <3>4, <4>1 DEF i
      <4>2. CASE r <= m + 1
        <5>1. r \in 1 .. m + 1
          BY <4>2, <3>1
        <5>2. i \in 1 .. l
          <6>1. m + 1 \in Nat
            BY <3>1
          <6> QED BY <5>1, <6>1, PlaceBelow
        <5>3. a[i] = seqs[r][c]
          BY <3>2, <3>4, <5>1
        <5> HIDE DEF i, l
        <5>4. (a \o b)[i] = a[i]
          BY <3>5, <3>6, <3>7, <5>2 DEF l
        <5> QED BY <5>3, <5>4, <3>3, <3>4 DEF i
      <4> QED BY <4>1, <4>2, <3>1
    <3>10. (m + 1) + 1 = m + 2 /\ m + 1 \in Nat
      BY <3>1
    <3> QED BY <3>8, <3>9, <3>10
  <2>2. CASE ~ (m + 1 < n)
    BY <2>2
  <2> QED BY <2>1, <2>2
<1>6. T = Nat
  <2>1. T \in SUBSET Nat
    OBVIOUS
  <2> HIDE DEF T
  <2> QED BY <1>4, <1>5, <2>1, Induction
<1>7. n - 1 \in T /\ (n - 1) + 1 = n /\ n - 1 < n
  <2> HIDE DEF T
  <2> QED BY <1>6
<1>8. P(n)
  <2> HIDE DEF P
  <2> QED BY <1>7
<1> QED BY <1>3, <1>8 DEF Laid

LEMMA FlattenType ==
  ASSUME NEW V, NEW seqs \in Seq(Seq(V))
  PROVE  FlattenSeq(seqs) \in Seq(V)
<1>1. CASE Len(seqs) = 0
  <2>1. FlattenSeq(seqs) = seqs /\ seqs = <<>>
    BY <1>1, EmptySeq DEF FlattenSeq
  <2> QED BY <2>1
<1>2. CASE Len(seqs) # 0
  <2>1. Len(seqs) > 0 /\ Len(seqs) \in 1 .. Len(seqs)
    BY <1>2, LenProperties
  <2>2. PICK f \in [1 .. Len(seqs) -> Seq(V)] : FlattenSeq(seqs) = f[Len(seqs)]
    BY <2>1, FlattenDef
  <2> QED BY <2>1, <2>2
<1> QED BY <1>1, <1>2

-------------------------------------------------------------------------------
(* Numbers.                                                                *)

LEMMA Division ==
  ASSUME NEW a \in Nat, NEW b \in Nat \ {0}
  PROVE  /\ a \div b \in Nat
         /\ (a \div b) * b <= a
         /\ a < (a \div b) * b + b
OBVIOUS

LEMMA PlaceUnique ==
  ASSUME NEW w \in Nat, NEW r \in Int, NEW q \in Int, NEW c \in 1 .. w, NEW e \in 1 .. w,
         (r - 1) * w + c = (q - 1) * w + e
  PROVE  r = q /\ c = e
<1>1. (r - q) * w = e - c
  <2>1. (r - 1) * w - (q - 1) * w = (r - q) * w
    OBVIOUS
  <2>2. (r - 1) * w \in Int /\ (q - 1) * w \in Int /\ (r - q) * w \in Int
    OBVIOUS
  <2> QED BY <2>1, <2>2
<1>2. CASE r - q >= 1
  <2>1. (r - q) * w >= w
    BY <1>2
  <2>2. (r - q) * w \in Int
    OBVIOUS
  <2> QED BY <2>1, <2>2, <1>1
<1>3. CASE r - q <= -1
  <2>1. (r - q) * w <= -w
    BY <1>3
  <2>2. (r - q) * w \in Int
    OBVIOUS
  <2> QED BY <2>1, <2>2, <1>1
<1>4. CASE r = q
  BY <1>4
<1> QED BY <1>2, <1>3, <1>4

LEMMA PlaceExists ==
  ASSUME NEW i \in Nat \ {0}, NEW w \in Nat \ {0}
  PROVE  \E r \in Nat \ {0}, c \in 1 .. w : i = (r - 1) * w + c
<1> DEFINE d == (i - 1) \div w
           c == i - d * w
<1>1. i - 1 \in Nat
  OBVIOUS
<1>2. d \in Nat /\ d * w <= i - 1 /\ i - 1 < d * w + w
  BY <1>1, Division
<1> HIDE DEF d
<1>3. d * w \in Nat
  BY <1>2
<1>4. c \in 1 .. w /\ i = ((d + 1) - 1) * w + c /\ d + 1 \in Nat \ {0}
  BY <1>2, <1>3
<1> QED BY <1>4

LEMMA MinIn ==
  ASSUME NEW T \in SUBSET Nat, T # {}
  PROVE  Min(T) \in T /\ \A n \in T : Min(T) <= n
<1>1. IsWellFoundedOn(OpToRel(<, Nat), Nat)
  BY NatLessThanWellFounded
<1>2. PICK m \in T : \A n \in T : ~ (<<n, m>> \in OpToRel(<, Nat))
  BY <1>1, WFMin
<1>3. \A n \in T : ~ (n < m)
  BY <1>2 DEF OpToRel
<1>4. \A n \in T : m <= n
  BY <1>3
<1> QED BY <1>4 DEF Min

LEMMA MaxOfTwo ==
  ASSUME NEW a \in Int, NEW b \in Int
  PROVE  Max({a, b}) = IF a >= b THEN a ELSE b
BY DEF Max

LEMMA MinOfTwo ==
  ASSUME NEW a \in Int, NEW b \in Int
  PROVE  Min({a, b}) = IF a <= b THEN a ELSE b
BY DEF Min

LEMMA TwoToGrows ==
  ASSUME NEW n \in Nat
  PROVE  TwoTo(n) \in Nat /\ TwoTo(n) > n /\ TwoTo(0) = 1
<1> DEFINE Is(m, f) == f = [i \in 0 .. m |-> IF i = 0 THEN 1 ELSE 2 * f[i - 1]]
           step == [x \in Nat \X Nat |-> 2 * x[1]]
<1>1. ASSUME NEW m \in Nat PROVE Is(m, CHOOSE f : Is(m, f))
  <2>1. step \in [Nat \X Nat -> Nat]
    OBVIOUS
  <2>2. PICK g : Iterates(g, Nat, 1, step, m)
    <3> HIDE DEF step
    <3>1. 1 \in Nat
      OBVIOUS
    <3> QED BY <2>1, <3>1, Recursion
  <2>3. g \in [0 .. m -> Nat] /\ g[0] = 1 /\ \A i \in 1 .. m : g[i] = step[<<g[i - 1], i>>]
    BY <2>2 DEF Iterates
  <2>4. \A i \in 1 .. m : g[i] = 2 * g[i - 1]
    <3> TAKE i \in 1 .. m
    <3>1. <<g[i - 1], i>> \in Nat \X Nat
      BY <2>3
    <3> QED BY <2>3, <3>1
  <2> HIDE DEF step
  <2>5. Is(m, g)
    BY <2>3, <2>4
  <2> HIDE DEF Is
  <2> QED BY <2>5
<1>2. ASSUME NEW m \in Nat, NEW f, Is(m, f)
      PROVE  f[0] = 1 /\ f[m] \in Nat /\ f[m] > m
  <2> DEFINE T == {i \in Nat : i <= m => f[i] \in Nat /\ f[i] > i}
  <2>1. f[0] = 1 /\ 0 \in T
    BY <1>2
  <2>2. ASSUME NEW i \in T PROVE i + 1 \in T
    <3>1. CASE i + 1 <= m
      <4>1. f[i] \in Nat /\ f[i] > i
        BY <3>1
      <4>2. i + 1 \in 0 .. m /\ i + 1 # 0 /\ (i + 1) - 1 = i
        BY <3>1
      <4>3. f[i + 1] = 2 * f[i]
        BY <1>2, <4>2
      <4> QED BY <4>1, <4>3
    <3> QED BY <3>1
  <2> HIDE DEF Is
  <2>3. T = Nat
    <3>1. T \in SUBSET Nat
      OBVIOUS
    <3> HIDE DEF T
    <3> QED BY <2>1, <2>2, <3>1, Induction
  <2>4. m \in T
    BY <2>3
  <2> QED BY <2>1, <2>4
<1>3. ASSUME NEW m \in Nat
      PROVE  TwoTo(m) = (CHOOSE f : Is(m, f))[m]
  BY DEF TwoTo
<1> HIDE DEF Is
<1>4. TwoTo(n) \in Nat /\ TwoTo(n) > n
  BY <1>1, <1>2, <1>3
<1>5. TwoTo(0) = 1
  BY <1>1, <1>2, <1>3
<1> QED BY <1>4, <1>5

LEMMA CeilLog2Type ==
  ASSUME NEW x \in Nat
  PROVE  CeilLog2(x) \in Nat \ {0}
<1>1. CASE x <= 2
  BY <1>1 DEF CeilLog2
<1>2. CASE x > 2
  <2> DEFINE Enough == {p \in 1 .. x : TwoTo(p) >= x}
             m == Min(Enough)
  <2>1. x \in Enough
    BY <1>2, TwoToGrows
  <2>2. m \in Enough /\ \A p \in Enough : m <= p
    <3>1. Enough \in SUBSET Nat /\ Enough # {}
      BY <2>1
    <3> HIDE DEF Enough
    <3> QED BY <3>1, MinIn
  <2> HIDE DEF m
  <2>3. TwoTo(m - 1) < x
    <3>1. CASE m = 1
      BY <3>1, <1>2, TwoToGrows
    <3>2. CASE m > 1
      <4>1. m - 1 \in 1 .. x /\ m - 1 \in Nat /\ m - 1 < m /\ m \in Nat
        BY <3>2, <2>2
      <4>2. TwoTo(m - 1) \in Nat
        BY <4>1, TwoToGrows
      <4>3. ~ (TwoTo(m - 1) >= x)
        BY <4>1, <2>2
      <4> QED BY <4>2, <4>3
    <3> QED BY <3>1, <3>2, <2>2
  <2>4. \E p \in 1 .. x : TwoTo(p) >= x /\ TwoTo(p - 1) < x
    BY <2>2, <2>3
  <2> DEFINE c == CHOOSE p \in 1 .. x : TwoTo(p) >= x /\ TwoTo(p - 1) < x
  <2>5. c \in 1 .. x
    BY <2>4
  <2>6. CeilLog2(x) = c
    BY <1>2 DEF CeilLog2
  <2> HIDE DEF c
  <2> QED BY <2>5, <2>6
<1> QED BY <1>1, <1>2

-------------------------------------------------------------------------------
(* Parts of a sequence.                                                    *)

(* What is at the places I of s.                                           *)
At(s, I) == {s[i] : i \in I}

LEMMA SubSeqOnce ==
  ASSUME NEW S, NEW s, Once(s, S), NEW a \in Nat \ {0}, NEW b \in Nat, b <= Len(s)
  PROVE  Once(SubSeq(s, a, b), At(s, a .. b))
<1> DEFINE P == At(s, a .. b)
           u == SubSeq(s, a, b)
<1>0. Len(s) \in Nat /\ \A i \in 1 .. Len(s) : s[i] \in S
  <2>1. s \in Seq(S)
    BY DEF Once
  <2> QED BY <2>1, LenProperties, ElementOfSeq
<1>1. \A i \in a .. b : s[i] \in P
  BY DEF At
<1>2. /\ u \in Seq(P)
      /\ Len(u) = IF a <= b THEN b - a + 1 ELSE 0
      /\ \A i \in 1 .. b - a + 1 : u[i] = s[a + i - 1]
  <2> HIDE DEF P
  <2>1. a \in Int /\ b \in Int
    OBVIOUS
  <2> QED BY <1>1, <2>1, SubSeqProperties
<1> HIDE DEF u
<1>3. ASSUME NEW i \in 1 .. Len(u), NEW j \in 1 .. Len(u), u[i] = u[j]
      PROVE  i = j
  <2>1. a <= b /\ i \in 1 .. b - a + 1 /\ j \in 1 .. b - a + 1
    BY <1>2
  <2>2. a + i - 1 \in 1 .. Len(s) /\ a + j - 1 \in 1 .. Len(s) /\ s[a + i - 1] = s[a + j - 1]
    BY <1>0, <1>2, <1>3, <2>1
  <2>3. a + i - 1 = a + j - 1
    BY <2>2 DEF Once
  <2> QED BY <2>3
<1>4. ASSUME NEW x \in P PROVE \E i \in 1 .. Len(u) : u[i] = x
  <2>1. PICK k \in a .. b : x = s[k]
    BY DEF At
  <2>2. k - a + 1 \in 1 .. Len(u) /\ u[k - a + 1] = x
    <3>1. k - a + 1 \in 1 .. b - a + 1 /\ a + (k - a + 1) - 1 = k /\ a <= b
      BY <2>1
    <3>2. u[k - a + 1] = s[a + (k - a + 1) - 1]
      BY <3>1, <1>2
    <3> QED BY <3>1, <3>2, <2>1, <1>2
  <2> QED BY <2>2
<1> HIDE DEF P
<1> QED BY <1>2, <1>3, <1>4 DEF Once, u, P

(* What comes before k + 1 and what comes from there.                      *)
LEMMA PartsDisjoint ==
  ASSUME NEW S, NEW s, Once(s, S),
         NEW I \in SUBSET (1 .. Len(s)), NEW J \in SUBSET (1 .. Len(s)), I \cap J = {}
  PROVE  At(s, I) \cap At(s, J) = {}
<1> SUFFICES ASSUME NEW i \in I, NEW j \in J, s[i] = s[j] PROVE FALSE
  BY DEF At
<1>1. i \in 1 .. Len(s) /\ j \in 1 .. Len(s)
  OBVIOUS
<1>2. i = j
  BY <1>1 DEF Once
<1> QED BY <1>2

LEMMA PartsUnion ==
  ASSUME NEW s, NEW I, NEW J
  PROVE  At(s, I) \cup At(s, J) = At(s, I \cup J)
BY DEF At

LEMMA PartsWhole ==
  ASSUME NEW S, NEW s, Once(s, S)
  PROVE  At(s, 1 .. Len(s)) = S
<1>1. \A i \in 1 .. Len(s) : s[i] \in S
  <2>1. s \in Seq(S)
    BY DEF Once
  <2> QED BY <2>1, ElementOfSeq
<1>2. \A x \in S : \E i \in 1 .. Len(s) : s[i] = x
  BY DEF Once
<1> QED BY <1>1, <1>2 DEF At

(* The strides by w, each up to the place `top`.                           *)
Places(q, w, n) == {(i - 1) * w + q : i \in 1 .. n}

LEMMA StrideOnce ==
  ASSUME NEW S, NEW s, Once(s, S), NEW w \in Nat \ {0}, NEW q \in 1 .. w, NEW n \in Nat,
         Places(q, w, n) \subseteq 1 .. Len(s)
  PROVE  Once(Stride(s, q, w, n), At(s, Places(q, w, n)))
<1> DEFINE P == At(s, Places(q, w, n))
           u == Stride(s, q, w, n)
<1>1. u \in [1 .. n -> P] /\ \A i \in 1 .. n : u[i] = s[(i - 1) * w + q]
  BY DEF Stride, Places, At
<1> HIDE DEF u
<1>2. u \in Seq(P) /\ Len(u) = n
  <2> HIDE DEF P
  <2> QED BY <1>1, FunctionSeq
<1>3. ASSUME NEW i \in 1 .. n, NEW j \in 1 .. n, u[i] = u[j]
      PROVE  i = j
  <2>1. (i - 1) * w + q \in 1 .. Len(s) /\ (j - 1) * w + q \in 1 .. Len(s)
    BY DEF Places
  <2>2. (i - 1) * w + q = (j - 1) * w + q
    <3>1. PICK a, b : a = (i - 1) * w + q /\ b = (j - 1) * w + q
      OBVIOUS
    <3>2. s[a] = s[b]
      BY <1>1, <1>3, <3>1
    <3> QED BY <2>1, <3>1, <3>2 DEF Once
  <2> QED BY <2>2, PlaceUnique
<1>4. ASSUME NEW x \in P PROVE \E i \in 1 .. n : u[i] = x
  BY <1>1 DEF Places, At
<1> HIDE DEF P
<1> QED BY <1>2, <1>3, <1>4 DEF Once, u, P

LEMMA StridesApart ==
  ASSUME NEW w \in Nat \ {0}, NEW q \in 1 .. w, NEW r \in 1 .. w, q # r, NEW n \in Nat, NEW m \in Nat
  PROVE  Places(q, w, n) \cap Places(r, w, m) = {}
<1> SUFFICES ASSUME NEW i \in 1 .. n, NEW j \in 1 .. m, (i - 1) * w + q = (j - 1) * w + r
             PROVE  FALSE
  BY DEF Places
<1> QED BY PlaceUnique

(* They are all places up to top.                                          *)
LEMMA StridesCover ==
  ASSUME NEW w \in Nat \ {0}, NEW top \in Nat, NEW n \in [1 .. w -> Nat],
         \A q \in 1 .. w, i \in Nat \ {0} : i <= n[q] <=> (i - 1) * w + q <= top
  PROVE  /\ \A q \in 1 .. w : Places(q, w, n[q]) \subseteq 1 .. top
         /\ UNION {Places(q, w, n[q]) : q \in 1 .. w} = 1 .. top
<1>1. ASSUME NEW q \in 1 .. w, NEW k \in Places(q, w, n[q]) PROVE k \in 1 .. top
  <2>1. PICK i \in 1 .. n[q] : k = (i - 1) * w + q
    BY DEF Places
  <2>2. i \in Nat \ {0} /\ i <= n[q] /\ i - 1 \in Nat
    BY <2>1
  <2>3. (i - 1) * w + q <= top
    BY <2>2
  <2>4. (i - 1) * w \in Nat
    BY <2>2
  <2> QED BY <2>1, <2>3, <2>4
<1>2. ASSUME NEW k \in 1 .. top PROVE \E q \in 1 .. w : k \in Places(q, w, n[q])
  <2>1. PICK i \in Nat \ {0}, q \in 1 .. w : k = (i - 1) * w + q
    <3>1. k \in Nat \ {0}
      OBVIOUS
    <3> QED BY <3>1, PlaceExists
  <2>2. i \in 1 .. n[q]
    <3>1. (i - 1) * w + q <= top /\ n[q] \in Nat
      BY <2>1
    <3>2. i <= n[q]
      BY <3>1, <2>1
    <3> QED BY <3>1, <3>2
  <2> QED BY <2>1, <2>2 DEF Places
<1> QED BY <1>1, <1>2

(* Parts that are each a part of R, side by side.                          *)
Listed(seqs, n)   == n \in Nat /\ DOMAIN seqs = 1 .. n /\ seqs = [i \in 1 .. n |-> seqs[i]]
Apart(seqs, R, n) == /\ \A i \in 1 .. n : Once(seqs[i], R[i])
                     /\ \A i, j \in 1 .. n : i # j => R[i] \cap R[j] = {}
Whole(R, n)       == UNION {R[i] : i \in 1 .. n}

LEMMA FlattenParts ==
  ASSUME NEW n, NEW seqs, NEW R, Listed(seqs, n), Apart(seqs, R, n)
  PROVE  Once(FlattenSeq(seqs), Whole(R, n))
<1>1. n \in Nat /\ DOMAIN seqs = 1 .. n /\ seqs = [i \in 1 .. n |-> seqs[i]]
  BY DEF Listed
<1>2. /\ \A i \in 1 .. n : Once(seqs[i], R[i])
      /\ \A i, j \in 1 .. n : i # j => R[i] \cap R[j] = {}
  BY DEF Apart
<1> QED BY <1>1, <1>2, FlattenOnce DEF Whole

(* Lane q has n[q] terms, up to the place `top`.                           *)
Reaches(n, w, top) ==
  /\ n \in [1 .. w -> Nat]
  /\ \A q \in 1 .. w, i \in Nat \ {0} : i <= n[q] <=> (i - 1) * w + q <= top

LaneParts(s, w, n) == [q \in 1 .. w |-> At(s, Places(q, w, n[q]))]

(* Lanes taken apart and worked on by themselves.                          *)
LEMMA LanesApart ==
  ASSUME NEW S, NEW s, Once(s, S), NEW w \in Nat \ {0}, NEW top \in Nat, top <= Len(s),
         NEW n, Reaches(n, w, top),
         NEW lane, \A q \in 1 .. w : Once(lane[q], At(s, Places(q, w, n[q])))
  PROVE  /\ Apart(lane, LaneParts(s, w, n), w)
         /\ Whole(LaneParts(s, w, n), w) = At(s, 1 .. top)
<1>r. PICK R : R = LaneParts(s, w, n) /\ R = [q \in 1 .. w |-> At(s, Places(q, w, n[q]))]
  BY DEF LaneParts
<1>n. /\ n \in [1 .. w -> Nat]
      /\ \A q \in 1 .. w, i \in Nat \ {0} : i <= n[q] <=> (i - 1) * w + q <= top
  BY DEF Reaches
<1>0. Len(s) \in Nat
  <2>1. s \in Seq(S)
    BY DEF Once
  <2> QED BY <2>1, LenProperties
<1>1. /\ \A q \in 1 .. w : Places(q, w, n[q]) \subseteq 1 .. top
      /\ UNION {Places(q, w, n[q]) : q \in 1 .. w} = 1 .. top
  BY <1>n, StridesCover
<1>2. \A i, j \in 1 .. w : i # j => R[i] \cap R[j] = {}
  <2> SUFFICES \A q, r \in 1 .. w : q # r => R[q] \cap R[r] = {}
    OBVIOUS
  <2> TAKE q, r \in 1 .. w
  <2> HAVE q # r
  <2>1. Places(q, w, n[q]) \cap Places(r, w, n[r]) = {}
    BY <1>n, StridesApart
  <2>2. Places(q, w, n[q]) \in SUBSET (1 .. Len(s)) /\ Places(r, w, n[r]) \in SUBSET (1 .. Len(s))
    BY <1>0, <1>1
  <2>3. R[q] = At(s, Places(q, w, n[q])) /\ R[r] = At(s, Places(r, w, n[r]))
    BY <1>r
  <2>4. At(s, Places(q, w, n[q])) \cap At(s, Places(r, w, n[r])) = {}
    BY <2>1, <2>2, PartsDisjoint
  <2> QED BY <2>3, <2>4
<1>3. \A i \in 1 .. w : Once(lane[i], R[i])
  BY <1>r
<1>4. UNION {R[i] : i \in 1 .. w} = At(s, 1 .. top)
  <2>1. ASSUME NEW x \in UNION {R[i] : i \in 1 .. w} PROVE x \in At(s, 1 .. top)
    <3>1. PICK q \in 1 .. w : x \in At(s, Places(q, w, n[q]))
      BY <1>r
    <3>2. PICK k \in Places(q, w, n[q]) : x = s[k]
      BY <3>1 DEF At
    <3>3. k \in 1 .. top
      BY <1>1, <3>2
    <3> QED BY <3>2, <3>3 DEF At
  <2>2. ASSUME NEW k \in 1 .. top PROVE s[k] \in UNION {R[i] : i \in 1 .. w}
    <3>1. PICK q \in 1 .. w : k \in Places(q, w, n[q])
      BY <1>1
    <3>2. s[k] \in R[q]
      BY <1>r, <3>1 DEF At
    <3> QED BY <3>2
  <2> QED BY <2>1, <2>2 DEF At
<1>5. Apart(lane, R, w)
  BY <1>2, <1>3 DEF Apart
<1> QED BY <1>r, <1>4, <1>5 DEF Whole

(* The lanes themselves are such.                                          *)
LEMMA StridesOnce ==
  ASSUME NEW S, NEW s, Once(s, S), NEW w \in Nat \ {0}, NEW top \in Nat, top <= Len(s),
         NEW n, Reaches(n, w, top), NEW q \in 1 .. w
  PROVE  Once(Stride(s, q, w, n[q]), At(s, Places(q, w, n[q])))
<1>1. /\ n \in [1 .. w -> Nat]
      /\ \A r \in 1 .. w, i \in Nat \ {0} : i <= n[r] <=> (i - 1) * w + r <= top
  BY DEF Reaches
<1>2. Places(q, w, n[q]) \subseteq 1 .. top
  BY <1>1, StridesCover
<1>3. Len(s) \in Nat
  <2>1. s \in Seq(S)
    BY DEF Once
  <2> QED BY <2>1, LenProperties
<1>4. Places(q, w, n[q]) \subseteq 1 .. Len(s) /\ n[q] \in Nat
  BY <1>1, <1>2, <1>3
<1> QED BY <1>4, StrideOnce

(* Put together they have everything up to there.                          *)
LEMMA LanesOnce ==
  ASSUME NEW S, NEW s, Once(s, S), NEW w \in Nat \ {0}, NEW top \in Nat, top <= Len(s),
         NEW n, Reaches(n, w, top),
         NEW lane, lane = [q \in 1 .. w |-> lane[q]],
         \A q \in 1 .. w : Once(lane[q], At(s, Places(q, w, n[q])))
  PROVE  Once(FlattenSeq(lane), At(s, 1 .. top))
<1>1. Apart(lane, LaneParts(s, w, n), w) /\ Whole(LaneParts(s, w, n), w) = At(s, 1 .. top)
  BY LanesApart
<1>2. w \in Nat /\ DOMAIN lane = 1 .. w
  OBVIOUS
<1>3. Listed(lane, w)
  BY <1>2 DEF Listed
<1>4. Once(FlattenSeq(lane), Whole(LaneParts(s, w, n), w))
  BY <1>1, <1>3, FlattenParts
<1> QED BY <1>1, <1>4

(* Lanes of whole vectors only.                                            *)
LEMMA WholeVectors ==
  ASSUME NEW l \in Nat, NEW w \in Nat \ {0}
  PROVE  /\ l \div w \in Nat
         /\ (l \div w) * w \in Nat
         /\ (l \div w) * w <= l
         /\ \A q \in 1 .. w, i \in Nat \ {0} : i <= l \div w <=> (i - 1) * w + q <= (l \div w) * w
<1> DEFINE v == l \div w
<1>1. v \in Nat /\ v * w <= l /\ v * w \in Nat
  BY Division
<1> HIDE DEF v
<1>2. ASSUME NEW q \in 1 .. w, NEW i \in Nat \ {0} PROVE i <= v <=> (i - 1) * w + q <= v * w
  <2>1. CASE i <= v
    <3>1. i \in 1 .. v
      BY <1>1, <2>1
    <3>2. (i - 1) * w + q \in 1 .. v * w
      BY <1>1, <3>1, PlaceBelow
    <3> QED BY <2>1, <3>2
  <2>2. CASE i > v
    <3>1. i - 1 - v \in Nat
      BY <1>1, <2>2
    <3>2. (i - 1 - v) * w \in Nat /\ (i - 1) * w = (i - 1 - v) * w + v * w
      BY <1>1, <3>1
    <3>3. (i - 1) * w + q > v * w
      BY <1>1, <3>2
    <3>4. (i - 1) * w + q \in Int
      BY <1>1, <3>2
    <3> QED BY <2>2, <3>3, <3>4, <1>1
  <2> QED BY <2>1, <2>2, <1>1
<1> QED BY <1>1, <1>2 DEF v

LEMMA WholeReaches ==
  ASSUME NEW l \in Nat, NEW w \in Nat \ {0}
  PROVE  Reaches([q \in 1 .. w |-> l \div w], w, (l \div w) * w)
<1>1. PICK v : v = l \div w
  OBVIOUS
<1>2. v \in Nat /\ \A q \in 1 .. w, i \in Nat \ {0} : i <= v <=> (i - 1) * w + q <= v * w
  BY <1>1, WholeVectors
<1>3. Reaches([q \in 1 .. w |-> v], w, v * w)
  BY <1>2 DEF Reaches
<1> QED BY <1>1, <1>3

-------------------------------------------------------------------------------
(* Accumulators, and what is spread over them.                             *)
Holds(acc, R, n, P) ==
  /\ DOMAIN acc = 0 .. n - 1
  /\ acc = [j \in 0 .. n - 1 |-> acc[j]]
  /\ \A j \in 0 .. n - 1 : Once(acc[j], R[j])
  /\ \A i, j \in 0 .. n - 1 : i # j => R[i] \cap R[j] = {}
  /\ \A j \in 0 .. n - 1 : R[j] \subseteq P
  /\ \A x \in P : \E j \in 0 .. n - 1 : x \in R[j]

Spread(acc, n, P) == \E R : Holds(acc, R, n, P)

LEMMA EmptySpread ==
  ASSUME NEW n \in Nat
  PROVE  Spread(Empty(n), n, {})
<1>1. PICK R : R = [j \in 0 .. n - 1 |-> {}]
  OBVIOUS
<1>2. Holds(Empty(n), R, n, {})
  BY <1>1, OnceEmpty DEF Holds, Empty
<1> QED BY <1>2 DEF Spread

LEMMA AddSpread ==
  ASSUME NEW n \in Nat \ {0}, NEW acc, NEW P, Spread(acc, n, P),
         NEW t, NEW T, Once(t, T), T \cap P = {}
  PROVE  Spread([acc EXCEPT ![0] = @ \o t], n, P \cup T)
<1>1. PICK R : Holds(acc, R, n, P)
  BY DEF Spread
<1>2. PICK Q : Q = [j \in 0 .. n - 1 |-> IF j = 0 THEN R[0] \cup T ELSE R[j]]
  OBVIOUS
<1>3. PICK new : new = [acc EXCEPT ![0] = @ \o t]
  OBVIOUS
<1>4. /\ DOMAIN new = 0 .. n - 1
      /\ new = [j \in 0 .. n - 1 |-> new[j]]
      /\ new[0] = acc[0] \o t
      /\ \A j \in 0 .. n - 1 : j # 0 => new[j] = acc[j]
  <2>1. DOMAIN acc = 0 .. n - 1 /\ acc = [j \in 0 .. n - 1 |-> acc[j]]
    BY <1>1 DEF Holds
  <2>2. new = [j \in 0 .. n - 1 |-> IF j = 0 THEN acc[0] \o t ELSE acc[j]]
    BY <1>3, <2>1
  <2>3. 0 \in 0 .. n - 1
    OBVIOUS
  <2> QED BY <2>2, <2>3
<1>5. \A j \in 0 .. n - 1 : Once(new[j], Q[j])
  <2> TAKE j \in 0 .. n - 1
  <2>1. CASE j = 0
    <3>1. Once(acc[0], R[0]) /\ R[0] \cap T = {}
      BY <1>1, <2>1 DEF Holds
    <3>2. Once(acc[0] \o t, R[0] \cup T)
      BY <3>1, ConcatOnce
    <3> QED BY <1>2, <1>4, <2>1, <3>2
  <2>2. CASE j # 0
    BY <1>1, <1>2, <1>4, <2>2 DEF Holds
  <2> QED BY <2>1, <2>2
<1>6. \A i, j \in 0 .. n - 1 : i # j => Q[i] \cap Q[j] = {}
  BY <1>1, <1>2 DEF Holds
<1>7. \A j \in 0 .. n - 1 : Q[j] \subseteq P \cup T
  BY <1>1, <1>2 DEF Holds
<1>8. \A x \in P \cup T : \E j \in 0 .. n - 1 : x \in Q[j]
  <2> TAKE x \in P \cup T
  <2>1. CASE x \in P
    <3>1. PICK j \in 0 .. n - 1 : x \in R[j]
      BY <1>1, <2>1 DEF Holds
    <3> QED BY <1>2, <3>1
  <2>2. CASE x \in T
    <3>1. 0 \in 0 .. n - 1 /\ x \in Q[0]
      BY <1>2, <2>2
    <3> QED BY <3>1
  <2> QED BY <2>1, <2>2
<1>9. Holds(new, Q, n, P \cup T)
  BY <1>4, <1>5, <1>6, <1>7, <1>8 DEF Holds
<1> QED BY <1>3, <1>9 DEF Spread

(* What levels 0 to d hold, put together from d down.                      *)
LEMMA HandOn ==
  ASSUME NEW n \in Nat, NEW acc, NEW R, NEW P, Holds(acc, R, n, P), NEW d \in 0 .. n - 1
  PROVE  Once(FlattenSeq([m \in 1 .. d + 1 |-> acc[d + 1 - m]]), UNION {R[j] : j \in 0 .. d})
<1>1. PICK Q : Q = [m \in 1 .. d + 1 |-> R[d + 1 - m]]
  OBVIOUS
<1>2. PICK seqs : seqs = [m \in 1 .. d + 1 |-> acc[d + 1 - m]]
  OBVIOUS
<1>3. Listed(seqs, d + 1)
  BY <1>2 DEF Listed
<1>4. Apart(seqs, Q, d + 1)
  <2>1. \A i \in 1 .. d + 1 : Once(seqs[i], Q[i])
    BY <1>1, <1>2 DEF Holds
  <2>2. ASSUME NEW i \in 1 .. d + 1, NEW j \in 1 .. d + 1, i # j PROVE Q[i] \cap Q[j] = {}
    <3>1. d + 1 - i \in 0 .. n - 1 /\ d + 1 - j \in 0 .. n - 1 /\ d + 1 - i # d + 1 - j
      BY <2>2
    <3> QED BY <1>1, <3>1 DEF Holds
  <2> QED BY <2>1, <2>2 DEF Apart
<1>5. Whole(Q, d + 1) = UNION {R[j] : j \in 0 .. d}
  <2>1. ASSUME NEW x, NEW i \in 1 .. d + 1, x \in Q[i] PROVE \E j \in 0 .. d : x \in R[j]
    <3>1. d + 1 - i \in 0 .. d /\ x \in R[d + 1 - i]
      BY <1>1, <2>1
    <3> QED BY <3>1
  <2>2. ASSUME NEW x, NEW j \in 0 .. d, x \in R[j] PROVE \E i \in 1 .. d + 1 : x \in Q[i]
    <3>1. d + 1 - j \in 1 .. d + 1 /\ d + 1 - (d + 1 - j) = j
      OBVIOUS
    <3>2. x \in Q[d + 1 - j]
      BY <1>1, <2>2, <3>1
    <3> QED BY <3>1, <3>2
  <2> QED BY <2>1, <2>2 DEF Whole
<1> QED BY <1>2, <1>3, <1>4, <1>5, FlattenParts

LEMMA FlushSpread ==
  ASSUME NEW n \in Nat, NEW acc, NEW P, Spread(acc, n, P), NEW d \in 0 .. n - 1
  PROVE  Spread(Flush(acc, d), n, P)
<1>1. PICK R : Holds(acc, R, n, P)
  BY DEF Spread
<1>2. PICK Q : Q = [j \in 0 .. n - 1 |->
                      IF j < d THEN {} ELSE IF j = d THEN UNION {R[i] : i \in 0 .. d} ELSE R[j]]
  OBVIOUS
<1>3. PICK new : new = Flush(acc, d)
  OBVIOUS
<1>4. DOMAIN acc = 0 .. n - 1
  BY <1>1 DEF Holds
<1>5. /\ DOMAIN new = 0 .. n - 1
      /\ new = [j \in 0 .. n - 1 |-> new[j]]
      /\ \A j \in 0 .. n - 1 : j < d => new[j] = <<>>
      /\ new[d] = FlattenSeq([m \in 1 .. d + 1 |-> acc[d + 1 - m]])
      /\ \A j \in 0 .. n - 1 : j > d => new[j] = acc[j]
  BY <1>3, <1>4 DEF Flush
<1>6. \A j \in 0 .. n - 1 : Once(new[j], Q[j])
  <2> TAKE j \in 0 .. n - 1
  <2>1. CASE j < d
    BY <1>2, <1>5, <2>1, OnceEmpty
  <2>2. CASE j = d
    BY <1>1, <1>2, <1>5, <2>2, HandOn
  <2>3. CASE j > d
    BY <1>1, <1>2, <1>5, <2>3 DEF Holds
  <2> QED BY <2>1, <2>2, <2>3
<1>7. ASSUME NEW i \in 0 .. n - 1, NEW j \in 0 .. n - 1, i # j, NEW x, x \in Q[i], x \in Q[j]
      PROVE  FALSE
  <2>1. PICK k \in 0 .. n - 1 : x \in R[k] /\ (IF i = d THEN k <= d ELSE k = i /\ k > d)
    BY <1>2, <1>7
  <2>2. PICK l \in 0 .. n - 1 : x \in R[l] /\ (IF j = d THEN l <= d ELSE l = j /\ l > d)
    BY <1>2, <1>7
  <2>3. k # l
    BY <1>7, <2>1, <2>2
  <2> QED BY <1>1, <2>1, <2>2, <2>3 DEF Holds
<1>8. \A i, j \in 0 .. n - 1 : i # j => Q[i] \cap Q[j] = {}
  BY <1>7
<1>9. \A j \in 0 .. n - 1 : Q[j] \subseteq P
  BY <1>1, <1>2 DEF Holds
<1>10. \A x \in P : \E j \in 0 .. n - 1 : x \in Q[j]
  <2> TAKE x \in P
  <2>1. PICK j \in 0 .. n - 1 : x \in R[j]
    BY <1>1 DEF Holds
  <2>2. CASE j <= d
    <3>1. x \in Q[d]
      BY <1>2, <2>1, <2>2
    <3> QED BY <3>1
  <2>3. CASE j > d
    BY <1>2, <2>1, <2>3
  <2> QED BY <2>2, <2>3
<1>11. Holds(new, Q, n, P)
  BY <1>5, <1>6, <1>8, <1>9, <1>10 DEF Holds
<1> QED BY <1>3, <1>11 DEF Spread

LEMMA TotalOnce ==
  ASSUME NEW n \in Nat, NEW acc, NEW P, Spread(acc, n, P)
  PROVE  Once(Total(acc), P)
<1>1. PICK R : Holds(acc, R, n, P)
  BY DEF Spread
<1>2. DOMAIN acc = 0 .. n - 1 /\ Cardinality(0 .. n - 1) = n
  <2>1. Cardinality(0 .. n - 1) = IF 0 > n - 1 THEN 0 ELSE (n - 1) - 0 + 1
    BY FS_Interval
  <2> QED BY <1>1, <2>1 DEF Holds
<1>3. PICK seqs : seqs = [m \in 1 .. n |-> acc[m - 1]]
  OBVIOUS
<1>4. PICK Q : Q = [m \in 1 .. n |-> R[m - 1]]
  OBVIOUS
<1>5. Listed(seqs, n)
  BY <1>3 DEF Listed
<1>6. Apart(seqs, Q, n)
  <2>1. \A i \in 1 .. n : Once(seqs[i], Q[i])
    BY <1>1, <1>3, <1>4 DEF Holds
  <2>2. ASSUME NEW i \in 1 .. n, NEW j \in 1 .. n, i # j PROVE Q[i] \cap Q[j] = {}
    <3>1. i - 1 \in 0 .. n - 1 /\ j - 1 \in 0 .. n - 1 /\ i - 1 # j - 1
      BY <2>2
    <3> QED BY <1>1, <1>4, <3>1 DEF Holds
  <2> QED BY <2>1, <2>2 DEF Apart
<1>7. Whole(Q, n) = P
  <2>1. ASSUME NEW i \in 1 .. n, NEW x \in Q[i] PROVE x \in P
    <3>1. i - 1 \in 0 .. n - 1
      OBVIOUS
    <3> QED BY <1>1, <1>4, <3>1 DEF Holds
  <2>2. ASSUME NEW x \in P PROVE \E i \in 1 .. n : x \in Q[i]
    <3>1. PICK j \in 0 .. n - 1 : x \in R[j]
      BY <1>1 DEF Holds
    <3>2. j + 1 \in 1 .. n /\ x \in Q[j + 1]
      BY <1>4, <3>1
    <3> QED BY <3>2
  <2> QED BY <2>1, <2>2 DEF Whole
<1>8. Total(acc) = FlattenSeq(seqs)
  BY <1>2, <1>3 DEF Total
<1> QED BY <1>5, <1>6, <1>7, <1>8, FlattenParts

-------------------------------------------------------------------------------
(* A counter of parts: each is added to level 0, which is flushed to the   *)
(* level D[b].                                                             *)
Fills(acc, n, steps, P, D) ==
  acc = [b \in 0 .. steps |->
          IF b = 0 THEN Empty(n) ELSE Flush([acc[b - 1] EXCEPT ![0] = @ \o P[b]], D[b])]

LEMMA FlushType ==
  ASSUME NEW S, NEW n \in Nat \ {0}, NEW x \in [0 .. n - 1 -> Seq(S)], NEW t \in Seq(S), NEW d \in 0 .. n - 1
  PROVE  Flush([x EXCEPT ![0] = @ \o t], d) \in [0 .. n - 1 -> Seq(S)]
<1>1. PICK y : y = [x EXCEPT ![0] = @ \o t]
  OBVIOUS
<1>2. y \in [0 .. n - 1 -> Seq(S)]
  <2>1. x[0] \in Seq(S)
    OBVIOUS
  <2>2. x[0] \o t \in Seq(S)
    BY <2>1
  <2> QED BY <1>1, <2>2
<1>3. PICK q : q = [m \in 1 .. d + 1 |-> y[d + 1 - m]]
  OBVIOUS
<1>4. q \in Seq(Seq(S))
  <2>1. q \in [1 .. d + 1 -> Seq(S)]
    BY <1>2, <1>3
  <2>2. d + 1 \in Nat
    OBVIOUS
  <2> QED BY <2>1, <2>2, FunctionSeq
<1>5. PICK f : f = FlattenSeq(q)
  OBVIOUS
<1>6. f \in Seq(S)
  BY <1>4, <1>5, FlattenType
<1>7. Flush(y, d) = [j \in 0 .. n - 1 |-> IF j < d THEN <<>> ELSE IF j = d THEN f ELSE y[j]]
  <2>1. DOMAIN y = 0 .. n - 1
    BY <1>2
  <2> QED BY <2>1, <1>3, <1>5 DEF Flush
<1>8. \A j \in 0 .. n - 1 : (IF j < d THEN <<>> ELSE IF j = d THEN f ELSE y[j]) \in Seq(S)
  <2>1. <<>> \in Seq(S)
    OBVIOUS
  <2> QED BY <1>2, <1>6, <2>1
<1>9. Flush(y, d) \in [0 .. n - 1 -> Seq(S)]
  BY <1>7, <1>8
<1> QED BY <1>1, <1>9

LEMMA FillsExists ==
  ASSUME NEW S, NEW n \in Nat \ {0}, NEW steps \in Nat,
         NEW P \in [1 .. steps -> Seq(S)], NEW D \in [1 .. steps -> 0 .. n - 1]
  PROVE  \E acc : Fills(acc, n, steps, P, D)
<1> DEFINE A == [0 .. n - 1 -> Seq(S)]
           turn(x, b) == Flush([x EXCEPT ![0] = @ \o P[b]], D[b])
           step == [x \in A \X Nat |-> IF x[2] \in 1 .. steps THEN turn(x[1], x[2]) ELSE x[1]]
<1>1. Empty(n) \in A
  BY DEF Empty
<1>2. ASSUME NEW x \in A, NEW b \in 1 .. steps PROVE turn(x, b) \in A
  <2>1. P[b] \in Seq(S) /\ D[b] \in 0 .. n - 1
    OBVIOUS
  <2> QED BY <2>1, FlushType
<1>4. ASSUME NEW g, g \in [0 .. steps -> A], g[0] = Empty(n),
             \A b \in 1 .. steps : g[b] = turn(g[b - 1], b)
      PROVE  Fills(g, n, steps, P, D)
  <2> SUFFICES g = [b \in 0 .. steps |-> IF b = 0 THEN Empty(n) ELSE turn(g[b - 1], b)]
    BY DEF Fills
  <2> HIDE DEF A, turn
  <2> QED BY <1>4
<1>5. step \in [A \X Nat -> A]
  <2> HIDE DEF A, turn
  <2> QED BY <1>2
<1>6. PICK g : Iterates(g, A, Empty(n), step, steps)
  <2> HIDE DEF A, step
  <2> QED BY <1>1, <1>5, Recursion
<1>7. g \in [0 .. steps -> A] /\ g[0] = Empty(n)
  BY <1>6 DEF Iterates
<1>8. \A b \in 1 .. steps : g[b] = turn(g[b - 1], b)
  <2> TAKE b \in 1 .. steps
  <2>1. g[b - 1] \in A /\ b \in Nat
    BY <1>7
  <2>2. g[b] = step[<<g[b - 1], b>>]
    BY <1>6 DEF Iterates
  <2> HIDE DEF A, turn
  <2> QED BY <2>1, <2>2
<1> HIDE DEF A, step, turn
<1> QED BY <1>4, <1>7, <1>8

(* It holds the parts so far.                                              *)
LEMMA FillsSpread ==
  ASSUME NEW n \in Nat \ {0}, NEW steps \in Nat, NEW P, NEW D \in [1 .. steps -> 0 .. n - 1],
         NEW R, Apart(P, R, steps), NEW acc, Fills(acc, n, steps, P, D)
  PROVE  Spread(acc[steps], n, Whole(R, steps))
<1> DEFINE T == {b \in Nat : b <= steps => Spread(acc[b], n, Whole(R, b))}
<1>1. 0 \in T
  <2>1. Whole(R, 0) = {}
    BY DEF Whole
  <2>2. acc[0] = Empty(n)
    BY DEF Fills
  <2>3. Spread(Empty(n), n, {})
    BY EmptySpread
  <2> QED BY <2>1, <2>2, <2>3
<1>2. ASSUME NEW b \in Nat, b \in T PROVE b + 1 \in T
  <2> SUFFICES ASSUME b + 1 <= steps PROVE Spread(acc[b + 1], n, Whole(R, b + 1))
    OBVIOUS
  <2>1. b + 1 \in 1 .. steps /\ b + 1 \in 0 .. steps /\ b + 1 # 0 /\ (b + 1) - 1 = b
    OBVIOUS
  <2>2. Spread(acc[b], n, Whole(R, b))
    BY <1>2, <2>1
  <2>3. Once(P[b + 1], R[b + 1])
    BY <2>1 DEF Apart
  <2>4. R[b + 1] \cap Whole(R, b) = {}
    <3>1. \A i \in 1 .. b : i \in 1 .. steps /\ i # b + 1
      BY <2>1
    <3>2. \A i \in 1 .. b : R[i] \cap R[b + 1] = {}
      BY <2>1, <3>1 DEF Apart
    <3> QED BY <3>2 DEF Whole
  <2>5. Spread([acc[b] EXCEPT ![0] = @ \o P[b + 1]], n, Whole(R, b) \cup R[b + 1])
    BY <2>2, <2>3, <2>4, AddSpread
  <2>6. D[b + 1] \in 0 .. n - 1
    BY <2>1
  <2>7. Spread(Flush([acc[b] EXCEPT ![0] = @ \o P[b + 1]], D[b + 1]), n, Whole(R, b) \cup R[b + 1])
    BY <2>5, <2>6, FlushSpread
  <2>8. acc[b + 1] = Flush([acc[b] EXCEPT ![0] = @ \o P[b + 1]], D[b + 1])
    <3>1. acc[b + 1] = Flush([acc[(b + 1) - 1] EXCEPT ![0] = @ \o P[b + 1]], D[b + 1])
      BY <2>1 DEF Fills
    <3> QED BY <2>1, <3>1
  <2>9. Whole(R, b) \cup R[b + 1] = Whole(R, b + 1)
    <3>1. ASSUME NEW x PROVE x \in Whole(R, b) \cup R[b + 1] <=> x \in Whole(R, b + 1)
      <4>1. x \in Whole(R, b) <=> \E i \in 1 .. b : x \in R[i]
        BY DEF Whole
      <4>2. x \in Whole(R, b + 1) <=> \E i \in 1 .. b + 1 : x \in R[i]
        BY DEF Whole
      <4>3. \A i : i \in 1 .. b + 1 <=> i \in 1 .. b \/ i = b + 1
        OBVIOUS
      <4> QED BY <4>1, <4>2, <4>3
    <3> QED BY <3>1
  <2> QED BY <2>7, <2>8, <2>9
<1>3. T = Nat
  <2>1. T \in SUBSET Nat
    OBVIOUS
  <2>2. \A b \in T : b + 1 \in T
    <3> TAKE b \in T
    <3>1. b \in Nat
      OBVIOUS
    <3> HIDE DEF T
    <3> QED BY <1>2, <3>1
  <2> HIDE DEF T
  <2> QED BY <1>1, <2>1, <2>2, Induction
<1>4. steps \in T
  BY <1>3
<1> QED BY <1>4

(* Chunks of w of a sequence, the last one of what is left.                *)
Chunked(P, high, s, w, m, top) ==
  /\ \A b \in 1 .. m : high[b] = IF top <= b * w THEN top ELSE b * w
  /\ \A b \in 1 .. m : P[b] = SubSeq(s, (b - 1) * w + 1, high[b])

Parted(P, m, s, top) == \E R : Apart(P, R, m) /\ Whole(R, m) = At(s, 1 .. top)

LEMMA Chunks ==
  ASSUME NEW S, NEW s, Once(s, S), NEW w \in Nat \ {0}, NEW m \in Nat,
         NEW top \in 0 .. Len(s), top <= m * w,
         NEW high, NEW P, Chunked(P, high, s, w, m, top)
  PROVE  Parted(P, m, s, top)
<1>0. /\ \A b \in 1 .. m : high[b] = IF top <= b * w THEN top ELSE b * w
      /\ \A b \in 1 .. m : P[b] = SubSeq(s, (b - 1) * w + 1, high[b])
  BY DEF Chunked
<1>1. PICK R : R = [b \in 1 .. m |-> At(s, (b - 1) * w + 1 .. high[b])]
  OBVIOUS
<1>2. s \in Seq(S) /\ Len(s) \in Nat /\ top \in Nat /\ top <= Len(s)
  <2>1. s \in Seq(S)
    BY DEF Once
  <2> QED BY <2>1, LenProperties
<1>3. \A b \in 1 .. m : /\ (b - 1) * w \in Nat /\ b * w \in Nat /\ b * w = (b - 1) * w + w
                        /\ high[b] \in Nat /\ high[b] <= top /\ high[b] <= b * w
  <2> TAKE b \in 1 .. m
  <2>1. b \in Nat /\ b - 1 \in Nat
    OBVIOUS
  <2>2. (b - 1) * w \in Nat /\ b * w \in Nat /\ b * w = (b - 1) * w + w
    BY <2>1
  <2> QED BY <1>0, <1>2, <2>2, SMTT(30)
<1>4. \A i \in 1 .. m : Once(P[i], R[i])
  <2> TAKE i \in 1 .. m
  <2>1. (i - 1) * w + 1 \in Nat \ {0} /\ high[i] \in Nat /\ high[i] <= Len(s)
    <3>1. (i - 1) * w \in Nat /\ high[i] \in Nat /\ high[i] <= top
      BY <1>3
    <3>2. \A x \in Nat : x + 1 \in Nat \ {0}
      OBVIOUS
    <3> QED BY <1>2, <3>1, <3>2
  <2>2. Once(SubSeq(s, (i - 1) * w + 1, high[i]), At(s, (i - 1) * w + 1 .. high[i]))
    BY <2>1, SubSeqOnce
  <2> QED BY <1>0, <1>1, <2>2
<1>5. \A i, j \in 1 .. m : i < j => R[i] \cap R[j] = {}
  <2> TAKE i, j \in 1 .. m
  <2> HAVE i < j
  <2>1. high[i] <= (j - 1) * w
    <3>1. j - 1 - i \in Nat
      OBVIOUS
    <3>2. (j - 1 - i) * w \in Nat /\ (j - 1 - i) * w = (j - 1) * w - i * w
      BY <3>1
    <3>3. PICK x : x = i * w
      OBVIOUS
    <3>4. PICK y : y = (j - 1) * w
      OBVIOUS
    <3>5. x \in Nat /\ y \in Nat /\ high[i] \in Nat /\ high[i] <= x
      BY <1>3, <3>3, <3>4
    <3>6. y - x \in Nat
      BY <3>2, <3>3, <3>4
    <3>7. high[i] <= y
      BY <3>5, <3>6
    <3> QED BY <3>4, <3>7
  <2>2. PICK low : low = (i - 1) * w
    OBVIOUS
  <2>3. PICK next : next = (j - 1) * w
    OBVIOUS
  <2>4. low \in Nat /\ next \in Nat /\ high[i] \in Nat /\ high[j] \in Nat
        /\ high[i] <= next /\ high[i] <= Len(s) /\ high[j] <= Len(s)
    <3>1. low \in Nat /\ next \in Nat
      BY <1>3, <2>2, <2>3
    <3>2. high[i] \in Nat /\ high[j] \in Nat /\ high[i] <= top /\ high[j] <= top
      BY <1>3
    <3>3. high[i] <= next
      BY <2>1, <2>3
    <3> QED BY <1>2, <3>1, <3>2, <3>3
  <2>5. (low + 1 .. high[i]) \in SUBSET (1 .. Len(s)) /\ (next + 1 .. high[j]) \in SUBSET (1 .. Len(s))
    <3>1. ASSUME NEW a \in Nat, NEW z \in Nat, z <= Len(s) PROVE (a + 1 .. z) \in SUBSET (1 .. Len(s))
      BY ONLY <1>2, <3>1
    <3> QED BY <2>4, <3>1
  <2>6. (low + 1 .. high[i]) \cap (next + 1 .. high[j]) = {}
    BY <2>4
  <2>7. At(s, low + 1 .. high[i]) \cap At(s, next + 1 .. high[j]) = {}
    BY <2>5, <2>6, PartsDisjoint
  <2> QED BY <1>1, <2>2, <2>3, <2>7
<1>6. Apart(P, R, m)
  <2>1. ASSUME NEW i \in 1 .. m, NEW j \in 1 .. m, i # j PROVE R[i] \cap R[j] = {}
    <3>1. CASE i < j
      BY <1>5, <3>1
    <3>2. CASE j < i
      BY <1>5, <3>2
    <3> QED BY <2>1, <3>1, <3>2
  <2> QED BY <1>4, <2>1 DEF Apart
<1>7. ASSUME NEW b \in 1 .. m, NEW x \in R[b] PROVE x \in At(s, 1 .. top)
  <2>1. PICK i \in (b - 1) * w + 1 .. high[b] : x = s[i]
    BY <1>1 DEF At
  <2>2. i \in 1 .. top
    <3>1. (b - 1) * w \in Nat /\ high[b] \in Nat /\ high[b] <= top
      BY <1>3
    <3> QED BY <2>1, <3>1
  <2> QED BY <2>1, <2>2 DEF At
<1>8. ASSUME NEW i \in 1 .. top PROVE \E b \in 1 .. m : s[i] \in R[b]
  <2>1. i \in Nat \ {0}
    OBVIOUS
  <2>2. PICK r \in Nat \ {0}, c \in 1 .. w : i = (r - 1) * w + c
    BY <2>1, PlaceExists
  <2>3. r \in 1 .. m
    <3>1. SUFFICES ASSUME r > m PROVE FALSE
      BY <2>2
    <3>2. r - 1 - m \in Nat
      BY <2>2, <3>1
    <3>3. (r - 1 - m) * w \in Nat /\ (r - 1) * w = (r - 1 - m) * w + m * w
      BY <2>2, <3>2
    <3>4. PICK low : low = (r - 1) * w
      OBVIOUS
    <3>5. PICK all : all = m * w
      OBVIOUS
    <3>6. low \in Nat /\ all \in Nat /\ low >= all
      BY <3>3, <3>4, <3>5
    <3>7. i = low + c /\ i <= top /\ top <= all
      BY <2>2, <3>4, <3>5
    <3> QED BY ONLY <1>2, <2>2, <3>6, <3>7
  <2>4. i \in (r - 1) * w + 1 .. high[r]
    <3>1. high[r] = IF top <= r * w THEN top ELSE r * w
      BY <1>0, <2>3
    <3>2. (r - 1) * w \in Nat /\ r * w \in Nat /\ r * w = (r - 1) * w + w
      BY <1>3, <2>3
    <3>3. i <= r * w /\ i >= (r - 1) * w + 1
      BY <2>2, <3>2
    <3>4. i <= high[r] /\ high[r] \in Nat
      BY <1>2, <3>1, <3>2, <3>3
    <3> QED BY <3>2, <3>3, <3>4
  <2>5. s[i] \in R[r]
    BY <1>1, <2>3, <2>4 DEF At
  <2> QED BY <2>3, <2>5
<1>9. Whole(R, m) = At(s, 1 .. top)
  <2>1. \A x : x \in Whole(R, m) <=> \E b \in 1 .. m : x \in R[b]
    BY DEF Whole
  <2>2. \A x : x \in At(s, 1 .. top) <=> \E i \in 1 .. top : x = s[i]
    BY DEF At
  <2>3. \A b \in 1 .. m : \A x \in R[b] : x \in At(s, 1 .. top)
    BY <1>7
  <2>4. \A i \in 1 .. top : \E b \in 1 .. m : s[i] \in R[b]
    BY <1>8
  <2>5. \A x \in Whole(R, m) : x \in At(s, 1 .. top)
    BY <2>1, <2>3
  <2>6. ASSUME NEW x \in At(s, 1 .. top) PROVE x \in Whole(R, m)
    <3>1. PICK i \in 1 .. top : x = s[i]
      BY <2>2
    <3>2. PICK b \in 1 .. m : s[i] \in R[b]
      BY <2>4
    <3> QED BY <2>1, <3>1, <3>2
  <2> QED BY <2>5, <2>6
<1> QED BY <1>6, <1>9 DEF Parted

LEMMA MinPlace ==
  ASSUME NEW n \in Nat \ {0}, NEW T \in SUBSET (0 .. n - 1)
  PROVE  Min(T \cup {n - 1}) \in 0 .. n - 1
<1>1. T \cup {n - 1} \in SUBSET Nat /\ T \cup {n - 1} # {}
  OBVIOUS
<1>2. Min(T \cup {n - 1}) \in T \cup {n - 1}
  BY <1>1, MinIn
<1>3. \A x \in T \cup {n - 1} : x \in 0 .. n - 1
  OBVIOUS
<1> QED BY <1>2, <1>3

-------------------------------------------------------------------------------
(* The reductions.                                                         *)
LEMMA OnceType ==
  ASSUME NEW S, NEW s, Once(s, S)
  PROVE  s \in Seq(S) /\ Len(s) \in Nat
<1>1. s \in Seq(S)
  BY DEF Once
<1> QED BY <1>1, LenProperties

LEMMA OncePlaces ==
  ASSUME NEW S, NEW s, Once(s, S), NEW k \in 0 .. Len(s)
  PROVE  /\ Once(SubSeq(s, k + 1, Len(s)), At(s, k + 1 .. Len(s)))
         /\ At(s, k + 1 .. Len(s)) \cap At(s, 1 .. k) = {}
         /\ At(s, 1 .. k) \cup At(s, k + 1 .. Len(s)) = S
<1>1. Len(s) \in Nat /\ k \in Nat /\ k <= Len(s)
  BY OnceType
<1>2. Once(SubSeq(s, k + 1, Len(s)), At(s, k + 1 .. Len(s)))
  <2>1. k + 1 \in Nat \ {0} /\ Len(s) <= Len(s)
    BY <1>1
  <2> QED BY <1>1, <2>1, SubSeqOnce
<1>3. (k + 1 .. Len(s)) \in SUBSET (1 .. Len(s)) /\ (1 .. k) \in SUBSET (1 .. Len(s))
  BY <1>1
<1>4. (k + 1 .. Len(s)) \cap (1 .. k) = {}
  BY <1>1
<1>5. (1 .. k) \cup (k + 1 .. Len(s)) = 1 .. Len(s)
  BY <1>1
<1>6. At(s, 1 .. k) \cup At(s, k + 1 .. Len(s)) = At(s, (1 .. k) \cup (k + 1 .. Len(s)))
  BY PartsUnion
<1> QED BY <1>2, <1>3, <1>4, <1>5, <1>6, PartsDisjoint, PartsWhole

LEMMA CascadeOnce ==
  ASSUME KernelAssumption, NEW S, NEW s, Once(s, S)
  PROVE  Once(Cascade(s), S)
<1> DEFINE p     == Max({MinPower, CeilLog2(Len(s)) \div Levels})
           width == TwoTo(p)
           steps == Len(s) \div width
           open(i) == {j \in 1 .. Levels - 1 : (i \div TwoTo(j * p)) % width # 0}
           d(b)  == Min(open(b * width) \cup {Levels - 1})
           part(b) == SubSeq(s, (b - 1) * width + 1, b * width)
           Is(acc) == acc = [b \in 0 .. steps |->
                        IF b = 0 THEN Empty(Levels)
                        ELSE Flush([acc[b - 1] EXCEPT ![0] = @ \o part(b)], d(b))]
           Acc   == CHOOSE acc : Is(acc)
<1>1. s \in Seq(S) /\ Len(s) \in Nat
  BY OnceType
<1>2. Levels \in Nat \ {0, 1} /\ MinPower \in Nat \ {0}
  BY DEF KernelAssumption
<1>3. p \in Nat
  <2>1. CeilLog2(Len(s)) \in Nat
    BY <1>1, CeilLog2Type
  <2>2. CeilLog2(Len(s)) \div Levels \in Nat
    BY <1>2, <2>1, Division
  <2> QED BY <1>2, <2>2, MaxOfTwo
<1>4. width \in Nat \ {0}
  <2> HIDE DEF p
  <2>1. TwoTo(p) \in Nat /\ TwoTo(p) > p
    BY <1>3, TwoToGrows
  <2> QED BY <1>3, <2>1
<1>5. Cascade(s) = Total([Acc[steps] EXCEPT ![0] = @ \o SubSeq(s, steps * width + 1, Len(s))])
  BY DEF Cascade
<1> HIDE DEF width, p
<1>6. steps \in Nat /\ steps * width <= Len(s) /\ steps * width \in Nat
  <2>1. steps \in Nat /\ steps * width <= Len(s)
    BY <1>1, <1>4, Division
  <2> HIDE DEF steps
  <2> QED BY <1>4, <2>1
<1> HIDE DEF steps
<1>7. \A b \in 1 .. steps : d(b) \in 0 .. Levels - 1
  <2> TAKE b \in 1 .. steps
  <2>1. open(b * width) \in SUBSET (0 .. Levels - 1)
    BY <1>2
  <2> HIDE DEF open
  <2> QED BY <1>2, <2>1, MinPlace
<1> HIDE DEF d
<1>8. PICK P : P = [b \in 1 .. steps |-> part(b)]
  OBVIOUS
<1>9. PICK D : D = [b \in 1 .. steps |-> d(b)]
  OBVIOUS
<1>10. D \in [1 .. steps -> 0 .. Levels - 1]
  BY <1>7, <1>9
<1>11. PICK R : Apart(P, R, steps) /\ Whole(R, steps) = At(s, 1 .. steps * width)
  <2>1. PICK high : high = [b \in 1 .. steps |-> b * width]
    OBVIOUS
  <2>2. \A b \in 1 .. steps : high[b] = IF steps * width <= b * width THEN steps * width ELSE b * width
    <3> TAKE b \in 1 .. steps
    <3>1. steps - b \in Nat
      BY <1>6
    <3>2. (steps - b) * width \in Nat /\ (steps - b) * width = steps * width - b * width
      BY <1>4, <1>6, <3>1
    <3>3. b * width \in Nat
      BY <1>4
    <3> QED BY <1>6, <2>1, <3>2, <3>3
  <2>3. \A b \in 1 .. steps : P[b] = SubSeq(s, (b - 1) * width + 1, high[b])
    BY <1>8, <2>1
  <2>4. steps * width \in 0 .. Len(s) /\ steps * width <= steps * width
    BY <1>1, <1>6
  <2>5. PICK top : top = steps * width
    OBVIOUS
  <2>6. top \in 0 .. Len(s) /\ top <= steps * width
    BY <2>4, <2>5
  <2>7. \A b \in 1 .. steps : high[b] = IF top <= b * width THEN top ELSE b * width
    BY <2>2, <2>5
  <2>8. Chunked(P, high, s, width, steps, top)
    BY <2>3, <2>7 DEF Chunked
  <2>9. Parted(P, steps, s, top)
    BY <1>4, <1>6, <2>6, <2>8, Chunks
  <2> QED BY <2>5, <2>9 DEF Parted
<1>12. P \in [1 .. steps -> Seq(S)]
  <2>1. \A b \in 1 .. steps : P[b] \in Seq(S)
    <3> TAKE b \in 1 .. steps
    <3>1. Once(P[b], R[b]) /\ R[b] \subseteq At(s, 1 .. steps * width)
      BY <1>11 DEF Apart, Whole
    <3>2. P[b] \in Seq(R[b])
      BY <3>1 DEF Once
    <3>3. R[b] \subseteq S
      <4>1. At(s, 1 .. steps * width) \subseteq S
        <5>1. steps * width \in 0 .. Len(s)
          BY <1>1, <1>6
        <5> QED BY <5>1, OncePlaces
      <4> QED BY <3>1, <4>1
    <3> QED BY <3>2, <3>3
  <2> HIDE DEF part
  <2> QED BY <1>8, <2>1
<1>13. \A acc : Is(acc) <=> Fills(acc, Levels, steps, P, D)
  <2> TAKE acc
  <2>1. [b \in 0 .. steps |-> IF b = 0 THEN Empty(Levels)
           ELSE Flush([acc[b - 1] EXCEPT ![0] = @ \o part(b)], d(b))]
        = [b \in 0 .. steps |-> IF b = 0 THEN Empty(Levels)
           ELSE Flush([acc[b - 1] EXCEPT ![0] = @ \o P[b]], D[b])]
    <3> HIDE DEF part
    <3>1. \A b \in 0 .. steps : b # 0 => P[b] = part(b) /\ D[b] = d(b)
      <4> TAKE b \in 0 .. steps
      <4> HAVE b # 0
      <4>1. b \in 1 .. steps
        BY <1>6
      <4> QED BY <1>8, <1>9, <4>1
    <3> QED BY <3>1
  <2> QED BY <2>1 DEF Fills
<1>14. Fills(Acc, Levels, steps, P, D)
  <2>1. \E acc : Fills(acc, Levels, steps, P, D)
    BY <1>2, <1>6, <1>10, <1>12, FillsExists
  <2>2. \E acc : Is(acc)
    BY <1>13, <2>1
  <2> HIDE DEF Is
  <2>3. Is(Acc)
    BY <2>2
  <2> QED BY <1>13, <2>3
<1> HIDE DEF Acc
<1>15. Spread(Acc[steps], Levels, Whole(R, steps))
  BY <1>2, <1>6, <1>10, <1>11, <1>14, FillsSpread
<1> DEFINE tail == SubSeq(s, steps * width + 1, Len(s))
           N == At(s, steps * width + 1 .. Len(s))
<1>16. Once(tail, N) /\ N \cap Whole(R, steps) = {} /\ Whole(R, steps) \cup N = S
  <2>1. steps * width \in 0 .. Len(s)
    BY <1>1, <1>6
  <2> QED BY <1>11, <2>1, OncePlaces
<1> HIDE DEF N, tail
<1>17. Spread([Acc[steps] EXCEPT ![0] = @ \o tail], Levels, Whole(R, steps) \cup N)
  BY <1>2, <1>15, <1>16, AddSpread
<1>18. Once(Total([Acc[steps] EXCEPT ![0] = @ \o tail]), Whole(R, steps) \cup N)
  BY <1>2, <1>17, TotalOnce
<1>19. Cascade(s) = Total([Acc[steps] EXCEPT ![0] = @ \o tail])
  BY <1>5 DEF tail
<1> QED BY <1>16, <1>18, <1>19

LEMMA RowSumOnce ==
  ASSUME KernelAssumption, NEW S, NEW s, Once(s, S)
  PROVE  Once(RowSum(s), S)
<1> DEFINE size == Len(s) \div Ilp
           partial(q) == Cascade(Stride(s, q, Ilp, size))
<1>1. Len(s) \in Nat /\ Ilp \in Nat \ {0}
  BY OnceType DEF KernelAssumption
<1>2. size * Ilp \in Nat /\ size * Ilp <= Len(s)
  BY <1>1, WholeVectors
<1>3. PICK n : n = [q \in 1 .. Ilp |-> size]
  OBVIOUS
<1>4. Reaches(n, Ilp, size * Ilp)
  BY <1>1, <1>3, WholeReaches
<1>5. RowSum(s) = partial(1) \o SubSeq(s, size * Ilp + 1, Len(s)) \o FlattenSeq([q \in 1 .. Ilp - 1 |-> partial(q + 1)])
  BY DEF RowSum
<1> HIDE DEF size
<1>6. PICK lane : lane = [q \in 1 .. Ilp |-> partial(q)]
  OBVIOUS
<1>7. \A q \in 1 .. Ilp : Once(lane[q], At(s, Places(q, Ilp, n[q])))
  <2> TAKE q \in 1 .. Ilp
  <2>1. Once(Stride(s, q, Ilp, n[q]), At(s, Places(q, Ilp, n[q])))
    BY <1>1, <1>2, <1>4, StridesOnce
  <2>2. n[q] = size /\ lane[q] = Cascade(Stride(s, q, Ilp, size))
    BY <1>3, <1>6
  <2> QED BY <2>1, <2>2, CascadeOnce
<1>8. PICK R : R = LaneParts(s, Ilp, n)
  OBVIOUS
<1>9. Apart(lane, R, Ilp) /\ Whole(R, Ilp) = At(s, 1 .. size * Ilp)
  BY <1>1, <1>2, <1>4, <1>7, <1>8, LanesApart
<1>10. PICK rest : rest = [q \in 1 .. Ilp - 1 |-> lane[q + 1]]
  OBVIOUS
<1>11. PICK Q : Q = [q \in 1 .. Ilp - 1 |-> R[q + 1]]
  OBVIOUS
<1>12. Once(FlattenSeq(rest), Whole(Q, Ilp - 1))
  <2>1. Listed(rest, Ilp - 1)
    BY <1>1, <1>10 DEF Listed
  <2>2. Apart(rest, Q, Ilp - 1)
    <3>1. \A i \in 1 .. Ilp - 1 : i + 1 \in 1 .. Ilp
      BY <1>1
    <3>2. \A i \in 1 .. Ilp - 1 : Once(rest[i], Q[i])
      BY <1>9, <1>10, <1>11, <3>1 DEF Apart
    <3>3. \A i, j \in 1 .. Ilp - 1 : i # j => Q[i] \cap Q[j] = {}
      <4> TAKE i, j \in 1 .. Ilp - 1
      <4> HAVE i # j
      <4>1. i + 1 \in 1 .. Ilp /\ j + 1 \in 1 .. Ilp /\ i + 1 # j + 1
        BY <1>1
      <4>2. R[i + 1] \cap R[j + 1] = {}
        BY <1>9, <4>1 DEF Apart
      <4> QED BY <1>11, <4>2
    <3> QED BY <3>2, <3>3 DEF Apart
  <2> QED BY <2>1, <2>2, FlattenParts
<1>13. /\ R[1] \cap Whole(Q, Ilp - 1) = {}
       /\ R[1] \cup Whole(Q, Ilp - 1) = At(s, 1 .. size * Ilp)
  <2>1. ASSUME NEW i \in 1 .. Ilp - 1 PROVE R[1] \cap Q[i] = {} /\ Q[i] \subseteq Whole(R, Ilp)
    <3>1. i + 1 \in 1 .. Ilp /\ 1 \in 1 .. Ilp /\ i + 1 # 1
      BY <1>1
    <3>2. R[1] \cap R[i + 1] = {}
      BY <1>9, <3>1 DEF Apart
    <3>3. R[i + 1] \subseteq Whole(R, Ilp)
      BY <3>1 DEF Whole
    <3> QED BY <1>11, <3>2, <3>3
  <2>2. R[1] \subseteq Whole(R, Ilp)
    <3>1. 1 \in 1 .. Ilp
      BY <1>1
    <3> QED BY <3>1 DEF Whole
  <2>3. ASSUME NEW x \in Whole(R, Ilp), x \notin R[1] PROVE x \in Whole(Q, Ilp - 1)
    <3>1. PICK i \in 1 .. Ilp : x \in R[i]
      BY DEF Whole
    <3>2. i - 1 \in 1 .. Ilp - 1 /\ (i - 1) + 1 = i
      BY <1>1, <2>3, <3>1
    <3>3. x \in Q[i - 1]
      BY <1>11, <3>1, <3>2
    <3> QED BY <3>2, <3>3 DEF Whole
  <2>4. \A x : x \in Whole(Q, Ilp - 1) => \E i \in 1 .. Ilp - 1 : x \in Q[i]
    BY DEF Whole
  <2> QED BY <1>9, <2>1, <2>2, <2>3, <2>4
<1>14. PICK tail : tail = SubSeq(s, size * Ilp + 1, Len(s))
  OBVIOUS
<1>15. PICK N : N = At(s, size * Ilp + 1 .. Len(s))
  OBVIOUS
<1>16. Once(tail, N) /\ N \cap At(s, 1 .. size * Ilp) = {} /\ At(s, 1 .. size * Ilp) \cup N = S
  <2>1. size * Ilp \in 0 .. Len(s)
    BY <1>1, <1>2
  <2> QED BY <1>14, <1>15, <2>1, OncePlaces
<1>17. Once(lane[1], R[1])
  <2>1. 1 \in 1 .. Ilp
    BY <1>1
  <2> QED BY <1>9, <2>1 DEF Apart
<1>18. Once(lane[1] \o tail, R[1] \cup N)
  <2>1. R[1] \cap N = {}
    BY <1>13, <1>16
  <2> QED BY <1>16, <1>17, <2>1, ConcatOnce
<1>19. Once(lane[1] \o tail \o FlattenSeq(rest), (R[1] \cup N) \cup Whole(Q, Ilp - 1))
  <2>1. (R[1] \cup N) \cap Whole(Q, Ilp - 1) = {}
    BY <1>13, <1>16
  <2> QED BY <1>12, <1>18, <2>1, ConcatOnce
<1>20. (R[1] \cup N) \cup Whole(Q, Ilp - 1) = S
  BY <1>13, <1>16
<1>21. RowSum(s) = lane[1] \o tail \o FlattenSeq(rest)
  <2>1. lane[1] = partial(1) /\ \A q \in 1 .. Ilp - 1 : lane[q + 1] = partial(q + 1)
    BY <1>1, <1>6
  <2>2. rest = [q \in 1 .. Ilp - 1 |-> partial(q + 1)]
    BY <1>10, <2>1
  <2> HIDE DEF partial
  <2> QED BY <1>5, <1>14, <2>1, <2>2
<1> QED BY <1>19, <1>20, <1>21

(* Lanes before or after the scalar tail.                                  *)
LEMMA LanesAndTail ==
  ASSUME NEW S, NEW s, Once(s, S), NEW w \in Nat \ {0}, NEW top \in Nat, top <= Len(s),
         NEW n, Reaches(n, w, top),
         NEW lane, lane = [q \in 1 .. w |-> lane[q]],
         \A q \in 1 .. w : Once(lane[q], At(s, Places(q, w, n[q])))
  PROVE  /\ Once(FlattenSeq(lane) \o SubSeq(s, top + 1, Len(s)), S)
         /\ Once(SubSeq(s, top + 1, Len(s)) \o FlattenSeq(lane), S)
<1>1. Once(FlattenSeq(lane), At(s, 1 .. top))
  BY LanesOnce
<1>2. top \in 0 .. Len(s)
  BY OnceType
<1>3. PICK tail : tail = SubSeq(s, top + 1, Len(s))
  OBVIOUS
<1>4. PICK N : N = At(s, top + 1 .. Len(s))
  OBVIOUS
<1>5. Once(tail, N) /\ N \cap At(s, 1 .. top) = {} /\ At(s, 1 .. top) \cup N = S
  BY <1>2, <1>3, <1>4, OncePlaces
<1>6. At(s, 1 .. top) \cap N = {} /\ N \cup At(s, 1 .. top) = S
  BY <1>5
<1>7. Once(FlattenSeq(lane) \o tail, At(s, 1 .. top) \cup N) /\ Once(tail \o FlattenSeq(lane), N \cup At(s, 1 .. top))
  BY <1>1, <1>5, <1>6, ConcatOnce
<1> QED BY <1>3, <1>5, <1>6, <1>7

LEMMA SumRowOnce ==
  ASSUME KernelAssumption, NEW S, NEW s, Once(s, S)
  PROVE  Once(SumRow(s), S)
<1> DEFINE vecs == Len(s) \div Lanes
<1>1. Len(s) \in Nat /\ Lanes \in Nat \ {0}
  BY OnceType DEF KernelAssumption
<1>2. vecs * Lanes \in Nat /\ vecs * Lanes <= Len(s)
  BY <1>1, WholeVectors
<1>3. PICK n : n = [q \in 1 .. Lanes |-> vecs]
  OBVIOUS
<1>4. Reaches(n, Lanes, vecs * Lanes)
  BY <1>1, <1>3, WholeReaches
<1>5. PICK lane : lane = [l \in 1 .. Lanes |-> RowSum(Stride(s, l, Lanes, vecs))]
  OBVIOUS
<1>6. SumRow(s) = IF vecs = 0 THEN RowSum(s) ELSE SubSeq(s, vecs * Lanes + 1, Len(s)) \o FlattenSeq(lane)
  BY <1>5 DEF SumRow
<1> HIDE DEF vecs
<1>7. \A q \in 1 .. Lanes : Once(lane[q], At(s, Places(q, Lanes, n[q])))
  <2> TAKE q \in 1 .. Lanes
  <2>1. Once(Stride(s, q, Lanes, n[q]), At(s, Places(q, Lanes, n[q])))
    BY <1>1, <1>2, <1>4, StridesOnce
  <2>2. n[q] = vecs /\ lane[q] = RowSum(Stride(s, q, Lanes, vecs))
    BY <1>3, <1>5
  <2> QED BY <2>1, <2>2, RowSumOnce
<1>8. lane = [q \in 1 .. Lanes |-> lane[q]]
  BY <1>5
<1>9. Once(SubSeq(s, vecs * Lanes + 1, Len(s)) \o FlattenSeq(lane), S)
  BY <1>1, <1>2, <1>4, <1>7, <1>8, LanesAndTail
<1> QED BY <1>6, <1>9, RowSumOnce

LEMMA SumColOnce ==
  ASSUME KernelAssumption, NEW S, NEW s, Once(s, S), NEW cols, NEW c
  PROVE  Once(SumCol(s, cols, c), S)
BY CascadeOnce, RowSumOnce DEF SumCol

LEMMA NormRowOnce ==
  ASSUME KernelAssumption, NEW S, NEW s, Once(s, S)
  PROVE  Once(NormRow(s), S)
<1> DEFINE vecs == Len(s) \div Lanes
<1>1. Len(s) \in Nat /\ Lanes \in Nat \ {0}
  BY OnceType DEF KernelAssumption
<1>2. vecs * Lanes \in Nat /\ vecs * Lanes <= Len(s)
  BY <1>1, WholeVectors
<1>3. PICK n : n = [q \in 1 .. Lanes |-> vecs]
  OBVIOUS
<1>4. Reaches(n, Lanes, vecs * Lanes)
  BY <1>1, <1>3, WholeReaches
<1>5. PICK lane : lane = [l \in 1 .. Lanes |-> Stride(s, l, Lanes, vecs)]
  OBVIOUS
<1>6. NormRow(s) = FlattenSeq(lane) \o SubSeq(s, vecs * Lanes + 1, Len(s))
  BY <1>5 DEF NormRow
<1> HIDE DEF vecs
<1>7. \A q \in 1 .. Lanes : Once(lane[q], At(s, Places(q, Lanes, n[q])))
  <2> TAKE q \in 1 .. Lanes
  <2>1. Once(Stride(s, q, Lanes, n[q]), At(s, Places(q, Lanes, n[q])))
    BY <1>1, <1>2, <1>4, StridesOnce
  <2> QED BY <1>3, <1>5, <2>1
<1>8. lane = [q \in 1 .. Lanes |-> lane[q]]
  BY <1>5
<1>9. Once(FlattenSeq(lane) \o SubSeq(s, vecs * Lanes + 1, Len(s)), S)
  BY <1>1, <1>2, <1>4, <1>7, <1>8, LanesAndTail
<1> QED BY <1>6, <1>9

LEMMA ReduceAllOnce ==
  ASSUME KernelAssumption, NEW S, NEW s, Once(s, S)
  PROVE  Once(ReduceAll(s), S)
<1> SUFFICES ASSUME ~(Len(s) < Lanes) PROVE Once(ReduceAll(s), S)
  BY DEF ReduceAll
<1>1. Len(s) \in Nat /\ Lanes \in Nat \ {0} /\ Lanes <= Len(s)
  BY OnceType DEF KernelAssumption
<1>2. PICK n : n = [q \in 1 .. Lanes |-> (Len(s) - q) \div Lanes + 1]
  OBVIOUS
<1>3. Reaches(n, Lanes, Len(s))
  <2>1. ASSUME NEW q \in 1 .. Lanes
        PROVE  n[q] \in Nat /\ \A i \in Nat \ {0} : i <= n[q] <=> (i - 1) * Lanes + q <= Len(s)
    <3>1. PICK a : a = Len(s) - q
      OBVIOUS
    <3>2. a \in Nat
      BY <1>1, <3>1
    <3>3. PICK v : v = a \div Lanes
      OBVIOUS
    <3>4. v \in Nat /\ v * Lanes <= a /\ a < v * Lanes + Lanes
      BY <1>1, <3>2, <3>3, Division
    <3>5. n[q] = v + 1
      BY <1>2, <3>1, <3>3
    <3>6. ASSUME NEW i \in Nat \ {0} PROVE i <= v + 1 <=> (i - 1) * Lanes <= a
      <4>1. CASE i <= v + 1
        <5>1. v - (i - 1) \in Nat
          BY <3>4, <4>1
        <5>2. (v - (i - 1)) * Lanes \in Nat /\ (v - (i - 1)) * Lanes = v * Lanes - (i - 1) * Lanes
          BY <1>1, <3>4, <5>1
        <5>3. PICK x, y : x = (i - 1) * Lanes /\ y = v * Lanes
          OBVIOUS
        <5>4. x \in Nat /\ y \in Nat
          BY <1>1, <3>4, <5>3
        <5>5. x <= y /\ y <= a
          BY <3>4, <5>2, <5>3, <5>4
        <5>6. x <= a
          BY <3>2, <5>4, <5>5
        <5> QED BY <4>1, <5>3, <5>6
      <4>2. CASE i > v + 1
        <5>1. i - 1 - (v + 1) \in Nat
          BY <3>4, <4>2
        <5>2. (i - 1 - (v + 1)) * Lanes \in Nat /\ (i - 1) * Lanes = (i - 1 - (v + 1)) * Lanes + v * Lanes + Lanes
          BY <1>1, <3>4, <5>1
        <5>3. PICK x, y : x = (i - 1) * Lanes /\ y = v * Lanes
          OBVIOUS
        <5>4. x \in Nat /\ y \in Nat
          BY <1>1, <3>4, <5>3
        <5>5. x >= y + Lanes
          BY <1>1, <5>2, <5>3, <5>4
        <5>6. ~(x <= a)
          BY <1>1, <3>2, <3>4, <5>3, <5>4, <5>5
        <5> QED BY <3>4, <4>2, <5>3, <5>6
      <4> QED BY <3>4, <4>1, <4>2
    <3>7. ASSUME NEW i \in Nat \ {0} PROVE (i - 1) * Lanes <= a <=> (i - 1) * Lanes + q <= Len(s)
      <4>1. PICK x : x = (i - 1) * Lanes
        OBVIOUS
      <4>2. x \in Nat
        BY <1>1, <4>1
      <4>3. x <= a <=> x + q <= Len(s)
        BY <1>1, <3>1, <4>2
      <4> QED BY <4>1, <4>3
    <3> QED BY <3>4, <3>5, <3>6, <3>7
  <2>2. n \in [1 .. Lanes -> Nat]
    <3>1. \A q \in 1 .. Lanes : n[q] \in Nat
      BY <2>1
    <3> QED BY <1>2, <3>1
  <2> QED BY <2>1, <2>2 DEF Reaches
<1>4. PICK lane : lane = [l \in 1 .. Lanes |-> Stride(s, l, Lanes, (Len(s) - l) \div Lanes + 1)]
  OBVIOUS
<1>5. ReduceAll(s) = FlattenSeq(lane)
  BY <1>4 DEF ReduceAll
<1>6. \A q \in 1 .. Lanes : Once(lane[q], At(s, Places(q, Lanes, n[q])))
  <2> TAKE q \in 1 .. Lanes
  <2>1. Once(Stride(s, q, Lanes, n[q]), At(s, Places(q, Lanes, n[q])))
    BY <1>1, <1>3, StridesOnce
  <2> QED BY <1>2, <1>4, <2>1
<1>7. lane = [q \in 1 .. Lanes |-> lane[q]]
  BY <1>4
<1>8. Once(FlattenSeq(lane), At(s, 1 .. Len(s)))
  BY <1>1, <1>3, <1>6, <1>7, LanesOnce
<1> QED BY <1>5, <1>8, PartsWhole

LEMMA UpToOnce ==
  ASSUME NEW n \in Nat
  PROVE  Once(UpTo(n), 0 .. n - 1)
<1>1. UpTo(n) \in Seq(0 .. n - 1) /\ Len(UpTo(n)) = n /\ \A i \in 1 .. n : UpTo(n)[i] = i - 1
  <2>1. UpTo(n) \in [1 .. n -> 0 .. n - 1]
    BY DEF UpTo
  <2> QED BY <2>1, FunctionSeq DEF UpTo
<1>2. \A x \in 0 .. n - 1 : x + 1 \in 1 .. n /\ (x + 1) - 1 = x
  OBVIOUS
<1>3. PICK u : u = UpTo(n)
  OBVIOUS
<1>4. \A i, j \in 1 .. Len(u) : u[i] = u[j] => i = j
  BY <1>1, <1>3
<1>5. ASSUME NEW x \in 0 .. n - 1 PROVE \E i \in 1 .. Len(u) : u[i] = x
  BY <1>1, <1>2, <1>3
<1> QED BY <1>1, <1>3, <1>4, <1>5 DEF Once

(* Terms taken in the order of the vectors they are in.                    *)
LEMMA GatherOnce ==
  ASSUME NEW S, NEW s, Once(s, S), NEW w \in Nat \ {0}, NEW l \in 1 .. w, NEW v \in Nat, v * w <= Len(s),
         NEW g, Once(g, 0 .. v - 1)
  PROVE  Once([i \in DOMAIN g |-> s[g[i] * w + l]], At(s, Places(l, w, v)))
<1>1. PICK u : u = [i \in DOMAIN g |-> s[g[i] * w + l]]
  OBVIOUS
<1>2. PICK P : P = At(s, Places(l, w, v))
  OBVIOUS
<1>3. g \in Seq(0 .. v - 1) /\ Len(g) \in Nat /\ DOMAIN g = 1 .. Len(g) /\ \A i \in 1 .. Len(g) : g[i] \in 0 .. v - 1
  <2>1. g \in Seq(0 .. v - 1)
    BY DEF Once
  <2> QED BY <2>1, LenProperties, ElementOfSeq
<1>4. \A k \in 0 .. v - 1 : k * w + l \in Places(l, w, v) /\ k * w + l \in 1 .. Len(s)
  <2> TAKE k \in 0 .. v - 1
  <2>1. k + 1 \in 1 .. v /\ (k + 1) - 1 = k
    OBVIOUS
  <2>2. k * w + l \in 1 .. v * w
    <3>1. ((k + 1) - 1) * w + l \in 1 .. v * w
      BY <2>1, PlaceBelow
    <3> QED BY <2>1, <3>1
  <2>3. Len(s) \in Nat /\ v * w \in Nat
    BY OnceType
  <2>4. k * w + l \in 1 .. Len(s)
    <3>1. PICK a : a = v * w
      OBVIOUS
    <3>2. PICK b : b = k * w + l
      OBVIOUS
    <3>3. b \in 1 .. a /\ a \in Nat /\ a <= Len(s)
      BY <2>2, <2>3, <3>1, <3>2
    <3>4. b \in 1 .. Len(s)
      BY <2>3, <3>3
    <3> QED BY <3>2, <3>4
  <2> QED BY <2>1, <2>4 DEF Places
<1>5. u \in Seq(P) /\ Len(u) = Len(g) /\ \A i \in 1 .. Len(g) : u[i] = s[g[i] * w + l]
  <2>1. \A i \in 1 .. Len(g) : s[g[i] * w + l] \in P
    BY <1>2, <1>3, <1>4 DEF At
  <2>2. u \in [1 .. Len(g) -> P]
    BY <1>1, <1>3, <2>1
  <2> QED BY <1>1, <1>3, <2>2, FunctionSeq
<1>6. ASSUME NEW i \in 1 .. Len(g), NEW j \in 1 .. Len(g), u[i] = u[j] PROVE i = j
  <2>1. g[i] * w + l \in 1 .. Len(s) /\ g[j] * w + l \in 1 .. Len(s) /\ s[g[i] * w + l] = s[g[j] * w + l]
    BY <1>3, <1>4, <1>5, <1>6
  <2>2. g[i] * w + l = g[j] * w + l
    BY <2>1 DEF Once
  <2>3. PICK a, b \in Int : a = g[i] /\ b = g[j]
    BY <1>3
  <2>4. a = b
    <3>1. (a + 1) - 1 = a /\ (b + 1) - 1 = b /\ a + 1 \in Int /\ b + 1 \in Int
      BY <2>3
    <3>2. ((a + 1) - 1) * w + l = ((b + 1) - 1) * w + l
      BY <2>2, <2>3, <3>1
    <3>3. w \in Nat
      OBVIOUS
    <3>4. a + 1 = b + 1
      BY ONLY <3>1, <3>2, <3>3, l \in 1 .. w, PlaceUnique
    <3> QED BY <2>3, <3>4
  <2>5. g[i] = g[j]
    BY <2>3, <2>4
  <2> QED BY <2>5 DEF Once
<1>7. ASSUME NEW x \in P PROVE \E i \in 1 .. Len(g) : u[i] = x
  <2>1. PICK k \in 1 .. v : x = s[(k - 1) * w + l]
    BY <1>2 DEF At, Places
  <2>2. k - 1 \in 0 .. v - 1
    OBVIOUS
  <2>3. PICK i \in 1 .. Len(g) : g[i] = k - 1
    BY <2>2 DEF Once
  <2> QED BY <1>5, <2>1, <2>3
<1>8. Once(u, P)
  BY <1>5, <1>6, <1>7 DEF Once
<1> QED BY <1>1, <1>2, <1>8

LEMMA MomentsOnce ==
  ASSUME KernelAssumption, NEW S, NEW s, Once(s, S)
  PROVE  Once(Moments(s), S)
<1> DEFINE vecs   == Len(s) \div Lanes
           chunks == (vecs + ChunkVectors - 1) \div ChunkVectors
           depth  == CeilLog2(chunks)
           open(i)  == {j \in 0 .. depth - 1 : (i \div TwoTo(j)) % 2 # 0}
           chunk(b) == SubSeq(UpTo(vecs), b * ChunkVectors + 1, Min({vecs, (b + 1) * ChunkVectors}))
           d(b)     == Min(open(b) \cup {depth - 1})
           Is(acc)  == acc = [b \in 0 .. chunks |->
                         IF b = 0 THEN Empty(depth)
                         ELSE Flush([acc[b - 1] EXCEPT ![0] = @ \o chunk(b - 1)], d(b))]
           Acc      == CHOOSE acc : Is(acc)
           merged   == Total(Acc[chunks])
<1>1. Len(s) \in Nat /\ Lanes \in Nat \ {0} /\ ChunkVectors \in Nat \ {0}
  BY OnceType DEF KernelAssumption
<1>2. vecs \in Nat /\ vecs * Lanes \in Nat /\ vecs * Lanes <= Len(s)
  BY <1>1, WholeVectors
<1>3. PICK n : n = [q \in 1 .. Lanes |-> vecs]
  OBVIOUS
<1>4. Reaches(n, Lanes, vecs * Lanes)
  BY <1>1, <1>3, WholeReaches
<1>5. PICK lane : lane = [l \in 1 .. Lanes |-> [i \in DOMAIN merged |-> s[merged[i] * Lanes + l]]]
  OBVIOUS
<1>6. Moments(s) = SubSeq(s, vecs * Lanes + 1, Len(s)) \o FlattenSeq(lane)
  BY <1>5 DEF Moments
<1> HIDE DEF vecs
<1>7. chunks \in Nat /\ vecs <= chunks * ChunkVectors
  <2>1. PICK a : a = vecs + ChunkVectors - 1
    OBVIOUS
  <2>2. a \in Nat
    BY <1>1, <1>2, <2>1
  <2>3. PICK v : v = a \div ChunkVectors
    OBVIOUS
  <2>4. v \in Nat /\ a < v * ChunkVectors + ChunkVectors
    BY <1>1, <2>2, <2>3, Division
  <2>5. PICK x : x = v * ChunkVectors
    OBVIOUS
  <2>6. x \in Nat /\ a < x + ChunkVectors
    BY <1>1, <2>4, <2>5
  <2>7. vecs <= x
    BY <1>1, <1>2, <2>1, <2>6
  <2>8. chunks = v
    BY <2>1, <2>3
  <2> QED BY <2>4, <2>5, <2>7, <2>8
<1> HIDE DEF chunks
<1>8. depth \in Nat \ {0}
  BY <1>7, CeilLog2Type
<1> HIDE DEF depth
<1>9. \A b \in 1 .. chunks : d(b) \in 0 .. depth - 1
  <2> TAKE b \in 1 .. chunks
  <2>1. open(b) \in SUBSET (0 .. depth - 1)
    OBVIOUS
  <2> HIDE DEF open
  <2> QED BY <1>8, <2>1, MinPlace
<1> HIDE DEF d
<1>10. PICK P : P = [b \in 1 .. chunks |-> chunk(b - 1)]
  OBVIOUS
<1>11. PICK D : D = [b \in 1 .. chunks |-> d(b)]
  OBVIOUS
<1>12. D \in [1 .. chunks -> 0 .. depth - 1]
  BY <1>9, <1>11
<1>13. PICK t : t = UpTo(vecs)
  OBVIOUS
<1>14. Once(t, 0 .. vecs - 1) /\ Len(t) = vecs
  <2>1. Len(UpTo(vecs)) = vecs
    BY <1>2 DEF UpTo
  <2> QED BY <1>2, <1>13, <2>1, UpToOnce
<1>15. PICK high : high = [b \in 1 .. chunks |-> IF vecs <= b * ChunkVectors THEN vecs ELSE b * ChunkVectors]
  OBVIOUS
<1>16. Chunked(P, high, t, ChunkVectors, chunks, vecs)
  <2>1. ASSUME NEW b \in 1 .. chunks PROVE P[b] = SubSeq(t, (b - 1) * ChunkVectors + 1, high[b])
    <3>1. P[b] = chunk(b - 1)
      <4> HIDE DEF chunk
      <4> QED BY <1>10
    <3>2. b \in Nat /\ (b - 1) + 1 = b /\ b * ChunkVectors \in Nat
      BY <1>1
    <3>3. Min({vecs, b * ChunkVectors}) = high[b]
      BY <1>2, <1>15, <3>2, MinOfTwo
    <3>4. chunk(b - 1) = SubSeq(t, (b - 1) * ChunkVectors + 1, Min({vecs, b * ChunkVectors}))
      BY <1>13, <3>2
    <3> QED BY <3>1, <3>3, <3>4
  <2>2. \A b \in 1 .. chunks : high[b] = IF vecs <= b * ChunkVectors THEN vecs ELSE b * ChunkVectors
    BY <1>15
  <2> QED BY <2>1, <2>2 DEF Chunked
<1>17. PICK R : Apart(P, R, chunks) /\ Whole(R, chunks) = At(t, 1 .. vecs)
  <2>1. vecs \in 0 .. Len(t)
    BY <1>2, <1>14
  <2>2. Parted(P, chunks, t, vecs)
    BY <1>1, <1>7, <1>14, <1>16, <2>1, Chunks
  <2> QED BY <2>2 DEF Parted
<1>18. Whole(R, chunks) = 0 .. vecs - 1
  <2>1. At(t, 1 .. Len(t)) = 0 .. vecs - 1
    BY <1>14, PartsWhole
  <2> QED BY <1>14, <1>17, <2>1
<1>19. P \in [1 .. chunks -> Seq(0 .. vecs - 1)]
  <2>1. \A b \in 1 .. chunks : P[b] \in Seq(0 .. vecs - 1)
    <3> TAKE b \in 1 .. chunks
    <3>1. Once(P[b], R[b]) /\ R[b] \subseteq 0 .. vecs - 1
      BY <1>17, <1>18 DEF Apart, Whole
    <3>2. P[b] \in Seq(R[b])
      BY <3>1 DEF Once
    <3>3. PICK B : B = 0 .. vecs - 1
      OBVIOUS
    <3>4. R[b] \subseteq B
      BY <3>1, <3>3
    <3> HIDE DEF chunk
    <3>5. P[b] \in Seq(B)
      BY <3>2, <3>4
    <3> QED BY <3>3, <3>5
  <2> HIDE DEF chunk
  <2> QED BY <1>10, <2>1
<1>20. \A acc : Is(acc) <=> Fills(acc, depth, chunks, P, D)
  <2> TAKE acc
  <2>1. [b \in 0 .. chunks |-> IF b = 0 THEN Empty(depth)
           ELSE Flush([acc[b - 1] EXCEPT ![0] = @ \o chunk(b - 1)], d(b))]
        = [b \in 0 .. chunks |-> IF b = 0 THEN Empty(depth)
           ELSE Flush([acc[b - 1] EXCEPT ![0] = @ \o P[b]], D[b])]
    <3> HIDE DEF chunk
    <3>1. \A b \in 0 .. chunks : b # 0 => P[b] = chunk(b - 1) /\ D[b] = d(b)
      <4> TAKE b \in 0 .. chunks
      <4> HAVE b # 0
      <4>1. b \in 1 .. chunks
        BY <1>7
      <4> QED BY <1>10, <1>11, <4>1
    <3> QED BY <3>1
  <2> QED BY <2>1 DEF Fills
<1>21. Fills(Acc, depth, chunks, P, D)
  <2>1. \E acc : Fills(acc, depth, chunks, P, D)
    BY <1>7, <1>8, <1>12, <1>19, FillsExists
  <2>2. \E acc : Is(acc)
    BY <1>20, <2>1
  <2> HIDE DEF Is
  <2>3. Is(Acc)
    BY <2>2
  <2> QED BY <1>20, <2>3
<1> HIDE DEF Acc
<1>22. Spread(Acc[chunks], depth, 0 .. vecs - 1)
  BY <1>7, <1>8, <1>12, <1>17, <1>18, <1>21, FillsSpread
<1>23. Once(merged, 0 .. vecs - 1)
  BY <1>8, <1>22, TotalOnce
<1> HIDE DEF merged
<1>24. \A q \in 1 .. Lanes : Once(lane[q], At(s, Places(q, Lanes, n[q])))
  <2> TAKE q \in 1 .. Lanes
  <2>1. Once([i \in DOMAIN merged |-> s[merged[i] * Lanes + q]], At(s, Places(q, Lanes, vecs)))
    BY <1>1, <1>2, <1>23, GatherOnce
  <2> QED BY <1>3, <1>5, <2>1
<1>25. lane = [q \in 1 .. Lanes |-> lane[q]]
  BY <1>5
<1>26. Once(SubSeq(s, vecs * Lanes + 1, Len(s)) \o FlattenSeq(lane), S)
  BY <1>1, <1>2, <1>4, <1>24, <1>25, LanesAndTail
<1> QED BY <1>6, <1>26

(* What it is to have added the terms 0 to n - 1 once each.                *)
LEMMA OnceCounts ==
  ASSUME NEW n \in Nat, NEW t, Once(t, 0 .. n - 1)
  PROVE  Len(t) = n /\ ToSet(t) = 0 .. n - 1
<1>1. t \in Seq(0 .. n - 1) /\ Len(t) \in Nat /\ t \in [1 .. Len(t) -> 0 .. n - 1]
  <2>1. t \in Seq(0 .. n - 1)
    BY DEF Once
  <2> QED BY <2>1, LenProperties
<1>2. t \in Bijection(1 .. Len(t), 0 .. n - 1)
  BY <1>1 DEF Once, Bijection, Injection, Surjection, IsInjective
<1>3. Cardinality(0 .. n - 1) = Len(t)
  BY <1>1, <1>2, FS_CountingElements DEF ExistsBijection
<1>4. Cardinality(0 .. n - 1) = n
  <2>1. Cardinality(0 .. n - 1) = IF 0 > n - 1 THEN 0 ELSE (n - 1) - 0 + 1
    BY FS_Interval
  <2> QED BY <2>1
<1>5. ToSet(t) = 0 .. n - 1
  <2>1. ToSet(t) = {t[i] : i \in 1 .. Len(t)}
    BY <1>1 DEF ToSet
  <2>2. \A i \in 1 .. Len(t) : t[i] \in 0 .. n - 1
    BY <1>1
  <2>3. \A x \in 0 .. n - 1 : \E i \in 1 .. Len(t) : t[i] = x
    BY DEF Once
  <2> QED BY <2>1, <2>2, <2>3
<1> QED BY <1>3, <1>4, <1>5

-------------------------------------------------------------------------------
(* The clip in the tower.  Its valid frames come first.                    *)

Masked(mask, F, V) == F \in Nat /\ V \in 0 .. F /\ mask = [f \in 0 .. F - 1 |-> f < V]

LEMMA RowsMasked ==
  ASSUME NEW mask, NEW F, NEW V, Masked(mask, F, V)
  PROVE  F \in Nat /\ V \in 0 .. F /\ Rows(mask) = F /\ DOMAIN mask = 0 .. F - 1
         /\ \A f \in 0 .. F - 1 : mask[f] <=> f < V
<1>1. F \in Nat /\ V \in 0 .. F /\ DOMAIN mask = 0 .. F - 1 /\ \A f \in 0 .. F - 1 : mask[f] <=> f < V
  BY DEF Masked
<1>2. Cardinality(0 .. F - 1) = F
  BY <1>1, FS_Interval
<1> QED BY <1>1, <1>2 DEF Rows

LEMMA Half ==
  ASSUME NEW n \in Nat
  PROVE  CeilDiv(n, 2) \in Nat /\ \A t \in Int : t < CeilDiv(n, 2) <=> 2 * t < n
<1> USE DEF CeilDiv
<1> QED OBVIOUS

LEMMA SubsampledMasked ==
  ASSUME NEW mask, NEW F, NEW V, Masked(mask, F, V)
  PROVE  Masked(SubsampledMask(mask), CeilDiv(F, 2), CeilDiv(V, 2))
<1>1. F \in Nat /\ V \in 0 .. F /\ Rows(mask) = F /\ \A f \in 0 .. F - 1 : mask[f] <=> f < V
  BY RowsMasked
<1>2. /\ CeilDiv(F, 2) \in Nat /\ \A t \in Int : t < CeilDiv(F, 2) <=> 2 * t < F
      /\ CeilDiv(V, 2) \in Nat /\ \A t \in Int : t < CeilDiv(V, 2) <=> 2 * t < V
  BY <1>1, Half
<1>3. CeilDiv(V, 2) <= CeilDiv(F, 2)
  BY <1>1 DEF CeilDiv
<1>4. ASSUME NEW t \in 0 .. CeilDiv(F, 2) - 1 PROVE mask[2 * t] = (t < CeilDiv(V, 2))
  <2>1. 2 * t \in 0 .. F - 1 /\ t \in Int
    BY <1>1, <1>2
  <2>2. PICK u : u = 2 * t
    OBVIOUS
  <2>3. mask[u] = (u < V)
    BY <2>1, <2>2 DEF Masked
  <2>4. (u < V) = (t < CeilDiv(V, 2))
    <3>1. u < V <=> t < CeilDiv(V, 2)
      BY <1>2, <2>1, <2>2
    <3> QED BY <3>1
  <2> QED BY <2>2, <2>3, <2>4
<1>5. SubsampledMask(mask) = [t \in 0 .. CeilDiv(F, 2) - 1 |-> t < CeilDiv(V, 2)]
  BY <1>1, <1>4 DEF SubsampledMask
<1> QED BY <1>2, <1>3, <1>5 DEF Masked

(* Both forms of the subsampling take the valid ones of three rows.        *)
Nearby(t, V)   == {i \in 2 * t - 1 .. 2 * t + 1 : 0 <= i /\ i < V}
Gather(x, I) == UNION {x[i] : i \in I}

LEMMA SubsampleRows ==
  ASSUME NEW mask, NEW F, NEW V, Masked(mask, F, V), NEW x
  PROVE  Subsample(x, mask)
           = [t \in 0 .. CeilDiv(F, 2) - 1 |-> Gather(x, Nearby(t, V))]
<1>1. F \in Nat /\ V \in 0 .. F /\ Rows(mask) = F /\ DOMAIN mask = 0 .. F - 1 /\ \A f \in 0 .. F - 1 : mask[f] <=> f < V
  BY RowsMasked
<1>2. CeilDiv(F, 2) \in Nat
  BY <1>1, Half
<1>3. ASSUME NEW t \in 0 .. CeilDiv(F, 2) - 1
      PROVE  {i \in 2 * t - 1 .. 2 * t + 1 : i \in DOMAIN mask /\ mask[i]}
               = Nearby(t, V)
  BY <1>1, <1>2 DEF Nearby
<1> QED BY <1>1, <1>3 DEF Subsample, Gather

LEMMA SubsampleNativeRows ==
  ASSUME NEW mask, NEW F, NEW V, Masked(mask, F, V), NEW x, NEW freq \in Nat \ {0}
  PROVE  SubsampleNative(x, mask, freq) = Subsample(x, mask)
<1>1. F \in Nat /\ V \in 0 .. F /\ Rows(mask) = F /\ DOMAIN mask = 0 .. F - 1 /\ \A f \in 0 .. F - 1 : mask[f] <=> f < V
  BY RowsMasked
<1>2. CeilDiv(F, 2) \in Nat
  BY <1>1, Half
<1>3. CeilDiv(freq, 2) \in Nat /\ \A f \in Int : f < CeilDiv(freq, 2) <=> 2 * f < freq
  BY Half
<1> DEFINE width == freq + 2
           index(kt, kf, t, f) == (2 * t + kt) * width + (2 * f + kf)
           row(i) == (i \div width) - 1
           col(i) == (i % width) - 1
           padded(i) == IF row(i) \in DOMAIN mask /\ mask[row(i)] /\ col(i) \in 0 .. freq - 1 THEN x[row(i)] ELSE {}
           cell(t, kt, kf, f) == padded(index(kt, kf, t, f))
           all(t) == UNION {cell(t, kt, kf, f) : kt \in 0 .. 2, kf \in 0 .. 2, f \in 0 .. CeilDiv(freq, 2) - 1}
           few(t) == Gather(x, Nearby(t, V))
<1>4. ASSUME NEW t \in 0 .. CeilDiv(F, 2) - 1, NEW kt \in 0 .. 2, NEW kf \in 0 .. 2, NEW f \in 0 .. CeilDiv(freq, 2) - 1
      PROVE  row(index(kt, kf, t, f)) = 2 * t + kt - 1 /\ col(index(kt, kf, t, f)) = 2 * f + kf - 1
  <2>1. PICK a, b : a = 2 * t + kt /\ b = 2 * f + kf
    OBVIOUS
  <2>2. a \in Nat /\ b \in 0 .. width - 1 /\ width \in Nat \ {0}
    BY <1>2, <1>3, <2>1
  <2>3. (a * width + b) \div width = a /\ (a * width + b) % width = b
    <3>1. PICK w : w = width
      OBVIOUS
    <3>2. w \in Nat \ {0} /\ b \in 0 .. w - 1
      BY <2>2, <3>1
    <3> HIDE DEF width
    <3>3. (a * w + b) \div w = a /\ (a * w + b) % w = b
      BY ONLY <2>2, <3>2, SMT
    <3> QED BY <3>1, <3>3
  <2> QED BY <2>1, <2>3
<1>5. ASSUME NEW t \in 0 .. CeilDiv(F, 2) - 1 PROVE all(t) = few(t)
  <2>0. t \in Int
    BY <1>2
  <2>1. ASSUME NEW e \in all(t) PROVE e \in few(t)
    <3>1. PICK kt \in 0 .. 2, kf \in 0 .. 2, f \in 0 .. CeilDiv(freq, 2) - 1 : e \in cell(t, kt, kf, f)
      <4> HIDE DEF cell
      <4> QED BY <2>1
    <3> HIDE DEF row, col, index
    <3>2. row(index(kt, kf, t, f)) = 2 * t + kt - 1
      BY <1>4
    <3>3. e \in x[2 * t + kt - 1] /\ 2 * t + kt - 1 \in DOMAIN mask /\ mask[2 * t + kt - 1]
      BY <3>1, <3>2
    <3>4. 2 * t + kt - 1 \in Nearby(t, V)
      BY <1>1, <2>0, <3>3 DEF Nearby
    <3> QED BY <3>3, <3>4 DEF Gather
  <2>2. ASSUME NEW e \in few(t) PROVE e \in all(t)
    <3>1. PICK i \in 2 * t - 1 .. 2 * t + 1 : 0 <= i /\ i < V /\ e \in x[i]
      BY <2>2 DEF Gather, Nearby
    <3>2. i - (2 * t - 1) \in 0 .. 2 /\ 1 \in 0 .. 2 /\ 0 \in 0 .. CeilDiv(freq, 2) - 1
      BY <1>3, <2>0
    <3>3. PICK kt : kt = i - (2 * t - 1)
      OBVIOUS
    <3>4. row(index(kt, 1, t, 0)) = i /\ col(index(kt, 1, t, 0)) = 0
      <4>1. row(index(kt, 1, t, 0)) = 2 * t + kt - 1 /\ col(index(kt, 1, t, 0)) = 2 * 0 + 1 - 1
        <5>1. PICK kf \in 0 .. 2, f \in 0 .. CeilDiv(freq, 2) - 1 : kf = 1 /\ f = 0
          BY <3>2
        <5>2. row(index(kt, kf, t, f)) = 2 * t + kt - 1 /\ col(index(kt, kf, t, f)) = 2 * f + kf - 1
          <6>1. kt \in 0 .. 2
            BY <3>2, <3>3
          <6> HIDE DEF row, col, index
          <6> QED BY <1>4, <6>1
        <5> HIDE DEF row, col, index
        <5> QED BY <5>1, <5>2
      <4> HIDE DEF row, col, index
      <4>2. t \in Int /\ i \in Int /\ 2 * t + kt - 1 = i
        BY <2>0, <3>1, <3>3
      <4> QED BY <4>1, <4>2
    <3> HIDE DEF row, col, index
    <3>5. i \in DOMAIN mask /\ mask[i] /\ 0 \in 0 .. freq - 1
      BY <1>1, <2>0, <3>1
    <3>6. e \in padded(index(kt, 1, t, 0))
      BY <3>1, <3>4, <3>5
    <3>7. e \in cell(t, kt, 1, 0) /\ kt \in 0 .. 2
      BY <3>2, <3>3, <3>6
    <3> HIDE DEF cell
    <3>8. 1 \in 0 .. 2
      OBVIOUS
    <3> QED BY <3>2, <3>7, <3>8
  <2> HIDE DEF all, few
  <2> QED BY <2>1, <2>2
<1>6. SubsampleNative(x, mask, freq) = [t \in 0 .. CeilDiv(F, 2) - 1 |-> all(t)]
  BY <1>1 DEF SubsampleNative
<1>7. Subsample(x, mask) = [t \in 0 .. CeilDiv(F, 2) - 1 |-> few(t)]
  BY SubsampleRows
<1> HIDE DEF all, few
<1> QED BY <1>5, <1>6, <1>7

(* What row t has heard of the V valid frames when the layers look `back`  *)
(* rows back.                                                              *)
Heard(V, t, back) == {f \in 0 .. V - 1 : f >= 4 * (t - back) - 3 /\ f <= 4 * t + 3}

Quarter(n) == CeilDiv(CeilDiv(n, 2), 2)

LEMMA QuarterIs ==
  ASSUME NEW n \in Nat
  PROVE  Quarter(n) \in Nat /\ \A t \in Int : t < Quarter(n) <=> 4 * t < n
<1>1. PICK h : h = CeilDiv(n, 2)
  OBVIOUS
<1>2. h \in Nat /\ \A t \in Int : t < h <=> 2 * t < n
  BY <1>1, Half
<1>3. CeilDiv(h, 2) \in Nat /\ \A t \in Int : t < CeilDiv(h, 2) <=> 2 * t < h
  BY <1>2, Half
<1>4. ASSUME NEW t \in Int PROVE t < CeilDiv(h, 2) <=> 4 * t < n
  <2>1. 2 * t \in Int /\ 2 * (2 * t) = 4 * t
    OBVIOUS
  <2>2. 2 * t < h <=> 2 * (2 * t) < n
    BY <1>2, <2>1
  <2> QED BY <1>3, <2>1, <2>2
<1> QED BY <1>1, <1>3, <1>4 DEF Quarter

(* Two subsamplings leave each quarter the frames around its own.          *)
LEMMA SubsampledHeard ==
  ASSUME SpeechAssumption, NEW mask, NEW F, NEW V, Masked(mask, F, V), NEW gpu \in BOOLEAN
  PROVE  LET s == Subsampled(mask, gpu)
         IN /\ Masked(s.mask, Quarter(F), Quarter(V))
            /\ DOMAIN s.rows = 0 .. Quarter(F) - 1
            /\ \A t \in 0 .. Quarter(V) - 1 : s.rows[t] = Heard(V, t, 0)
<1>1. F \in Nat /\ V \in 0 .. F /\ DOMAIN mask = 0 .. F - 1 /\ \A f \in 0 .. F - 1 : mask[f] <=> f < V
  BY RowsMasked
<1>2. Freq \in Nat \ {0} /\ CeilDiv(Freq, 2) \in Nat \ {0}
  BY DEF SpeechAssumption, CeilDiv
<1>3. PICK half : half = SubsampledMask(mask)
  OBVIOUS
<1>4. PICK G, W : G = CeilDiv(F, 2) /\ W = CeilDiv(V, 2)
  OBVIOUS
<1>5. Masked(half, G, W)
  BY <1>3, <1>4, SubsampledMasked
<1>6. G \in Nat /\ W \in 0 .. G /\ DOMAIN half = 0 .. G - 1
  BY <1>5, RowsMasked
<1>7. \A t \in Int : t < W <=> 2 * t < V
  <2>0. V \in Nat
    BY <1>1
  <2>1. \A t \in Int : t < CeilDiv(V, 2) <=> 2 * t < V
    BY ONLY <2>0, Half
  <2> QED BY <1>4, <2>1
<1>8. PICK frames : frames = [f \in DOMAIN mask |-> IF mask[f] THEN {f} ELSE {}]
  OBVIOUS
<1>9. PICK first : first = Subsample(frames, mask)
  OBVIOUS
<1>10. SubsampleNative(frames, mask, Freq) = first
  BY <1>2, <1>9, SubsampleNativeRows
<1>11. PICK second : second = Subsample(first, half)
  OBVIOUS
<1>12. SubsampleNative(first, half, CeilDiv(Freq, 2)) = second
  BY <1>2, <1>5, <1>11, SubsampleNativeRows
<1>13. Subsampled(mask, gpu) = [rows |-> second, mask |-> SubsampledMask(half)]
  BY <1>3, <1>8, <1>9, <1>10, <1>11, <1>12 DEF Subsampled
<1>14. Masked(SubsampledMask(half), Quarter(F), Quarter(V))
  BY <1>4, <1>5, SubsampledMasked DEF Quarter
<1>15. ASSUME NEW t \in 0 .. G - 1
       PROVE  first[t] = {f \in 0 .. V - 1 : 2 * t - 1 <= f /\ f <= 2 * t + 1}
  <2>1. first[t] = Gather(frames, Nearby(t, V))
    <3>1. first = [u \in 0 .. G - 1 |-> Gather(frames, Nearby(u, V))]
      BY <1>4, <1>9, SubsampleRows
    <3> QED BY <3>1
  <2>2. \A i \in Nearby(t, V) : frames[i] = {i}
    BY <1>1, <1>6, <1>8 DEF Nearby
  <2>3. Gather(frames, Nearby(t, V)) = Nearby(t, V)
    BY <2>2 DEF Gather
  <2>4. Nearby(t, V) = {f \in 0 .. V - 1 : 2 * t - 1 <= f /\ f <= 2 * t + 1}
    <3>1. t \in Nat /\ V \in Nat
      BY <1>1, <1>6
    <3> QED BY ONLY <3>1 DEF Nearby
  <2> QED BY <2>1, <2>3, <2>4
<1>16. DOMAIN second = 0 .. Quarter(F) - 1
  <2>1. second = [t \in 0 .. CeilDiv(G, 2) - 1 |-> Gather(first, Nearby(t, W))]
    BY <1>5, <1>11, SubsampleRows
  <2> QED BY <1>4, <2>1 DEF Quarter
<1>17. Quarter(V) \in Nat /\ Quarter(F) \in Nat /\ Quarter(V) <= Quarter(F)
       /\ \A t \in Int : t < Quarter(V) <=> 4 * t < V
  <2>1. Quarter(V) \in Nat /\ \A t \in Int : t < Quarter(V) <=> 4 * t < V
    BY <1>1, QuarterIs
  <2>2. Quarter(F) \in Nat /\ Quarter(V) \in 0 .. Quarter(F)
    BY <1>14 DEF Masked
  <2> QED BY <2>1, <2>2
<1>18. ASSUME NEW t \in 0 .. Quarter(V) - 1 PROVE second[t] = Heard(V, t, 0)
  <2>1. second[t] = Gather(first, Nearby(t, W))
    <3>1. second = [u \in 0 .. CeilDiv(G, 2) - 1 |-> Gather(first, Nearby(u, W))]
      BY <1>5, <1>11, SubsampleRows
    <3>2. t \in 0 .. CeilDiv(G, 2) - 1
      <4>1. t \in 0 .. Quarter(F) - 1
        BY <1>17
      <4> QED BY <1>4, <4>1 DEF Quarter
    <3> QED BY <3>1, <3>2
  <2>2. t \in Nat /\ 4 * t < V
    BY <1>17
  <2>3. ASSUME NEW f \in second[t] PROVE f \in Heard(V, t, 0)
    <3>1. PICK i \in 2 * t - 1 .. 2 * t + 1 : 0 <= i /\ i < W /\ f \in first[i]
      BY <2>1, <2>3 DEF Gather, Nearby
    <3>2. i \in 0 .. G - 1
      BY <1>6, <2>2, <3>1
    <3>3. f \in 0 .. V - 1 /\ 2 * i - 1 <= f /\ f <= 2 * i + 1
      BY <1>15, <3>1, <3>2
    <3> QED BY <1>1, <2>2, <3>1, <3>3 DEF Heard
  <2>4. ASSUME NEW f \in Heard(V, t, 0) PROVE f \in second[t]
    <3>1. f \in 0 .. V - 1 /\ f >= 4 * t - 3 /\ f <= 4 * t + 3
      BY <2>2 DEF Heard
    <3>2. PICK i : i = IF f <= 4 * t - 2 THEN 2 * t - 1 ELSE IF f <= 4 * t + 1 THEN 2 * t ELSE 2 * t + 1
      OBVIOUS
    <3>3. i \in 2 * t - 1 .. 2 * t + 1 /\ 0 <= i /\ 2 * i < V /\ 2 * i - 1 <= f /\ f <= 2 * i + 1
      BY <1>1, <2>2, <3>1, <3>2
    <3>4. i < W /\ i \in 0 .. G - 1
      <4>1. i \in Int /\ 0 <= i /\ 2 * i < V
        BY <2>2, <3>3
      <4>2. i < W
        BY <1>7, <4>1
      <4>3. G \in Nat /\ W \in Nat /\ W <= G
        BY <1>6
      <4> QED BY <4>1, <4>2, <4>3
    <3>5. f \in first[i]
      BY <1>15, <3>1, <3>3, <3>4
    <3> QED BY <2>1, <3>3, <3>4, <3>5 DEF Gather, Nearby
  <2> QED BY <2>3, <2>4
<1> QED BY <1>13, <1>14, <1>16, <1>18

(* Rows that look `extra` rows further back hear what those heard.         *)
Behind(x, t, extra) == UNION {x[t - j] : j \in {j \in 0 .. extra : j <= t}}

Hears(x, V, t, back, extra) == \A j \in 0 .. extra : j <= t => x[t - j] = Heard(V, t - j, back)

LEMMA Widen ==
  ASSUME NEW V \in Nat, NEW t \in Nat, NEW back \in Nat, NEW extra \in Nat,
         NEW x, Hears(x, V, t, back, extra)
  PROVE  Behind(x, t, extra) = Heard(V, t, back + extra)
<1>1. ASSUME NEW j \in 0 .. extra, j <= t, NEW f \in Heard(V, t - j, back) PROVE f \in Heard(V, t, back + extra)
  BY <1>1 DEF Heard
<1>2. ASSUME NEW f \in Heard(V, t, back + extra)
      PROVE  \E j \in 0 .. extra : j <= t /\ f \in Heard(V, t - j, back)
  <2>1. f \in 0 .. V - 1 /\ f >= 4 * (t - (back + extra)) - 3 /\ f <= 4 * t + 3
    BY DEF Heard
  <2>2. CASE f >= 4 * (t - back) - 3
    <3>1. f \in Heard(V, t - 0, back)
      BY <2>1, <2>2 DEF Heard
    <3> QED BY <3>1
  <2>3. CASE f < 4 * (t - back) - 3
    <3>1. PICK c : c = (f + 3) \div 4
      OBVIOUS
    <3>2. c \in Nat /\ 4 * c <= f + 3 /\ f + 3 < 4 * c + 4
      BY <2>1, <3>1
    <3>3. PICK j : j = t - back - c
      OBVIOUS
    <3>4. j \in 0 .. extra /\ j <= t /\ t - j = back + c
      BY <2>1, <2>3, <3>2, <3>3
    <3>5. f \in Heard(V, t - j, back)
      BY <2>1, <3>2, <3>4 DEF Heard
    <3> QED BY <3>4, <3>5
  <2> QED BY <2>1, <2>2, <2>3
<1>3. \A f : f \in Behind(x, t, extra) <=> \E j \in 0 .. extra : j <= t /\ f \in Heard(V, t - j, back)
  BY DEF Behind, Hears
<1> QED BY <1>1, <1>2, <1>3

(* Attention adds the rows of its past, in both forms.                     *)
LEMMA AttendRows ==
  ASSUME SpeechAssumption, NEW mask, NEW F, NEW V, Masked(mask, F, V),
         NEW x, DOMAIN x = 0 .. F - 1, NEW gpu \in BOOLEAN, NEW q \in 0 .. V - 1
  PROVE  Attend(x, mask, gpu)[q] = Behind(x, q, Past - 1)
<1>1. F \in Nat /\ V \in 0 .. F /\ DOMAIN mask = 0 .. F - 1 /\ \A f \in 0 .. F - 1 : mask[f] <=> f < V
  BY RowsMasked
<1>2. Rows(x) = F
  <2>1. Cardinality(0 .. F - 1) = F
    BY <1>1, FS_Interval
  <2> QED BY <2>1 DEF Rows
<1>3. Past \in Nat \ {0} /\ Chunk \in Nat \ {0} /\ Context = Chunk + Past
  BY DEF SpeechAssumption, Past, Context
<1>4. PICK b : b = (q \div Chunk) * Chunk
  OBVIOUS
<1>5. b \in Nat /\ b <= q /\ q < b + Chunk
  <2>1. q \in Nat
    BY <1>1
  <2> QED BY <1>3, <1>4, <2>1, Division
<1> DEFINE value(i) == IF gpu THEN Gathered(x, i) ELSE InContext(x, i)
           keys == {b + at - Past : at \in 0 .. Context - 1}
           valid == {k \in keys : Valid(mask, q, k)}
           past == {k \in 0 .. q : q - k < Past}
<1>6. valid = past
  <2>1. ASSUME NEW k \in past PROVE k \in valid
    <3>1. k - b + Past \in 0 .. Context - 1 /\ b + (k - b + Past) - Past = k
      <4>1. q \in Nat /\ k \in 0 .. q /\ q - k < Past
        BY <1>1
      <4>2. k \in Nat /\ k <= q
        BY <4>1
      <4>3. b \in Nat /\ b <= q /\ q < b + Chunk
        BY <1>5
      <4> QED BY ONLY <1>3, <4>1, <4>2, <4>3
    <3>2. k \in keys
      BY <3>1
    <3>3. Valid(mask, q, k)
      BY <1>1, <1>3 DEF Valid
    <3> QED BY <3>2, <3>3
  <2>2. ASSUME NEW k \in valid PROVE k \in past
    BY <1>1, <2>2 DEF Valid
  <2> QED BY <2>1, <2>2
<1>7. q \in past
  BY <1>1, <1>3
<1>8. \A k \in past : value(k) = x[k]
  BY <1>1, <1>2 DEF Gathered, InContext
<1>9. Attend(x, mask, gpu)[q] = x[q] \cup UNION {value(k) : k \in IF valid = {} THEN keys ELSE valid}
  <2>1. q \in DOMAIN mask
    BY <1>1
  <2> QED BY <1>4, <2>1 DEF Attend
<1> HIDE DEF valid, keys
<1>10. Attend(x, mask, gpu)[q] = x[q] \cup UNION {value(k) : k \in past}
  <2> HIDE DEF value, past
  <2>1. (IF valid = {} THEN keys ELSE valid) = past
    BY <1>6, <1>7
  <2> QED BY <1>9, <2>1
<1>11. Attend(x, mask, gpu)[q] = UNION {x[k] : k \in past}
  <2> HIDE DEF value, past
  <2> QED BY <1>7, <1>8, <1>10
<1>12. Past - 1 \in Nat /\ q \in Nat
  BY <1>1, <1>3
<1>13. UNION {x[k] : k \in past} = Behind(x, q, Past - 1)
  <2>1. ASSUME NEW e, NEW k \in past, e \in x[k] PROVE e \in Behind(x, q, Past - 1)
    <3>1. q - k \in 0 .. Past - 1 /\ q - k <= q /\ q - (q - k) = k
      BY <1>1, <1>3
    <3> HIDE DEF past
    <3> QED BY <2>1, <3>1 DEF Behind
  <2>2. ASSUME NEW e, NEW j \in 0 .. Past - 1, j <= q, e \in x[q - j] PROVE e \in UNION {x[k] : k \in past}
    <3>1. q - j \in past
      BY <1>1, <1>3, <2>2
    <3> HIDE DEF past
    <3> QED BY <2>2, <3>1
  <2> HIDE DEF past
  <2> QED BY <2>1, <2>2 DEF Behind
<1> QED BY <1>11, <1>13

LEMMA ConvolveRows ==
  ASSUME SpeechAssumption, NEW F \in Nat, NEW x, DOMAIN x = 0 .. F - 1, NEW t \in 0 .. F - 1
  PROVE  /\ Convolve(x)[t] = Behind(x, t, KernelSize - 1)
         /\ ConvolveNative(x)[t] = Behind(x, t, KernelSize - 1)
<1>1. PICK e : e = KernelSize - 1
  OBVIOUS
<1>2. e \in Nat /\ KernelSize - 1 = e /\ t \in Nat
  BY <1>1 DEF SpeechAssumption
<1> DEFINE back == {k \in 0 .. e : t + k >= e}
           padded(i) == IF i < e THEN {} ELSE x[i - e]
<1>3. Convolve(x)[t] = x[t] \cup UNION {x[t + k - e] : k \in back}
  BY <1>2 DEF Convolve
<1>4. ConvolveNative(x)[t] = x[t] \cup UNION {padded(k + t) : k \in 0 .. e}
  BY <1>2 DEF ConvolveNative
<1>5. UNION {padded(k + t) : k \in 0 .. e} = UNION {x[t + k - e] : k \in back}
  <2>1. \A k \in 0 .. e : padded(k + t) = IF k \in back THEN x[t + k - e] ELSE {}
    <3>1. ASSUME NEW k \in 0 .. e PROVE padded(k + t) = IF k \in back THEN x[t + k - e] ELSE {}
      <4>1. k + t - e = t + k - e /\ (k + t < e <=> k \notin back)
        BY <1>2
      <4> HIDE DEF back
      <4> QED BY <1>2, <4>1
    <3> HIDE DEF padded, back
    <3> QED BY <3>1
  <2>2. back \subseteq 0 .. e
    OBVIOUS
  <2> HIDE DEF padded, back
  <2> QED BY <2>1, <2>2
<1>6. x[t] \cup UNION {x[t + k - e] : k \in back} = Behind(x, t, e)
  <2>1. ASSUME NEW f \in x[t] PROVE f \in Behind(x, t, e)
    <3>1. 0 \in 0 .. e /\ 0 <= t /\ t - 0 = t
      BY <1>2
    <3> QED BY <3>1 DEF Behind
  <2>2. ASSUME NEW f, NEW k \in back, f \in x[t + k - e] PROVE f \in Behind(x, t, e)
    <3>1. e - k \in 0 .. e /\ e - k <= t /\ t - (e - k) = t + k - e
      BY <1>2
    <3> HIDE DEF back
    <3> QED BY <2>2, <3>1 DEF Behind
  <2>3. ASSUME NEW f, NEW j \in 0 .. e, j <= t, f \in x[t - j] PROVE f \in UNION {x[t + k - e] : k \in back}
    <3>1. e - j \in back /\ t + (e - j) - e = t - j
      BY <1>2, <2>3
    <3> HIDE DEF back
    <3> QED BY <2>3, <3>1
  <2> HIDE DEF back
  <2> QED BY <2>1, <2>2, <2>3 DEF Behind
<1> HIDE DEF back, padded
<1> QED BY <1>2, <1>3, <1>4, <1>5, <1>6

(* How far back one layer looks.                                           *)
Lag == (Past - 1) + (KernelSize - 1)

(* The first W of Q rows hear the frames up to `back` rows behind them.    *)
Output(x, Q, W, V, back) ==
  DOMAIN x = 0 .. Q - 1 /\ \A t \in 0 .. W - 1 : x[t] = Heard(V, t, back)

LEMMA LayerHeard ==
  ASSUME SpeechAssumption, NEW V \in Nat, NEW mask, NEW Q, NEW W, Masked(mask, Q, W),
         NEW x, NEW back \in Nat, Output(x, Q, W, V, back), NEW gpu \in BOOLEAN
  PROVE  Output(ConformerLayer(x, mask, gpu), Q, W, V, back + Lag)
<1> USE DEF Output
<1>1. Q \in Nat /\ W \in 0 .. Q /\ DOMAIN mask = 0 .. Q - 1
  BY RowsMasked
<1>2. Past - 1 \in Nat /\ KernelSize - 1 \in Nat
  BY DEF SpeechAssumption, Past
<1>3. PICK y : y = Attend(x, mask, gpu)
  OBVIOUS
<1>4. DOMAIN y = 0 .. Q - 1
  BY <1>1, <1>3 DEF Attend
<1>6. \A t \in 0 .. W - 1 : y[t] = Heard(V, t, back + (Past - 1))
  <2>1. ASSUME NEW t \in 0 .. W - 1 PROVE y[t] = Heard(V, t, back + (Past - 1))
    <3>1. y[t] = Behind(x, t, Past - 1)
      BY <1>3, AttendRows
    <3>2. PICK e \in Nat : e = Past - 1
      BY <1>2
    <3>3. Hears(x, V, t, back, e)
      BY <1>1, <3>2 DEF Hears
    <3>4. t \in Nat
      BY <1>1
    <3>5. Behind(x, t, e) = Heard(V, t, back + e)
      BY <3>3, <3>4, Widen
    <3> QED BY <3>1, <3>2, <3>5
  <2> QED BY <2>1
<1>7. ASSUME NEW t \in 0 .. W - 1 PROVE Behind(y, t, KernelSize - 1) = Heard(V, t, back + Lag)
  <2>1. back + (Past - 1) \in Nat /\ back + (Past - 1) + (KernelSize - 1) = back + Lag
    BY <1>2 DEF Lag
  <2>2. PICK c : c = back + (Past - 1)
    OBVIOUS
  <2>3. PICK e \in Nat : e = KernelSize - 1
    BY <1>2
  <2>4. Hears(y, V, t, c, e)
    <3>1. \A u \in 0 .. W - 1 : y[u] = Heard(V, u, c)
      BY <1>6, <2>2
    <3>2. \A j \in 0 .. e : j <= t => t - j \in 0 .. W - 1
      BY <1>1
    <3> QED BY <3>1, <3>2 DEF Hears
  <2>5. Behind(y, t, e) = Heard(V, t, c + e)
    <3>1. t \in Nat /\ c \in Nat
      BY <1>1, <2>1, <2>2
    <3> QED BY <2>4, <3>1, Widen
  <2> QED BY <2>1, <2>2, <2>3, <2>5
<1>8. ASSUME NEW t \in 0 .. W - 1
      PROVE  Convolve(y)[t] = Behind(y, t, KernelSize - 1) /\ ConvolveNative(y)[t] = Behind(y, t, KernelSize - 1)
  <2>1. t \in 0 .. Q - 1
    BY <1>1
  <2> QED BY <1>1, <1>4, <2>1, ConvolveRows
<1>9. ConformerLayer(x, mask, gpu) = IF gpu THEN ConvolveNative(y) ELSE Convolve(y)
  BY <1>3 DEF ConformerLayer
<1>10. DOMAIN ConvolveNative(y) = 0 .. Q - 1 /\ DOMAIN Convolve(y) = 0 .. Q - 1
  BY <1>4 DEF ConvolveNative, Convolve
<1> QED BY <1>7, <1>8, <1>9, <1>10

LEMMA ValidRowsFirst ==
  ASSUME NEW mask, NEW Q, NEW W, Masked(mask, Q, W), NEW x
  PROVE  /\ DOMAIN ValidRows(x, mask) = 1 .. W
         /\ \A r \in 1 .. W : ValidRows(x, mask)[r] = x[r - 1]
<1>1. Q \in Nat /\ W \in 0 .. Q /\ DOMAIN mask = 0 .. Q - 1 /\ \A f \in 0 .. Q - 1 : mask[f] <=> f < W
  BY RowsMasked
<1>2. PICK valid : valid = {t \in DOMAIN mask : mask[t]}
  OBVIOUS
<1>3. valid = 0 .. W - 1
  BY <1>1, <1>2
<1>4. Cardinality(valid) = W
  BY <1>1, <1>3, FS_Interval
<1>5. \A t \in valid : Cardinality({u \in valid : u < t}) = t
  <2>1. ASSUME NEW t \in valid PROVE Cardinality({u \in valid : u < t}) = t
    <3>1. {u \in valid : u < t} = 0 .. t - 1 /\ t \in Nat
      BY <1>1, <1>3
    <3>2. Cardinality(0 .. t - 1) = t
      BY <3>1, FS_Interval
    <3> QED BY <3>1, <3>2
  <2> QED BY <2>1
<1>6. ValidRows(x, mask)
        = [r \in 1 .. Cardinality(valid) |-> x[CHOOSE t \in valid : Cardinality({u \in valid : u < t}) = r - 1]]
  BY <1>2 DEF ValidRows
<1>7. ASSUME NEW r \in 1 .. W PROVE ValidRows(x, mask)[r] = x[r - 1]
  <2>1. PICK c : c = CHOOSE t \in valid : Cardinality({u \in valid : u < t}) = r - 1
    OBVIOUS
  <2>2. \E t \in valid : Cardinality({u \in valid : u < t}) = r - 1
    <3>1. r - 1 \in valid
      BY <1>1, <1>3
    <3> QED BY <1>5, <3>1
  <2>3. c \in valid /\ Cardinality({u \in valid : u < c}) = r - 1
    BY <2>1, <2>2
  <2>4. c = r - 1
    BY <1>5, <2>3
  <2> QED BY <1>4, <1>6, <2>1, <2>4
<1> QED BY <1>4, <1>6, <1>7

(* The table of relative positions serves the blocks' own geometry: the    *)
(* context looks back as many rows as the table has distances.             *)
Balanced == Context \div 2 = Past

LEMMA ShiftedIsDistance ==
  ASSUME SpeechAssumption, Balanced, NEW row \in 0 .. Chunk - 1, NEW at \in 0 .. Context - 1,
         row - at + Past \in 0 .. Past - 1
  PROVE  /\ ShiftedDistance(row, at) = row - at + Past
         /\ ShiftedDistanceNative(row, at) = row - at + Past
<1>1. Past \in Nat \ {0} /\ Chunk \in Nat \ {0} /\ Context = Chunk + Past /\ Positions = Past + 1
  BY DEF SpeechAssumption, Balanced, Past, Context, Positions
<1>2. Context \in Nat \ {0}
  BY <1>1
<1>3. PICK far : far = at - row
  OBVIOUS
<1>4. far \in 1 .. Past /\ at - row = far /\ row \in Nat /\ at \in Nat
  BY <1>1, <1>2, <1>3
<1>5. PICK flat : flat = row * Context + at
  OBVIOUS
<1>6. PICK base : base = row * Context
  OBVIOUS
<1>7. base \in Nat /\ flat = base + at /\ flat \in Nat
  BY <1>2, <1>4, <1>5, <1>6
<1>8. flat = row * (Context + 1) + far
  <2>1. row * (Context + 1) = row * Context + row
    BY <1>2, <1>4
  <2> QED BY <1>4, <1>6, <1>7, <2>1
<1>9. flat \div (Context + 1) = row /\ flat % (Context + 1) = far
  <2>1. PICK w : w = Context + 1
    OBVIOUS
  <2>2. w \in Nat \ {0} /\ far \in 0 .. w - 1
    BY <1>1, <1>2, <1>4, <2>1
  <2>3. (row * w + far) \div w = row /\ (row * w + far) % w = far
    BY ONLY <1>4, <2>2, SMT
  <2> QED BY <1>8, <2>1, <2>3
<1>10. ShiftedDistance(row, at) = row - at + Past
  <2>1. ~(far >= Positions)
    BY <1>1, <1>4
  <2>2. ShiftedDistance(row, at) = CASE row # row -> -2 [] far >= Positions -> -1 [] OTHER -> Positions - 1 - far
    BY <1>5, <1>9 DEF ShiftedDistance
  <2>3. ShiftedDistance(row, at) = Positions - 1 - far
    BY <2>1, <2>2
  <2> QED BY <1>1, <1>4, <2>3
<1> DEFINE cell(r, c) == <<r - 1, IF c <= Positions THEN Positions - c ELSE -1>>
<1>11. PICK blocks : blocks = [r \in 1 .. Chunk |-> [c \in 1 .. Context + 1 |-> cell(r, c)]]
  OBVIOUS
<1>12. PICK padded : padded = FlattenSeq(blocks)
  OBVIOUS
<1>13. /\ padded \in Seq(Int \X Int)
       /\ Len(padded) = Chunk * (Context + 1)
       /\ \A r \in 1 .. Chunk, c \in 1 .. Context + 1 : padded[(r - 1) * (Context + 1) + c] = cell(r, c)
  <2>1. \A r \in 1 .. Chunk, c \in 1 .. Context + 1 : cell(r, c) \in Int \X Int
    BY <1>1
  <2>2. PICK w : w = Context + 1
    OBVIOUS
  <2>3. w \in Nat
    BY <1>2, <2>2
  <2> HIDE DEF cell
  <2>0. PICK P : P = Int \X Int
    OBVIOUS
  <2>4. blocks \in [1 .. Chunk -> [1 .. w -> P]]
    BY <1>11, <2>0, <2>1, <2>2
  <2>5. /\ padded \in Seq(P)
        /\ Len(padded) = Chunk * w
        /\ \A r \in 1 .. Chunk, c \in 1 .. w : padded[(r - 1) * w + c] = blocks[r][c]
    <3>1. Chunk \in Nat \ {0}
      BY <1>1
    <3>2. FlattenSeq(blocks) \in Seq(P) /\ Laid(FlattenSeq(blocks), blocks, Chunk, w)
      BY <2>3, <2>4, <3>1, FlattenBlocks
    <3> QED BY <1>12, <3>2 DEF Laid
  <2>6. \A r \in 1 .. Chunk, c \in 1 .. w : blocks[r][c] = cell(r, c)
    BY <1>11, <2>2
  <2> QED BY <2>0, <2>2, <2>5, <2>6
<1>14. PICK i : i = flat + 1
  OBVIOUS
<1>15. padded[i] = cell(row + 1, far + 1)
  <2>1. row + 1 \in 1 .. Chunk /\ far + 1 \in 1 .. Context + 1 /\ row + 1 - 1 = row
    BY <1>1, <1>2, <1>4
  <2>2. padded[(row + 1 - 1) * (Context + 1) + (far + 1)] = cell(row + 1, far + 1)
    <3>1. PICK r, c : r = row + 1 /\ c = far + 1
      OBVIOUS
    <3> HIDE DEF cell
    <3>2. padded[(r - 1) * (Context + 1) + c] = cell(r, c)
      BY <1>13, <2>1, <3>1
    <3> QED BY <3>1, <3>2
  <2>3. (row + 1 - 1) * (Context + 1) + (far + 1) = i
    <3>1. PICK y : y = row * (Context + 1)
      OBVIOUS
    <3>2. y \in Nat /\ flat = y + far
      BY <1>2, <1>4, <1>8, <3>1
    <3>3. (row + 1 - 1) * (Context + 1) = y
      BY <2>1, <3>1
    <3> QED BY <1>4, <1>14, <3>2, <3>3
  <2> QED BY <2>2, <2>3
<1>16. i \in 1 .. Chunk * Context
  <2>1. row + 1 \in 1 .. Chunk /\ at + 1 \in 1 .. Context /\ row + 1 - 1 = row
    BY <1>1, <1>2, <1>4
  <2>2. (row + 1 - 1) * Context + (at + 1) \in 1 .. Chunk * Context
    BY <1>1, <1>2, <2>1, PlaceBelow
  <2>3. (row + 1 - 1) * Context = base
    BY <1>6, <2>1
  <2> QED BY <1>4, <1>7, <1>14, <2>2, <2>3
<1>17. PICK most : most = Chunk * Context
  OBVIOUS
<1>18. most \in Nat /\ most <= Len(padded)
  <2>1. Chunk * (Context + 1) = Chunk * Context + Chunk /\ Chunk * Context \in Nat
    BY <1>1, <1>2
  <2> QED BY <1>1, <1>13, <1>17, <2>1
<1>19. SubSeq(padded, 1, most)[i] = padded[i]
  <2>1. padded \in Seq(Int \X Int) /\ i \in 1 .. most
    BY <1>13, <1>16, <1>17
  <2> QED BY <1>18, <2>1, SubSeqProperties
<1>20. ShiftedDistanceNative(row, at)
         = IF cell(row + 1, far + 1)[1] = row THEN cell(row + 1, far + 1)[2] ELSE -2
  <2>1. ShiftedDistanceNative(row, at)
          = LET score == SubSeq(padded, 1, most)[row * Context + at + 1]
            IN IF score[1] = row THEN score[2] ELSE -2
    BY <1>11, <1>12, <1>17 DEF ShiftedDistanceNative
  <2>2. row * Context + at + 1 = i
    BY <1>5, <1>14
  <2> HIDE DEF cell
  <2> QED BY <1>15, <1>19, <2>1, <2>2
<1>21. cell(row + 1, far + 1)[1] = row /\ cell(row + 1, far + 1)[2] = Positions - (far + 1)
  BY <1>1, <1>4
<1> HIDE DEF cell
<1> QED BY <1>1, <1>4, <1>10, <1>20, <1>21

LEMMA ScoredTrue ==
  ASSUME SpeechAssumption, Balanced, NEW mask, DOMAIN mask \subseteq Nat, NEW gpu \in BOOLEAN,
         NEW s \in Scored(mask, gpu)
  PROVE  s[1] = s[2]
<1> DEFINE block(t) == (t \div Chunk) * Chunk
           q(t, row) == block(t) + row
           k(t, at)  == block(t) + at - Past
           pairs(t, row, at) ==
             IF ~Valid(mask, q(t, row), k(t, at)) THEN {}
             ELSE {<<q(t, row) - k(t, at), IF gpu THEN ShiftedDistanceNative(row, at) ELSE ShiftedDistance(row, at)>>}
<1>1. Scored(mask, gpu) = UNION {pairs(t, row, at) : t \in DOMAIN mask, row \in 0 .. Chunk - 1, at \in 0 .. Context - 1}
  BY DEF Scored
<1>2. PICK t \in DOMAIN mask, row \in 0 .. Chunk - 1, at \in 0 .. Context - 1 : s \in pairs(t, row, at)
  <2> HIDE DEF pairs
  <2> QED BY <1>1
<1>3. Past \in Nat \ {0} /\ Chunk \in Nat \ {0} /\ Context \in Nat \ {0}
  BY DEF SpeechAssumption, Past, Context
<1>4. PICK b : b = block(t)
  OBVIOUS
<1>5. b \in Nat
  <2>1. t \div Chunk \in Nat
    BY <1>3, Division
  <2> QED BY <1>3, <1>4, <2>1
<1>6. Valid(mask, b + row, b + at - Past)
      /\ s = <<(b + row) - (b + at - Past), IF gpu THEN ShiftedDistanceNative(row, at) ELSE ShiftedDistance(row, at)>>
  BY <1>2, <1>4
<1>7. (b + row) - (b + at - Past) = row - at + Past
  BY <1>3, <1>5
<1>8. row - at + Past \in 0 .. Past - 1
  BY <1>3, <1>5, <1>6, <1>7 DEF Valid
<1> QED BY <1>6, <1>7, <1>8, ShiftedIsDistance

(* How many frames of a mask are valid.                                    *)
Valids(mask) == Cardinality({f \in DOMAIN mask : mask[f]})

LEMMA MaskedCounts ==
  ASSUME NEW mask, NEW F, NEW V, Masked(mask, F, V)
  PROVE  Rows(mask) = F /\ Valids(mask) = V
<1>1. F \in Nat /\ V \in 0 .. F /\ Rows(mask) = F /\ DOMAIN mask = 0 .. F - 1 /\ \A f \in 0 .. F - 1 : mask[f] <=> f < V
  BY RowsMasked
<1>2. {f \in DOMAIN mask : mask[f]} = 0 .. V - 1
  BY <1>1
<1>3. Cardinality(0 .. V - 1) = V
  BY <1>1, FS_Interval
<1> QED BY <1>1, <1>2, <1>3 DEF Valids

(* The frames that end in the clip come first.                             *)
LEMMA FeaturesMasked ==
  ASSUME SpeechAssumption, NEW n \in Nat
  PROVE  Masked(Features(n).mask, Rows(Features(n).mask), Valids(Features(n).mask))
<1>1. {Hop, FrameLength, PadMultiple, MaxSamples} \subseteq Nat \ {0}
  BY DEF SpeechAssumption
<1>2. PICK real : real = Min({n, MaxSamples})
  OBVIOUS
<1>3. real \in Nat
  BY <1>1, <1>2, MinOfTwo
<1>4. PadLeft \in Nat
  BY <1>1 DEF PadLeft
<1>5. PICK blocks : blocks = CeilDiv(real, PadMultiple)
  OBVIOUS
<1>6. blocks \in Nat
  <2>1. real + PadMultiple - 1 \in Nat
    BY <1>1, <1>3
  <2> QED BY <1>1, <1>5, <2>1, Division DEF CeilDiv
<1>7. PICK length : length = PadLeft + blocks * PadMultiple
  OBVIOUS
<1>8. length \in Nat
  <2>1. blocks * PadMultiple \in Nat
    BY <1>1, <1>6
  <2> QED BY <1>4, <1>7, <2>1
<1>9. PICK frames : frames = IF length >= FrameLength + 1 THEN (length - (FrameLength + 1)) \div Hop + 1 ELSE 0
  OBVIOUS
<1>10. frames \in Nat
  <2>1. CASE length >= FrameLength + 1
    <3>1. length - (FrameLength + 1) \in Nat
      BY <1>1, <1>8, <2>1
    <3>2. (length - (FrameLength + 1)) \div Hop \in Nat
      BY <1>1, <3>1, Division
    <3> QED BY <1>9, <2>1, <3>2
  <2> QED BY <1>9, <2>1
<1> DEFINE ends(f) == f * Hop + (FrameLength + 1) - 1
           in(f)   == ends(f) >= PadLeft /\ ends(f) - PadLeft < real
<1>11. Features(n).mask = [f \in 0 .. frames - 1 |-> in(f)]
  BY <1>2, <1>5, <1>7, <1>9 DEF Features
<1>12. ASSUME NEW f \in Nat, NEW g \in 0 .. f, in(f) PROVE in(g)
  <2>1. PICK x, y, z : x = f * Hop /\ y = g * Hop /\ z = (f - g) * Hop
    OBVIOUS
  <2>2. x \in Nat /\ y \in Nat /\ z \in Nat /\ x = y + z
    BY <1>1, <2>1
  <2>3. PadLeft <= FrameLength
    BY <1>1 DEF PadLeft
  <2>4. x + FrameLength - PadLeft < real
    BY <1>1, <1>3, <1>4, <1>12, <2>1, <2>2
  <2>5. y + (FrameLength + 1) - 1 >= PadLeft /\ y + (FrameLength + 1) - 1 - PadLeft < real
    BY <1>1, <1>3, <1>4, <2>2, <2>3, <2>4
  <2>6. ends(g) = y + (FrameLength + 1) - 1
    BY <2>1
  <2> HIDE DEF ends
  <2> QED BY <1>1, <1>3, <1>4, <2>2, <2>5, <2>6
<1> HIDE DEF in
<1> DEFINE out == {f \in Nat : f >= frames \/ ~in(f)}
<1>13. PICK V : V = Min(out)
  OBVIOUS
<1>14. V \in out /\ \A f \in out : V <= f
  <2>1. out \in SUBSET Nat /\ frames \in out
    BY <1>10
  <2> HIDE DEF out
  <2> QED BY <1>13, <2>1, MinIn
<1>15. V \in 0 .. frames
  BY <1>10, <1>14
<1>16. \A f \in 0 .. frames - 1 : in(f) <=> f < V
  <2>1. ASSUME NEW f \in 0 .. frames - 1, in(f) PROVE f < V
    <3>1. CASE V <= f
      <4>1. f \in Nat /\ V \in 0 .. f
        BY <1>10, <1>15, <3>1
      <4>2. in(V)
        BY <1>12, <2>1, <4>1
      <4> QED BY <1>10, <1>14, <4>1, <4>2
    <3> QED BY <1>10, <1>15, <3>1
  <2>2. ASSUME NEW f \in 0 .. frames - 1, f < V PROVE in(f)
    BY <1>10, <1>14, <1>15, <2>2
  <2> QED BY <2>1, <2>2
<1>17. \A f \in 0 .. frames - 1 : in(f) = (f < V)
  <2>1. \A f : in(f) \in BOOLEAN
    BY DEF in
  <2> QED BY <1>16, <2>1
<1>18. Features(n).mask = [f \in 0 .. frames - 1 |-> f < V]
  BY <1>11, <1>17
<1>19. Masked(Features(n).mask, frames, V)
  BY <1>10, <1>15, <1>18 DEF Masked
<1> QED BY <1>19, MaskedCounts

-------------------------------------------------------------------------------
(* What decode_wav reads.                                                  *)

LegalFile(file) ==
  /\ {file.size, file.riff} \subseteq Nat
  /\ \A at \in DOMAIN file.chunks :
       LET chunk == file.chunks[at]
       IN {chunk.len, chunk.fmt.channels, chunk.fmt.rate, chunk.fmt.width, chunk.fmt.align} \subseteq Nat

NoFormat == [valid |-> FALSE, channels |-> 0, rate |-> 0, width |-> 0, align |-> 0]

Formats(file) == {NoFormat} \cup {file.chunks[at].fmt : at \in DOMAIN file.chunks}

(* What it knows between two chunks.                                       *)
WavStates(file) ==
  [pos : Nat, refused : BOOLEAN, found : BOOLEAN, data : {d \in SUBSET Nat : IsFiniteSet(d)}, fmt : Formats(file)]

LEMMA FormatsTyped ==
  ASSUME NEW file, LegalFile(file), NEW fmt \in Formats(file)
  PROVE  {fmt.channels, fmt.rate, fmt.width, fmt.align} \subseteq Nat
<1>1. CASE fmt = NoFormat
  BY <1>1 DEF NoFormat
<1>2. CASE fmt # NoFormat
  BY <1>2 DEF Formats, LegalFile
<1> QED BY <1>1, <1>2

LEMMA WavChunkType ==
  ASSUME NEW file, LegalFile(file), NEW w \in WavStates(file)
  PROVE  WavChunk(file, w) \in WavStates(file)
<1>1. PICK chunk : chunk = IF w.pos \in DOMAIN file.chunks THEN file.chunks[w.pos]
                           ELSE [id |-> "other", len |-> 0, fmt |-> w.fmt]
  OBVIOUS
<1>2. chunk.len \in Nat /\ chunk.fmt \in Formats(file)
  BY <1>1 DEF LegalFile, Formats, WavStates
<1>3. PICK body : body = w.pos + 8
  OBVIOUS
<1>4. PICK end : end = body + chunk.len
  OBVIOUS
<1>5. PICK next : next = end + (chunk.len % 2)
  OBVIOUS
<1>6. body \in Nat /\ end \in Nat /\ next \in Nat
  BY <1>2, <1>3, <1>4, <1>5 DEF WavStates
<1>7. body .. end - 1 \in {d \in SUBSET Nat : IsFiniteSet(d)}
  BY <1>6, FS_Interval
<1>8. WavChunk(file, w)
        = IF w.refused \/ w.pos >= file.riff THEN w
          ELSE IF next > file.riff \/ (chunk.id = "fmt" /\ ~chunk.fmt.valid)
          THEN [w EXCEPT !.refused = TRUE]
          ELSE [w EXCEPT !.pos = next,
                         !.fmt = IF chunk.id = "fmt" THEN chunk.fmt ELSE @,
                         !.data = IF chunk.id = "data" THEN body .. end - 1 ELSE @,
                         !.found = @ \/ chunk.id = "data"]
  BY <1>1, <1>3, <1>4, <1>5 DEF WavChunk
<1> QED BY <1>2, <1>6, <1>7, <1>8 DEF WavStates

LEMMA DecodeWavType ==
  ASSUME NEW file, LegalFile(file)
  PROVE  Len(DecodeWav(file).samples) \in Nat
<1>1. PICK A : A = WavStates(file)
  OBVIOUS
<1> DEFINE start == [pos |-> 12, refused |-> FALSE, found |-> FALSE, data |-> {}, fmt |-> NoFormat]
           m     == file.size \div 8
           Is(f) == f = [n \in 0 .. m |-> IF n = 0 THEN start ELSE WavChunk(file, f[n - 1])]
           ok(w) == /\ file.riff \in 12 .. file.size /\ ~w.refused /\ w.found
                    /\ w.fmt.channels \in {1, 2} /\ w.fmt.rate > 0 /\ w.fmt.width > 0
                    /\ w.fmt.align = w.fmt.channels * w.fmt.width
                    /\ Cardinality(w.data) % w.fmt.align = 0
           all(w) == [s \in 1 .. Cardinality(w.data) \div w.fmt.align |->
                       {Min(w.data) + (s - 1) * w.fmt.align + b : b \in 0 .. w.fmt.align - 1}]
           result(w) == [ok |-> ok(w), rate |-> w.fmt.rate, samples |-> IF ~ok(w) THEN <<>> ELSE all(w)]
<1>2. DecodeWav(file) = result((CHOOSE f : Is(f))[m])
  BY DEF DecodeWav, NoFormat
<1>3. start \in A
  <2>1. {} \in {d \in SUBSET Nat : IsFiniteSet(d)}
    BY FS_EmptySet
  <2>2. NoFormat \in Formats(file)
    BY DEF Formats
  <2> QED BY <1>1, <2>1, <2>2 DEF WavStates
<1>4. \A w \in A : WavChunk(file, w) \in A
  BY <1>1, WavChunkType
<1>6. m \in Nat
  BY Division DEF LegalFile
<1> HIDE DEF m, start, ok, all
<1> DEFINE step == [x \in A \X Nat |-> WavChunk(file, x[1])]
<1>7. Is(CHOOSE f : Is(f))
  <2>1. step \in [A \X Nat -> A]
    BY <1>4
  <2>2. PICK g : Iterates(g, A, start, step, m)
    <3> HIDE DEF step
    <3> QED BY <1>3, <1>6, <2>1, Recursion
  <2>3. g \in [0 .. m -> A] /\ g[0] = start /\ \A i \in 1 .. m : g[i] = step[<<g[i - 1], i>>]
    BY <2>2 DEF Iterates
  <2>4. \A i \in 1 .. m : g[i] = WavChunk(file, g[i - 1])
    <3> TAKE i \in 1 .. m
    <3>1. <<g[i - 1], i>> \in A \X Nat
      BY <1>6, <2>3
    <3> QED BY <2>3, <3>1
  <2> HIDE DEF step
  <2>5. Is(g)
    <3>1. g = [i \in 0 .. m |-> g[i]]
      BY <2>3
    <3>2. \A i \in 0 .. m : g[i] = IF i = 0 THEN start ELSE WavChunk(file, g[i - 1])
      <4>1. \A i \in 0 .. m : i = 0 \/ i \in 1 .. m
        BY <1>6
      <4> QED BY <2>3, <2>4, <4>1
    <3> QED BY <3>1, <3>2
  <2> HIDE DEF Is
  <2> QED BY <2>5
<1>8. PICK read : read = CHOOSE f : Is(f)
  OBVIOUS
<1>9. Is(read)
  BY <1>7, <1>8
<1>10. read[m] \in A
  <2> DEFINE T == {i \in Nat : i <= m => read[i] \in A}
  <2>1. 0 \in T
    BY <1>3, <1>6, <1>9
  <2>2. ASSUME NEW i \in T PROVE i + 1 \in T
    <3>1. CASE i + 1 <= m
      <4>1. read[i] \in A
        BY <1>6, <3>1
      <4>2. i + 1 \in 0 .. m /\ i + 1 # 0 /\ (i + 1) - 1 = i
        BY <1>6, <3>1
      <4>3. read[i + 1] = WavChunk(file, read[i])
        BY <1>9, <4>2
      <4> QED BY <1>4, <4>1, <4>3
    <3> QED BY <3>1
  <2>3. T = Nat
    <3>1. T \in SUBSET Nat
      OBVIOUS
    <3> HIDE DEF T
    <3> QED BY <2>1, <2>2, <3>1, Induction
  <2> QED BY <1>6, <2>3
<1>11. PICK w : w = read[m]
  OBVIOUS
<1>12. DecodeWav(file) = result(w)
  <2> HIDE DEF Is
  <2> QED BY <1>2, <1>8, <1>11
<1> HIDE DEF Is
<1>15. CASE ok(w)
  <2>1. w.data \in {d \in SUBSET Nat : IsFiniteSet(d)} /\ w.fmt \in Formats(file)
    BY <1>1, <1>10, <1>11 DEF WavStates
  <2>2. w.fmt.channels \in {1, 2} /\ w.fmt.width > 0 /\ w.fmt.align = w.fmt.channels * w.fmt.width
        /\ w.fmt.width \in Nat
    BY <1>15, <2>1, FormatsTyped DEF ok
  <2>3. w.fmt.align \in Nat \ {0}
    <3>1. CASE w.fmt.channels = 1
      BY <2>2, <3>1
    <3>2. CASE w.fmt.channels = 2
      BY <2>2, <3>2
    <3> QED BY <2>2, <3>1, <3>2
  <2>4. Cardinality(w.data) \in Nat
    BY <2>1, FS_CardinalityType
  <2>5. PICK c : c = Cardinality(w.data) \div w.fmt.align
    OBVIOUS
  <2>6. c \in Nat
    BY <2>3, <2>4, <2>5, Division
  <2>7. PICK s, S : s = all(w) /\ S = {s[i] : i \in 1 .. c}
    OBVIOUS
  <2>8. s \in [1 .. c -> S]
    BY <2>5, <2>7 DEF all
  <2>9. DecodeWav(file).samples = s
    BY <1>12, <1>15, <2>7
  <2> QED BY <2>6, <2>8, <2>9, FunctionSeq
<1>16. CASE ~ok(w)
  <2>1. DecodeWav(file).samples = <<>>
    BY <1>12, <1>16
  <2> QED BY <2>1
<1> QED BY <1>15, <1>16

-------------------------------------------------------------------------------
(* What a picture decodes to.                                              *)

(* The integer square root that Snapped chooses exists.                    *)
LEMMA SnappedType ==
  ASSUME NEW a \in Nat \ {0}, NEW b \in Nat \ {0}, NEW soft \in Nat
  PROVE  Snapped(a, b, soft) \subseteq Nat
<1>1. PICK s : s = soft * a
  OBVIOUS
<1>2. s \in Nat
  BY <1>1
<1> DEFINE Is(k) == k * k * b <= s /\ (k + 1) * (k + 1) * b > s
           T     == {k \in Nat : (k + 1) * (k + 1) * b > s}
<1>3. ASSUME NEW k \in Nat PROVE k * k * b \in Nat /\ k * k * b >= k
  <2>1. PICK d : d = k * k
    OBVIOUS
  <2>2. d \in Nat /\ d >= k
    BY <2>1
  <2>3. d * b \in Nat /\ d * b >= d
    BY <2>2
  <2> QED BY <2>1, <2>2, <2>3
<1>4. s \in T
  <2>1. (s + 1) * (s + 1) * b >= s + 1
    BY <1>2, <1>3
  <2> QED BY <1>2, <1>3, <2>1
<1>5. PICK m : m = Min(T)
  OBVIOUS
<1>6. m \in T /\ \A k \in T : m <= k
  <2>1. T \in SUBSET Nat
    OBVIOUS
  <2> HIDE DEF T
  <2> QED BY <1>4, <1>5, <2>1, MinIn
<1>7. m \in 0 .. s /\ Is(m)
  <2>1. m \in 0 .. s
    BY <1>2, <1>4, <1>6
  <2>2. m * m * b <= s
    <3>1. CASE m = 0
      BY <1>2, <3>1
    <3>2. CASE m # 0
      <4>1. m - 1 \in Nat /\ (m - 1) + 1 = m /\ m - 1 \notin T
        BY <1>6, <3>2
      <4>2. m * m * b \in Nat
        BY <1>3, <1>6
      <4>3. ~(m * m * b > s)
        BY <4>1
      <4> QED BY <1>2, <4>2, <4>3
    <3> QED BY <3>1, <3>2
  <2> QED BY <1>6, <2>1, <2>2
<1>8. PICK k : k = CHOOSE j \in 0 .. s : Is(j)
  OBVIOUS
<1>9. k \in 0 .. s
  <2> HIDE DEF Is
  <2> QED BY <1>7, <1>8
<1>10. Snapped(a, b, soft) = IF k * k * b = s /\ k > 0 THEN {k, k - 1} ELSE {k}
  BY <1>1, <1>8 DEF Snapped
<1> QED BY <1>2, <1>9, <1>10

LEMMA TargetSizeType ==
  ASSUME NEW h \in Nat \ {0}, NEW w \in Nat \ {0}, NEW soft \in Nat, NEW t \in TargetSize(h, w, soft)
  PROVE  t \in Nat \X Nat
<1> DEFINE size(a, b) == CASE a = 0 /\ b > 0 -> <<1, Min({w \div h, soft})>>
                           [] b = 0 /\ a > 0 -> <<Min({h \div w, soft}), 1>>
                           [] OTHER          -> <<a, b>>
<1>1. PICK a \in Snapped(h, w, soft), b \in Snapped(w, h, soft) : t = size(a, b)
  <2> DEFINE all == {size(a, b) : a \in Snapped(h, w, soft), b \in Snapped(w, h, soft)}
  <2>1. TargetSize(h, w, soft) = {u \in all : u # <<0, 0>> /\ u[1] * u[2] <= soft}
    BY DEF TargetSize
  <2>2. t \in all
    <3> HIDE DEF all
    <3> QED BY <2>1
  <2> HIDE DEF size
  <2> QED BY <2>2
<1>2. a \in Nat /\ b \in Nat
  BY <1>1, SnappedType
<1>3. Min({w \div h, soft}) \in Nat /\ Min({h \div w, soft}) \in Nat
  <2>1. w \div h \in Nat /\ h \div w \in Nat
    BY Division
  <2> QED BY <2>1, MinOfTwo
<1>4. CASE a = 0 /\ b > 0
  <2>1. ~(b = 0 /\ a > 0)
    BY <1>2, <1>4
  <2>2. t = <<1, Min({w \div h, soft})>>
    BY <1>1, <1>4, <2>1, Zenon
  <2> QED BY <1>3, <2>2
<1>5. CASE b = 0 /\ a > 0
  <2>1. ~(a = 0 /\ b > 0)
    BY <1>2, <1>5
  <2>2. t = <<Min({h \div w, soft}), 1>>
    BY <1>1, <1>5, <2>1, Zenon
  <2> QED BY <1>3, <2>2
<1>6. CASE ~(a = 0 /\ b > 0) /\ ~(b = 0 /\ a > 0)
  <2>1. t = <<a, b>>
    BY <1>1, <1>6, Zenon
  <2> QED BY <1>2, <2>1
<1> QED BY <1>4, <1>5, <1>6

LEMMA PreprocessType ==
  ASSUME ImageAssumption, NEW h \in Nat \ {0}, NEW w \in Nat \ {0}, NEW soft \in Nat, NEW p \in Preprocess(h, w, soft)
  PROVE  Len(p.patches) \in Nat /\ p.soft \in Nat
<1>1. Pool \in Nat \ {0}
  BY DEF ImageAssumption
<1>2. PICK t \in TargetSize(h, w, soft) :
        LET pw == t[2] * Pool
            ph == t[1] * Pool
        IN p = [patches |-> [i \in 1 .. MaxPatches(soft) |->
                  IF i <= ph * pw
                  THEN PatchAt(w, h, t[2] * Side, t[1] * Side, (i - 1) % pw, (i - 1) \div pw)
                  ELSE [x |-> -1, y |-> -1, cols |-> {}, rows |-> {}]],
                soft |-> (ph * pw) \div (Pool * Pool)]
  BY DEF Preprocess
<1>3. t \in Nat \X Nat
  BY TargetSizeType
<1>4. PICK f : f = p.patches
  OBVIOUS
<1>5. PICK most : most = MaxPatches(soft)
  OBVIOUS
<1>6. most \in Nat
  <2>1. soft * Pool \in Nat
    BY <1>1
  <2>2. soft * Pool * Pool \in Nat
    BY <1>1, <2>1
  <2> QED BY <1>5, <2>2 DEF MaxPatches
<1>7. PICK S : S = {f[i] : i \in 1 .. most}
  OBVIOUS
<1>8. f \in [1 .. most -> S]
  BY <1>2, <1>4, <1>5, <1>7
<1>9. Len(f) \in Nat
  BY <1>6, <1>8, FunctionSeq
<1>10. p.soft \in Nat
  <2>1. PICK x, y : x = t[1] * Pool /\ y = t[2] * Pool
    OBVIOUS
  <2>2. x \in Nat /\ y \in Nat
    BY <1>1, <1>3, <2>1
  <2>3. PICK c, d : c = x * y /\ d = Pool * Pool
    OBVIOUS
  <2>4. c \in Nat /\ d \in Nat \ {0}
    BY <1>1, <2>2, <2>3
  <2>5. p.soft = c \div d
    BY <1>2, <2>1, <2>3
  <2> QED BY <2>4, <2>5, Division
<1> QED BY <1>4, <1>9, <1>10

Appended(Q, F) == {Append(q, f) : q \in Q, f \in F}

Long(Q, n) == \A q \in Q : Len(q) = n

LEMMA AppendedType ==
  ASSUME NEW X, NEW Q \in SUBSET Seq(X), NEW F \in SUBSET X
  PROVE  /\ Appended(Q, F) \in SUBSET Seq(X)
         /\ \A n \in Nat : Long(Q, n) => Long(Appended(Q, F), n + 1)
<1>1. \A q \in Q, f \in F : Append(q, f) \in Seq(X) /\ Len(Append(q, f)) = Len(q) + 1
  <2> TAKE q \in Q, f \in F
  <2>1. q \in Seq(X) /\ f \in X
    OBVIOUS
  <2> QED BY <2>1, AppendProperties
<1> QED BY <1>1 DEF Appended, Long

Sampled(s) == \E n \in Nat \ {0} : DOMAIN s = 1 .. n

(* A video has a picture for each frame sampled, and one at least.         *)
LEMMA SampledFramesType ==
  ASSUME ImageAssumption, NEW total \in Nat \ {0}, NEW num, NEW den, NEW seconds \in Nat,
         NEW s \in SampledFrames(total, num, den, seconds)
  PROVE  Sampled(s)
<1> DEFINE count == IF num = 0 THEN total ELSE Max({1, seconds})
           m     == Min({count, MaxSampled})
           positions(i) ==
             CASE m = count -> {i}
               [] count > m /\ i + 1 = m -> {count - 1}
               [] OTHER -> Truncated(i * (count - 1), m - 1, (count - 1) % (m - 1) # 0)
           frames(p) == IF num = 0 THEN {p}
                        ELSE {Min({f, total - 1}) : f \in Truncated(p * num, den, Rounded(den))}
           next(n) == UNION {frames(p) : p \in positions(n - 1)}
           Is(c) == c = [n \in 0 .. m |->
                           IF n = 0 THEN {<<>>} ELSE Appended(c[n - 1], next(n))]
<1>1. SampledFrames(total, num, den, seconds) = (CHOOSE c : Is(c))[m]
  BY DEF SampledFrames, Appended
<1>2. m \in Nat \ {0}
  <2>1. count \in Nat \ {0}
    <3>1. Max({1, seconds}) \in Nat \ {0}
      BY MaxOfTwo
    <3> QED BY <3>1
  <2>2. MaxSampled \in Nat \ {0}
    BY DEF ImageAssumption
  <2> HIDE DEF count
  <2> QED BY <2>1, <2>2, MinOfTwo
<1> HIDE DEF count, m, positions, frames, next
<1>3. PICK X : X = UNION {next(n) : n \in 1 .. m}
  OBVIOUS
<1>4. PICK A : A = SUBSET Seq(X)
  OBVIOUS
<1> DEFINE step == [x \in A \X Nat |->
                     Appended(x[1], IF x[2] \in 1 .. m THEN next(x[2]) ELSE {})]
<1>5. Is(CHOOSE c : Is(c))
  <2>1. step \in [A \X Nat -> A]
    <3>1. ASSUME NEW x \in A \X Nat
          PROVE  Appended(x[1], IF x[2] \in 1 .. m THEN next(x[2]) ELSE {}) \in A
      <4>1. x[1] \subseteq Seq(X) /\ (IF x[2] \in 1 .. m THEN next(x[2]) ELSE {}) \subseteq X
        BY <1>3, <1>4
      <4> QED BY <1>4, <4>1, AppendedType
    <3> QED BY <3>1
  <2>2. {<<>>} \in A
    BY <1>4
  <2>3. PICK g : Iterates(g, A, {<<>>}, step, m)
    <3> HIDE DEF step
    <3> QED BY <1>2, <2>1, <2>2, Recursion
  <2>4. g \in [0 .. m -> A] /\ g[0] = {<<>>} /\ \A i \in 1 .. m : g[i] = step[<<g[i - 1], i>>]
    BY <2>3 DEF Iterates
  <2>5. ASSUME NEW i \in 1 .. m PROVE g[i] = Appended(g[i - 1], next(i))
    <3>1. <<g[i - 1], i>> \in A \X Nat
      BY <1>2, <2>4
    <3>2. step[<<g[i - 1], i>>] = Appended(g[i - 1], next(i))
      BY <3>1
    <3> QED BY <2>4, <3>2
  <2> HIDE DEF step
  <2>6. Is(g)
    BY <1>2, <2>4, <2>5
  <2> HIDE DEF Is
  <2> QED BY <2>6
<1>6. PICK c : c = CHOOSE f : Is(f)
  OBVIOUS
<1>7. Is(c)
  BY <1>5, <1>6
<1> DEFINE Sized(i) == c[i] \in SUBSET Seq(X) /\ Long(c[i], i)
           T == {i \in Nat : i <= m => Sized(i)}
<1>8. 0 \in T
  <2>1. c[0] = {<<>>}
    BY <1>2, <1>7
  <2>2. <<>> \in Seq(X) /\ Len(<<>>) = 0
    OBVIOUS
  <2> HIDE DEF Is
  <2> QED BY <2>1, <2>2 DEF Long
<1>9. ASSUME NEW i \in T PROVE i + 1 \in T
  <2>1. CASE i + 1 <= m
    <3>1. Sized(i)
      BY <1>2, <2>1
    <3>2. i + 1 \in 0 .. m /\ i + 1 # 0 /\ (i + 1) - 1 = i /\ i + 1 \in 1 .. m
      BY <1>2, <2>1
    <3>3. c[i + 1] = Appended(c[i], next(i + 1))
      <4>1. PICK j : j = i + 1
        OBVIOUS
      <4>2. c[j] = Appended(c[j - 1], next(j))
        BY <1>7, <3>2, <4>1
      <4> QED BY <3>2, <4>1, <4>2
    <3>4. next(i + 1) \subseteq X
      BY <1>3, <3>2
    <3>5. PICK Q, F : Q = c[i] /\ F = next(i + 1)
      OBVIOUS
    <3>6. Q \in SUBSET Seq(X) /\ F \in SUBSET X /\ Long(Q, i) /\ i \in Nat
      BY <3>1, <3>4, <3>5
    <3>7. Appended(Q, F) \in SUBSET Seq(X) /\ Long(Appended(Q, F), i + 1)
      BY <3>6, AppendedType
    <3>8. c[i + 1] \in SUBSET Seq(X) /\ Long(c[i + 1], i + 1)
      BY <3>3, <3>5, <3>7
    <3> QED BY <3>8
  <2> QED BY <2>1
<1>10. m \in T
  <2>1. T \in SUBSET Nat
    OBVIOUS
  <2>2. T = Nat
    <3> HIDE DEF T
    <3> QED BY <1>8, <1>9, <2>1, Induction
  <2> QED BY <1>2, <2>2
<1>11. s \in c[m]
  <2> HIDE DEF Is
  <2> QED BY <1>1, <1>6
<1>12. s \in Seq(X) /\ Len(s) = m
  BY <1>2, <1>10, <1>11 DEF Long
<1>13. DOMAIN s = 1 .. m
  BY <1>12, LenProperties
<1> QED BY <1>2, <1>13 DEF Sampled

-------------------------------------------------------------------------------
(* Sequences of tokens.                                                    *)

Token == {"bos", "eos", "start", "end", "soft", "word"}

LEMMA WordsType ==
  ASSUME NEW n \in Nat
  PROVE  Words(n) \in Seq(Token)
<1>1. PICK w : w = [i \in 1 .. n |-> "word"]
  OBVIOUS
<1>2. w \in Seq(Token)
  <2>1. w \in [1 .. n -> Token]
    BY <1>1 DEF Token
  <2> QED BY <2>1, FunctionSeq
<1>3. <<"bos">> \in Seq(Token) /\ <<"eos">> \in Seq(Token)
  BY DEF Token
<1> QED BY <1>1, <1>2, <1>3, ConcatProperties DEF Words

LEMMA MediaIdsType ==
  ASSUME NEW count \in Nat, NEW times \in Nat
  PROVE  MediaIds(count, times) \in Seq(Token)
<1>1. PICK w : w = [i \in 1 .. count |-> "soft"]
  OBVIOUS
<1>2. w \in Seq(Token)
  <2>1. w \in [1 .. count -> Token]
    BY <1>1 DEF Token
  <2> QED BY <2>1, FunctionSeq
<1>3. {<<"bos">>, <<"eos">>, <<"start">>, <<"end">>} \subseteq Seq(Token)
  BY DEF Token
<1>4. PICK b : b = <<"start">> \o w \o <<"end">>
  OBVIOUS
<1>5. b \in Seq(Token)
  BY <1>2, <1>3, <1>4, ConcatProperties
<1>6. PICK S : S = Seq(Token)
  OBVIOUS
<1>7. PICK seqs : seqs = [f \in 1 .. times |-> b]
  OBVIOUS
<1>8. seqs \in Seq(S)
  <2>1. seqs \in [1 .. times -> S]
    BY <1>5, <1>6, <1>7
  <2> QED BY <2>1, FunctionSeq
<1>9. FlattenSeq(seqs) \in Seq(Token)
  BY <1>6, <1>8, FlattenType
<1>10. MediaIds(count, times) = <<"bos">> \o FlattenSeq(seqs) \o <<"eos">>
  BY <1>1, <1>4, <1>7 DEF MediaIds
<1> QED BY <1>3, <1>9, <1>10, ConcatProperties

-------------------------------------------------------------------------------
(* What an input decodes to.                                               *)

Picture(p) == Len(p.patches) \in Nat /\ p.soft \in Nat

Shown(pictures) ==
  Len(pictures) \in Nat \ {0} /\ \A i \in 1 .. Len(pictures) : Picture(pictures[i])

LEMMA NoneEmpty ==
  ASSUME NEW w \in Nat, NEW h \in Nat, NEW most \in Nat, w * h \in 1 .. most
  PROVE  w \in Nat \ {0} /\ h \in Nat \ {0}
<1>1. w = 0 => w * h = 0
  OBVIOUS
<1>2. h = 0 => w * h = 0
  OBVIOUS
<1> QED BY <1>1, <1>2

LEMMA PicturesType ==
  ASSUME ImageAssumption, NEW w \in Nat, NEW h \in Nat, NEW most \in Nat, NEW budget \in Nat,
         NEW p \in Pictures(w, h, most, budget)
  PROVE  Picture(p)
<1>1. p \in Preprocess(h, w, budget) /\ w * h \in 1 .. most
  BY DEF Pictures
<1>2. w \in Nat \ {0} /\ h \in Nat \ {0}
  BY <1>1, NoneEmpty
<1> QED BY <1>1, <1>2, PreprocessType DEF Picture

LEMMA ShownOnce ==
  ASSUME NEW p, Picture(p)
  PROVE  Shown(<<p>>)
BY DEF Shown

LEMMA ShownEach ==
  ASSUME NEW p, Picture(p), NEW s, Sampled(s)
  PROVE  Shown([i \in DOMAIN s |-> p])
<1>1. PICK n \in Nat \ {0} : DOMAIN s = 1 .. n
  BY DEF Sampled
<1>2. PICK q, P : q = [i \in DOMAIN s |-> p] /\ P = {p}
  OBVIOUS
<1>3. q \in [1 .. n -> P]
  BY <1>1, <1>2
<1>4. Len(q) = n
  BY <1>3, FunctionSeq
<1> QED BY <1>1, <1>2, <1>4 DEF Shown

LEMMA TruncatedType ==
  ASSUME NEW a \in Nat, NEW b \in Nat \ {0}, NEW rounded
  PROVE  Truncated(a, b, rounded) \subseteq Nat
<1>1. PICK q : q = a \div b
  OBVIOUS
<1>2. q \in Nat
  BY <1>1, Division
<1>3. Max({0, q - 1}) \in Nat
  BY <1>2, MaxOfTwo
<1> QED BY <1>1, <1>2, <1>3 DEF Truncated

(* Metadata, and what of it is known if it is valid.                       *)
Metadata(m) == m.total \in Nat /\ m.num \in Int /\ m.den \in Nat /\ m.span \in Int /\ m.unit \in Int

LEMMA ValidIs ==
  ASSUME NEW m, Metadata(m), Validate(m)
  PROVE  /\ m.total \in Nat \ {0}
         /\ Timed(m.known) =>
              m.num \in Nat \ {0} /\ m.den \in Nat \ {0} /\ m.span \in Nat \ {0} /\ m.unit \in Nat \ {0}
<1>1. m.total \in Nat \ {0}
  BY DEF Metadata, Validate
<1>2. ASSUME Timed(m.known)
      PROVE  m.num \in Nat \ {0} /\ m.den \in Nat \ {0} /\ m.span \in Nat \ {0} /\ m.unit \in Nat \ {0}
  <2>1. m.den > 0 /\ m.num > 0 /\ m.unit > 0 /\ m.span > 0
    BY <1>2 DEF Timed, Validate, Within
  <2> QED BY <2>1 DEF Metadata
<1> QED BY <1>1, <1>2

LEMMA MetadataAre ==
  ASSUME Legal(input), input.kind \in {"container", "frames"}
  PROVE  Metadata(Counted) /\ Metadata(Given)
<1>1. PICK total, declared, num, den, span, unit :
        /\ total = input.total /\ declared = input.declared /\ num = input.num
        /\ den = input.den /\ span = input.span /\ unit = input.unit
  OBVIOUS
<1>2. total \in Nat /\ declared \in Nat /\ den \in Nat /\ unit \in Nat /\ num \in Int /\ span \in Int
  BY <1>1 DEF Legal
<1>3. total * den \in Nat
  BY <1>2
<1>4. /\ Counted.total = total /\ Counted.num = num /\ Counted.den = den
      /\ Counted.span = total * den /\ Counted.unit = num
  BY <1>1 DEF Counted
<1>5. /\ Given.total = declared /\ Given.num = num /\ Given.den = den
      /\ Given.span = span /\ Given.unit = unit
  BY <1>1 DEF Given
<1>6. Metadata(Counted)
  BY <1>2, <1>3, <1>4 DEF Metadata
<1>7. Metadata(Given)
  BY <1>2, <1>5 DEF Metadata
<1> QED BY <1>6, <1>7

LEMMA SampleFramesType ==
  ASSUME ImageAssumption, NEW m, Metadata(m), NEW s \in SampleFrames(m)
  PROVE  Sampled(s)
<1>1. Validate(m)
  BY DEF SampleFrames
<1>2. m.total \in Nat \ {0}
  BY <1>1, ValidIs
<1>3. CASE Timed(m.known)
  <2>1. PICK d \in Truncated(m.span, m.unit, m.rounded) : s \in SampledFrames(m.total, m.num, m.den, d)
    BY <1>1, <1>3 DEF SampleFrames
  <2>2. d \in Nat
    BY <1>1, <1>3, ValidIs, TruncatedType
  <2> QED BY <1>2, <2>1, <2>2, SampledFramesType
<1>4. CASE ~Timed(m.known)
  <2>1. s \in SampledFrames(m.total, 0, 1, 0)
    BY <1>1, <1>4 DEF SampleFrames
  <2> QED BY <1>2, <2>1, SampledFramesType
<1> QED BY <1>3, <1>4

LEMMA DecodedShape ==
  ASSUME SpeechAssumption, ImageAssumption, EmbeddingAssumption, input \in Inputs, NEW m \in Decodings
  PROVE  /\ m.scored = {} /\ DOMAIN m = DOMAIN None
         /\ input.kind \notin {"texts", "audio"} => Shown(m.pictures)
         /\ input.kind = "audio" =>
              m.pictures = <<>> /\ Len(m.samples) \in Nat /\ m.mask = Features(Len(m.samples)).mask
<1>1. Legal(input)
  BY DEF EmbeddingAssumption
<1>2. ImageTokens \in Nat /\ VideoBudget \in Nat
  BY DEF EmbeddingAssumption, VideoBudget
<1>3. CASE input.kind = "texts"
  <2>1. Decodings = {None}
    BY <1>3 DEF Decodings
  <2> QED BY <1>3, <2>1 DEF None
<1>4. CASE input.kind \in {"image", "jpeg"}
  <2>1. Decodings = DecodeImage
    BY <1>4 DEF Decodings
  <2>2. PICK p \in Pictures(input.width, input.height, MaxPixels, ImageTokens) : m = [None EXCEPT !.pictures = <<p>>]
    BY <2>1 DEF DecodeImage
  <2>3. {input.width, input.height, MaxPixels} \subseteq Nat
    BY <1>1, <1>4 DEF Legal, ImageAssumption
  <2>4. Picture(p)
    BY <1>2, <2>3, PicturesType
  <2>5. m.scored = {} /\ m.pictures = <<p>> /\ DOMAIN m = DOMAIN None
    BY <2>2 DEF None
  <2> QED BY <1>4, <2>4, <2>5, ShownOnce
<1>5. CASE input.kind = "container"
  <2>1. Decodings = DecodeContainer
    BY <1>5 DEF Decodings
  <2>2. PICK s \in Sampling, p \in Shots : m = Video(s, p, SelectedFrames(s))
    BY <2>1 DEF DecodeContainer
  <2>3. {input.width, input.height, FramePixels} \subseteq Nat /\ Metadata(Counted)
    BY <1>1, <1>5, MetadataAre DEF Legal, ImageAssumption
  <2>4. Picture(p)
    <3>1. input.width \in Nat /\ input.height \in Nat /\ FramePixels \in Nat
      BY <2>3
    <3> QED BY <1>2, <3>1, PicturesType DEF Shots
  <2>5. s \in SampleFrames(Counted)
    BY DEF Sampling
  <2>6. Sampled(s)
    BY <2>3, <2>5, SampleFramesType
  <2>7. m.scored = {} /\ DOMAIN m = DOMAIN None /\ m.pictures = [i \in DOMAIN s |-> p]
    BY <2>2 DEF Video, None
  <2>8. Shown([i \in DOMAIN s |-> p])
    BY <2>4, <2>6, ShownEach
  <2>9. Shown(m.pictures)
    BY <2>7, <2>8
  <2> QED BY <1>5, <2>7, <2>9
<1>6. CASE input.kind = "frames"
  <2>1. Decodings = PreprocessDecoded
    BY <1>6 DEF Decodings
  <2>2. PICK s \in Choosing, p \in Shots : m = Video(s, p, s)
    BY <2>1 DEF PreprocessDecoded
  <2>3. {input.width, input.height, FramePixels} \subseteq Nat /\ Metadata(Given)
    BY <1>1, <1>6, MetadataAre DEF Legal, ImageAssumption
  <2>4. Picture(p)
    <3>1. input.width \in Nat /\ input.height \in Nat /\ FramePixels \in Nat
      BY <2>3
    <3> QED BY <1>2, <3>1, PicturesType DEF Shots
  <2>5. s \in SampleFrames(Given)
    BY DEF Choosing
  <2>6. Sampled(s)
    BY <2>3, <2>5, SampleFramesType
  <2>7. m.scored = {} /\ DOMAIN m = DOMAIN None /\ m.pictures = [i \in DOMAIN s |-> p]
    BY <2>2 DEF Video, None
  <2>8. Shown([i \in DOMAIN s |-> p])
    BY <2>4, <2>6, ShownEach
  <2>9. Shown(m.pictures)
    BY <2>7, <2>8
  <2> QED BY <1>6, <2>7, <2>9
<1>7. CASE input.kind = "audio"
  <2> DEFINE wav  == DecodeWav(input.file)
             n    == Len(wav.samples)
             mask == Features(n).mask
  <2>1. Decodings = DecodeClip
    BY <1>7 DEF Decodings
  <2>2. LegalFile(input.file)
    BY <1>1, <1>7 DEF Legal, LegalFile
  <2>3. n \in Nat
    BY <2>2, DecodeWavType
  <2>4. m = [None EXCEPT !.samples = wav.samples, !.mask = mask]
    BY <2>1 DEF DecodeClip
  <2> HIDE DEF wav, mask, n
  <2>5. m.scored = {} /\ DOMAIN m = DOMAIN None /\ m.pictures = <<>> /\ m.samples = wav.samples /\ m.mask = mask
    BY <2>4 DEF None
  <2> QED BY <1>7, <2>3, <2>5 DEF n, mask
<1>8. input.kind \in {"texts", "image", "jpeg", "container", "frames", "audio"}
  BY <1>1 DEF Legal
<1> QED BY <1>3, <1>4, <1>5, <1>6, <1>7, <1>8

-------------------------------------------------------------------------------
(* The sums that ran.                                                      *)

Added(S) == \A s \in S : Len(s[2]) = s[1] /\ ToSet(s[2]) = 0 .. s[1] - 1

LEMMA SumAdded ==
  ASSUME NEW n \in Nat, NEW t, Once(t, 0 .. n - 1)
  PROVE  Added({Sum(n, t)})
<1>1. Len(t) = n /\ ToSet(t) = 0 .. n - 1
  BY OnceCounts
<1> QED BY <1>1 DEF Added, Sum

LEMMA OnCpuAdded ==
  ASSUME EachOnce, NEW S, Added(S), sums' = OnCpu(S)
  PROVE  EachOnce'
<1>1. sums' \subseteq sums \cup S
  BY DEF OnCpu
<1> QED BY <1>1 DEF EachOnce, Added

LEMMA RowSums ==
  ASSUME KernelAssumption, NEW n \in Nat
  PROVE  /\ Added({Sum(n, ReduceAll(UpTo(n)))})
         /\ Added({Sum(n, SumRow(UpTo(n)))})
         /\ Added({Sum(n, NormRow(UpTo(n)))})
         /\ Added({Sum(n, Moments(UpTo(n)))})
<1>1. Once(UpTo(n), 0 .. n - 1)
  BY UpToOnce
<1>2. PICK R, u : R = 0 .. n - 1 /\ u = UpTo(n)
  OBVIOUS
<1>3. Once(ReduceAll(u), R) /\ Once(SumRow(u), R) /\ Once(NormRow(u), R) /\ Once(Moments(u), R)
  BY <1>1, <1>2, ReduceAllOnce, SumRowOnce, NormRowOnce, MomentsOnce
<1>4. PICK a, b, c, d : a = ReduceAll(u) /\ b = SumRow(u) /\ c = NormRow(u) /\ d = Moments(u)
  OBVIOUS
<1>5. Added({Sum(n, a)}) /\ Added({Sum(n, b)}) /\ Added({Sum(n, c)}) /\ Added({Sum(n, d)})
  BY <1>2, <1>3, <1>4, SumAdded
<1> QED BY <1>2, <1>4, <1>5

LEMMA ColumnSums ==
  ASSUME KernelAssumption, NEW n \in Nat, NEW cols, NEW C
  PROVE  Added({Sum(n, SumCol(UpTo(n), cols, c)) : c \in C})
<1>1. Once(UpTo(n), 0 .. n - 1)
  BY UpToOnce
<1>2. SUFFICES ASSUME NEW c \in C
               PROVE  /\ Len(SumCol(UpTo(n), cols, c)) = n
                      /\ ToSet(SumCol(UpTo(n), cols, c)) = 0 .. n - 1
  BY DEF Added, Sum
<1>3. PICK R, u : R = 0 .. n - 1 /\ u = UpTo(n)
  OBVIOUS
<1>4. PICK t : t = SumCol(u, cols, c)
  OBVIOUS
<1>5. Once(t, R)
  BY <1>1, <1>3, <1>4, SumColOnce
<1> QED BY <1>3, <1>4, <1>5, OnceCounts

LEMMA AddedBoth ==
  ASSUME NEW S, NEW T, Added(S), Added(T)
  PROVE  Added(S \cup T)
BY DEF Added

(* The integer square root that Snapped chooses exists, and is it or one   *)
(* less.                                                                   *)
LEMMA SnappedIs ==
  ASSUME NEW a \in Nat \ {0}, NEW b \in Nat \ {0}, NEW soft \in Nat
  PROVE  /\ Snapped(a, b, soft) # {}
         /\ \A k \in Snapped(a, b, soft) :
              k \in Nat /\ k * k * b <= soft * a /\ soft * a <= (k + 1) * (k + 1) * b
         /\ \E k \in Snapped(a, b, soft) : soft * a < (k + 1) * (k + 1) * b
<1>1. PICK s : s = soft * a
  OBVIOUS
<1>2. s \in Nat
  BY <1>1
<1> DEFINE Is(k) == k * k * b <= s /\ (k + 1) * (k + 1) * b > s
           T     == {k \in Nat : (k + 1) * (k + 1) * b > s}
<1>3. ASSUME NEW k \in Nat PROVE k * k * b \in Nat /\ k * k * b >= k
  <2>1. PICK d : d = k * k
    OBVIOUS
  <2>2. d \in Nat /\ d >= k
    BY <2>1
  <2>3. d * b \in Nat /\ d * b >= d
    BY <2>2
  <2> QED BY <2>1, <2>2, <2>3
<1>4. s \in T
  <2>1. (s + 1) * (s + 1) * b >= s + 1
    BY <1>2, <1>3
  <2> QED BY <1>2, <1>3, <2>1
<1>5. PICK m : m = Min(T)
  OBVIOUS
<1>6. m \in T /\ \A k \in T : m <= k
  <2>1. T \in SUBSET Nat
    OBVIOUS
  <2> HIDE DEF T
  <2> QED BY <1>4, <1>5, <2>1, MinIn
<1>7. m \in 0 .. s /\ Is(m)
  <2>1. m \in 0 .. s
    BY <1>2, <1>4, <1>6
  <2>2. m * m * b <= s
    <3>1. CASE m = 0
      BY <1>2, <3>1
    <3>2. CASE m # 0
      <4>1. m - 1 \in Nat /\ (m - 1) + 1 = m /\ m - 1 \notin T
        BY <1>6, <3>2
      <4>2. m * m * b \in Nat
        BY <1>3, <1>6
      <4>3. ~(m * m * b > s)
        BY <4>1
      <4> QED BY <1>2, <4>2, <4>3
    <3> QED BY <3>1, <3>2
  <2> QED BY <1>6, <2>1, <2>2
<1>8. PICK k : k = CHOOSE j \in 0 .. s : Is(j)
  OBVIOUS
<1>9. k \in 0 .. s /\ Is(k)
  <2> HIDE DEF Is
  <2> QED BY <1>7, <1>8
<1>10. Snapped(a, b, soft) = IF k * k * b = s /\ k > 0 THEN {k, k - 1} ELSE {k}
  BY <1>1, <1>8 DEF Snapped
<1>11. k \in Nat /\ k * k * b <= s /\ s <= (k + 1) * (k + 1) * b
  <2>1. k \in Nat /\ k * k * b \in Nat /\ (k + 1) * (k + 1) * b \in Nat
    BY <1>2, <1>3, <1>9
  <2> QED BY <1>2, <1>9, <2>1
<1>12. ASSUME k * k * b = s, k > 0
       PROVE  k - 1 \in Nat /\ (k - 1) * (k - 1) * b <= s /\ s <= ((k - 1) + 1) * ((k - 1) + 1) * b
  <2>1. PICK j : j = k - 1
    OBVIOUS
  <2>2. j \in Nat /\ j + 1 = k
    BY <1>9, <1>12, <1>2, <2>1
  <2>3. j * j <= k * k /\ j * j \in Nat /\ k * k \in Nat
    BY <2>2
  <2>4. PICK c, d : c = j * j /\ d = k * k
    OBVIOUS
  <2>5. c * b <= d * b
    BY <2>3, <2>4
  <2> QED BY <1>12, <2>1, <2>2, <2>4, <2>5
<1>13. s < (k + 1) * (k + 1) * b
  <2>1. k \in Nat /\ (k + 1) * (k + 1) * b \in Nat
    BY <1>2, <1>3, <1>9
  <2> QED BY <1>2, <1>9, <2>1
<1> QED BY <1>1, <1>10, <1>11, <1>12, <1>13

(* The soft tokens of a picture, down and across.                          *)
LEMMA TargetSizeIs ==
  ASSUME NEW h \in Nat \ {0}, NEW w \in Nat \ {0}, NEW soft \in Nat, NEW t \in TargetSize(h, w, soft)
  PROVE  \E th, tw \in Nat \ {0} : t = <<th, tw>> /\ th * tw <= soft
<1> DEFINE size(a, b) == CASE a = 0 /\ b > 0 -> <<1, Min({w \div h, soft})>>
                           [] b = 0 /\ a > 0 -> <<Min({h \div w, soft}), 1>>
                           [] OTHER          -> <<a, b>>
           all == {size(a, b) : a \in Snapped(h, w, soft), b \in Snapped(w, h, soft)}
<1>1. t \in all /\ t # <<0, 0>> /\ t[1] * t[2] <= soft
  <2>1. TargetSize(h, w, soft) = {u \in all : u # <<0, 0>> /\ u[1] * u[2] <= soft}
    BY DEF TargetSize
  <2> HIDE DEF all
  <2> QED BY <2>1
<1>2. PICK a \in Snapped(h, w, soft), b \in Snapped(w, h, soft) : t = size(a, b)
  <2> HIDE DEF size
  <2> QED BY <1>1
<1>3. /\ a \in Nat /\ a * a * w <= soft * h /\ soft * h <= (a + 1) * (a + 1) * w
      /\ b \in Nat /\ b * b * h <= soft * w /\ soft * w <= (b + 1) * (b + 1) * h
  <2>1. \A k \in Snapped(h, w, soft) : k \in Nat /\ k * k * w <= soft * h /\ soft * h <= (k + 1) * (k + 1) * w
    BY SnappedIs
  <2>2. \A k \in Snapped(w, h, soft) : k \in Nat /\ k * k * h <= soft * w /\ soft * w <= (k + 1) * (k + 1) * h
    BY SnappedIs
  <2> QED BY <2>1, <2>2
<1>4. ASSUME NEW x \in Nat \ {0}, NEW y \in Nat \ {0}, NEW c \in Nat \ {0},
             soft * x <= (0 + 1) * (0 + 1) * y, c * c * x <= soft * y
      PROVE  Min({y \div x, soft}) = soft /\ soft \in Nat \ {0}
  <2>1. soft * x <= y /\ soft * x \in Nat
    BY <1>4
  <2>2. y \div x >= soft
    <3>1. PICK q : q = y \div x
      OBVIOUS
    <3>2. q \in Nat /\ y < q * x + x
      BY <3>1, Division
    <3>3. CASE q < soft
      <4>1. q + 1 <= soft
        BY <3>2, <3>3
      <4>2. (q + 1) * x <= soft * x
        BY <3>2, <4>1
      <4>3. (q + 1) * x = q * x + x /\ q * x \in Nat
        BY <3>2
      <4> QED BY <2>1, <3>2, <4>2, <4>3
    <3> QED BY <3>1, <3>2, <3>3
  <2>3. soft # 0
    <3>1. CASE soft = 0
      <4>1. soft * y = 0
        BY <3>1
      <4>2. c * c * x >= 1
        <5>1. PICK d : d = c * c
          OBVIOUS
        <5>2. d \in Nat \ {0}
          BY <5>1
        <5> QED BY <5>1, <5>2
      <4> QED BY <1>4, <4>1, <4>2
    <3> QED BY <3>1
  <2>4. y \div x \in Nat
    BY Division
  <2> QED BY <2>2, <2>3, <2>4, MinOfTwo
<1>5. CASE a = 0 /\ b > 0
  <2>1. ~(b = 0 /\ a > 0)
    BY <1>3, <1>5
  <2>2. t = <<1, Min({w \div h, soft})>>
    BY <1>2, <1>5, <2>1, Zenon
  <2>3. b \in Nat \ {0}
    BY <1>3, <1>5
  <2>4. Min({w \div h, soft}) = soft /\ soft \in Nat \ {0}
    BY <1>3, <1>4, <1>5, <2>3
  <2> QED BY <2>2, <2>4
<1>6. CASE b = 0 /\ a > 0
  <2>1. ~(a = 0 /\ b > 0)
    BY <1>3, <1>6
  <2>2. t = <<Min({h \div w, soft}), 1>>
    BY <1>2, <1>6, <2>1, Zenon
  <2>3. a \in Nat \ {0}
    BY <1>3, <1>6
  <2>4. Min({h \div w, soft}) = soft /\ soft \in Nat \ {0}
    BY <1>3, <1>4, <1>6, <2>3
  <2> QED BY <2>2, <2>4
<1>7. CASE ~(a = 0 /\ b > 0) /\ ~(b = 0 /\ a > 0)
  <2>1. t = <<a, b>>
    BY <1>2, <1>7, Zenon
  <2>2. a \in Nat \ {0} /\ b \in Nat \ {0}
    BY <1>1, <1>3, <1>7, <2>1
  <2> QED BY <1>1, <2>1, <2>2
<1> QED BY <1>5, <1>6, <1>7

(* A picture always has a size.                                            *)
LEMMA TargetSizeSome ==
  ASSUME NEW h \in Nat \ {0}, NEW w \in Nat \ {0}, NEW soft \in Nat \ {0}
  PROVE  TargetSize(h, w, soft) # {}
<1> DEFINE size(a, b) == CASE a = 0 /\ b > 0 -> <<1, Min({w \div h, soft})>>
                           [] b = 0 /\ a > 0 -> <<Min({h \div w, soft}), 1>>
                           [] OTHER          -> <<a, b>>
           all == {size(a, b) : a \in Snapped(h, w, soft), b \in Snapped(w, h, soft)}
<1>1. PICK a \in Snapped(h, w, soft) : a \in Nat /\ a * a * w <= soft * h /\ soft * h < (a + 1) * (a + 1) * w
  BY SnappedIs
<1>2. PICK b \in Snapped(w, h, soft) : b \in Nat /\ b * b * h <= soft * w /\ soft * w < (b + 1) * (b + 1) * h
  BY SnappedIs
<1>3. ASSUME NEW t, t = size(a, b), t # <<0, 0>>, t[1] * t[2] <= soft PROVE TargetSize(h, w, soft) # {}
  <2>1. TargetSize(h, w, soft) = {u \in all : u # <<0, 0>> /\ u[1] * u[2] <= soft}
    BY DEF TargetSize
  <2>2. t \in all
    <3> HIDE DEF size
    <3> QED BY <1>3
  <2> HIDE DEF all
  <2> QED BY <1>3, <2>1, <2>2
<1>4. ASSUME NEW x \in Nat \ {0}, NEW y \in Nat \ {0}
      PROVE  Min({x \div y, soft}) \in Nat /\ Min({x \div y, soft}) <= soft
  <2>1. x \div y \in Nat
    BY Division
  <2> QED BY <2>1, MinOfTwo
<1>5. CASE a = 0 /\ b > 0
  <2>1. ~(b = 0 /\ a > 0)
    BY <1>1, <1>5
  <2>2. size(a, b) = <<1, Min({w \div h, soft})>>
    BY <1>5, <2>1, Zenon
  <2>3. PICK m : m = Min({w \div h, soft})
    OBVIOUS
  <2>4. PICK t : t = <<1, m>>
    OBVIOUS
  <2>5. m \in Nat /\ m <= soft /\ 1 * m = m
    BY <1>4, <2>3
  <2>6. t # <<0, 0>> /\ t[1] * t[2] <= soft
    BY <2>4, <2>5
  <2> HIDE DEF size
  <2> QED BY <1>3, <2>2, <2>3, <2>4, <2>6
<1>6. CASE b = 0 /\ a > 0
  <2>1. ~(a = 0 /\ b > 0)
    BY <1>2, <1>6
  <2>2. size(a, b) = <<Min({h \div w, soft}), 1>>
    BY <1>6, <2>1, Zenon
  <2>3. PICK m : m = Min({h \div w, soft})
    OBVIOUS
  <2>4. PICK t : t = <<m, 1>>
    OBVIOUS
  <2>5. m \in Nat /\ m <= soft /\ m * 1 = m
    BY <1>4, <2>3
  <2>6. t # <<0, 0>> /\ t[1] * t[2] <= soft
    BY <2>4, <2>5
  <2> HIDE DEF size
  <2> QED BY <1>3, <2>2, <2>3, <2>4, <2>6
<1>7. CASE a = 0 /\ b = 0
  <2>1. (a + 1) * (a + 1) * w = w /\ (b + 1) * (b + 1) * h = h
    BY <1>7
  <2>2. soft * h >= h /\ soft * w >= w /\ soft * h \in Nat /\ soft * w \in Nat
    OBVIOUS
  <2> QED BY <1>1, <1>2, <2>1, <2>2
<1>8. CASE a > 0 /\ b > 0
  <2>1. size(a, b) = <<a, b>>
    <3>1. a # 0 /\ b # 0
      BY <1>8
    <3> QED BY <3>1, Zenon
  <2>2. a * b <= soft
    <3>1. PICK p, d, x, y, u, v : p = a * b /\ d = w * h /\ x = a * a * w /\ y = b * b * h /\ u = soft * h /\ v = soft * w
      OBVIOUS
    <3>2. p \in Nat /\ d \in Nat \ {0} /\ {x, y, u, v} \subseteq Nat /\ x <= u /\ y <= v
      <4>1. a * a \in Nat /\ b * b \in Nat
        BY <1>1, <1>2
      <4> QED BY <1>1, <1>2, <3>1, <4>1
    <3>3. x * y <= u * v
      <4>1. x * y <= u * y /\ u * y <= u * v
        BY <3>2
      <4>2. x * y \in Nat /\ u * y \in Nat /\ u * v \in Nat
        BY <3>2
      <4> QED BY <4>1, <4>2
    <3>4. x * y = (p * p) * d /\ u * v = (soft * soft) * d
      BY <1>1, <1>2, <3>1
    <3>5. CASE p > soft
      <4>1. PICK e, f : e = p * p /\ f = soft * soft
        OBVIOUS
      <4>2. soft * soft < soft * p /\ soft * p < p * p
        BY <3>2, <3>5
      <4>3. e \in Nat /\ f \in Nat /\ soft * p \in Nat
        BY <3>2, <4>1
      <4>4. f < e
        BY <4>1, <4>2, <4>3
      <4>5. f * d < e * d
        BY <3>2, <4>3, <4>4
      <4> QED BY <3>2, <3>3, <3>4, <4>1, <4>3, <4>5
    <3> QED BY <3>1, <3>2, <3>5
  <2>3. PICK t : t = <<a, b>>
    OBVIOUS
  <2>4. t # <<0, 0>> /\ t[1] * t[2] <= soft
    BY <1>8, <2>2, <2>3
  <2> HIDE DEF size
  <2> QED BY <1>3, <2>1, <2>3, <2>4
<1> QED BY <1>1, <1>2, <1>5, <1>6, <1>7, <1>8

LEMMA PreprocessSome ==
  ASSUME NEW h \in Nat \ {0}, NEW w \in Nat \ {0}, NEW soft \in Nat \ {0}
  PROVE  Preprocess(h, w, soft) # {}
<1>1. PICK t : t \in TargetSize(h, w, soft)
  BY TargetSizeSome
<1> QED BY <1>1 DEF Preprocess

LEMMA Remainder ==
  ASSUME NEW a \in Nat, NEW b \in Nat \ {0}
  PROVE  /\ a \div b \in Nat
         /\ a % b \in 0 .. b - 1
         /\ a = (a \div b) * b + (a % b)
OBVIOUS

LEMMA QuotientIs ==
  ASSUME NEW d \in Nat \ {0}, NEW q \in Nat, NEW r \in 0 .. d - 1
  PROVE  (q * d + r) \div d = q /\ (q * d + r) % d = r
<1>1. PICK a : a = q * d + r
  OBVIOUS
<1>2. a \in Nat
  <2>1. q * d \in Nat
    OBVIOUS
  <2> QED BY <1>1, <2>1
<1>3. PICK u, v : u = a \div d /\ v = a % d
  OBVIOUS
<1>4. u \in Nat /\ v \in 0 .. d - 1 /\ a = u * d + v
  BY <1>2, <1>3, Remainder
<1>5. ((u + 1) - 1) * d + (v + 1) = ((q + 1) - 1) * d + (r + 1)
  <2>1. u * d \in Nat /\ q * d \in Nat
    BY <1>4
  <2>2. (u + 1) - 1 = u /\ (q + 1) - 1 = q
    BY <1>4
  <2> QED BY <1>1, <1>4, <2>1, <2>2
<1>6. PICK m, n : m = u + 1 /\ n = q + 1
  OBVIOUS
<1>7. m \in Int /\ n \in Int /\ v + 1 \in 1 .. d /\ r + 1 \in 1 .. d /\ (m - 1) * d + (v + 1) = (n - 1) * d + (r + 1)
  BY <1>4, <1>5, <1>6
<1>8. m = n /\ v + 1 = r + 1
  BY <1>7, PlaceUnique
<1> QED BY <1>1, <1>3, <1>4, <1>6, <1>8

LEMMA MaxIs ==
  ASSUME NEW S \in SUBSET Int, NEW m \in S, \A s \in S : s <= m
  PROVE  Max(S) = m
<1>1. \A x \in S : (\A y \in S : x >= y) <=> x = m
  OBVIOUS
<1>2. PICK c : c = Max(S)
  OBVIOUS
<1>3. c \in S /\ \A y \in S : c >= y
  BY <1>2 DEF Max
<1> QED BY <1>1, <1>2, <1>3

-------------------------------------------------------------------------------
(* The patches of a picture: pw to a line and ph lines, then the padding.  *)

Lined(patches, pw, ph, n) ==
  /\ pw \in Nat \ {0} /\ ph \in Nat \ {0} /\ pw * ph <= n /\ n \in Nat
  /\ DOMAIN patches = 1 .. n /\ Len(patches) = n
  /\ \A i \in 1 .. n :
       IF i <= pw * ph
       THEN patches[i].x \in 0 .. pw - 1 /\ patches[i].y \in 0 .. ph - 1 /\ i = patches[i].y * pw + patches[i].x + 1
       ELSE patches[i].x = -1 /\ patches[i].y = -1

LEMMA LinedPlace ==
  ASSUME NEW patches, NEW pw, NEW ph, NEW n, Lined(patches, pw, ph, n), NEW x \in 0 .. pw - 1, NEW y \in 0 .. ph - 1
  PROVE  LET i == y * pw + x + 1
         IN i \in 1 .. pw * ph /\ i \in 1 .. n /\ patches[i].x = x /\ patches[i].y = y
<1>1. pw \in Nat \ {0} /\ ph \in Nat \ {0} /\ pw * ph <= n /\ n \in Nat /\ pw * ph \in Nat
  BY DEF Lined
<1>2. PICK i : i = y * pw + x + 1
  OBVIOUS
<1>3. i \in 1 .. pw * ph
  <2>1. PICK r, c : r = y + 1 /\ c = x + 1
    OBVIOUS
  <2>2. r \in 1 .. ph /\ c \in 1 .. pw /\ pw \in Nat /\ ph \in Nat
    BY <1>1, <2>1
  <2>3. (r - 1) * pw + c \in 1 .. ph * pw
    BY <2>2, PlaceBelow
  <2>4. (r - 1) * pw = y * pw /\ y * pw \in Nat /\ ph * pw = pw * ph
    BY <1>1, <2>1
  <2> QED BY <1>1, <1>2, <2>1, <2>3, <2>4
<1>4. i \in 1 .. n
  BY <1>1, <1>3
<1>5. PICK a, b : a = patches[i].x /\ b = patches[i].y
  OBVIOUS
<1>6. a \in 0 .. pw - 1 /\ b \in 0 .. ph - 1 /\ i = b * pw + a + 1
  BY <1>1, <1>3, <1>4, <1>5 DEF Lined
<1>7. a = x /\ b = y
  <2>1. PICK r, q, c, e : r = b + 1 /\ q = y + 1 /\ c = a + 1 /\ e = x + 1
    OBVIOUS
  <2>2. r \in Int /\ q \in Int /\ c \in 1 .. pw /\ e \in 1 .. pw /\ pw \in Nat
    BY <1>1, <1>6, <2>1
  <2>3. (r - 1) * pw + c = (q - 1) * pw + e
    <3>1. (r - 1) * pw = b * pw /\ (q - 1) * pw = y * pw /\ b * pw \in Nat /\ y * pw \in Nat
      BY <1>1, <1>6, <2>1
    <3> QED BY <1>2, <1>6, <2>1, <3>1
  <2>4. r = q /\ c = e
    BY <2>2, <2>3, PlaceUnique
  <2> QED BY <1>6, <2>1, <2>4
<1> QED BY <1>2, <1>3, <1>4, <1>5, <1>7

(* The last column and the last line.                                      *)
LEMMA LinedMax ==
  ASSUME NEW patches, NEW pw, NEW ph, NEW n, Lined(patches, pw, ph, n)
  PROVE  /\ Max({p.x : p \in ToSet(patches)}) = pw - 1
         /\ Max({p.y : p \in ToSet(patches)}) = ph - 1
         /\ Max({patches[i].x : i \in {j \in DOMAIN patches : patches[j].x >= 0}}) = pw - 1
<1>1. pw \in Nat \ {0} /\ ph \in Nat \ {0} /\ pw * ph <= n /\ n \in Nat /\ DOMAIN patches = 1 .. n
  BY DEF Lined
<1>2. \A i \in 1 .. n : patches[i].x \in -1 .. pw - 1 /\ patches[i].y \in -1 .. ph - 1
  <2>1. ASSUME NEW i \in 1 .. n PROVE patches[i].x \in -1 .. pw - 1 /\ patches[i].y \in -1 .. ph - 1
    <3>1. CASE i <= pw * ph
      <4>1. patches[i].x \in 0 .. pw - 1 /\ patches[i].y \in 0 .. ph - 1
        BY <3>1 DEF Lined
      <4> QED BY <1>1, <4>1
    <3>2. CASE ~(i <= pw * ph)
      <4>1. patches[i].x = -1 /\ patches[i].y = -1
        BY <3>2 DEF Lined
      <4> QED BY <1>1, <4>1
    <3> QED BY <3>1, <3>2
  <2> QED BY <2>1
<1>3. PICK last : last = (ph - 1) * pw + (pw - 1) + 1
  OBVIOUS
<1>4. last \in 1 .. n /\ patches[last].x = pw - 1 /\ patches[last].y = ph - 1
  <2>1. pw - 1 \in 0 .. pw - 1 /\ ph - 1 \in 0 .. ph - 1
    BY <1>1
  <2> QED BY <1>3, <2>1, LinedPlace
<1>5. ToSet(patches) = {patches[i] : i \in 1 .. n}
  BY <1>1 DEF ToSet
<1>6. Max({p.x : p \in ToSet(patches)}) = pw - 1
  <2>1. PICK S : S = {p.x : p \in ToSet(patches)}
    OBVIOUS
  <2>2. S \in SUBSET Int /\ pw - 1 \in S /\ \A s \in S : s <= pw - 1
    BY <1>1, <1>2, <1>4, <1>5, <2>1
  <2>3. Max(S) = pw - 1
    BY <2>2, MaxIs
  <2> QED BY <2>1, <2>3
<1>7. Max({p.y : p \in ToSet(patches)}) = ph - 1
  <2>1. PICK S : S = {p.y : p \in ToSet(patches)}
    OBVIOUS
  <2>2. S \in SUBSET Int /\ ph - 1 \in S /\ \A s \in S : s <= ph - 1
    BY <1>1, <1>2, <1>4, <1>5, <2>1
  <2>3. Max(S) = ph - 1
    BY <2>2, MaxIs
  <2> QED BY <2>1, <2>3
<1>8. Max({patches[i].x : i \in {j \in DOMAIN patches : patches[j].x >= 0}}) = pw - 1
  <2>1. PICK S : S = {patches[i].x : i \in {j \in DOMAIN patches : patches[j].x >= 0}}
    OBVIOUS
  <2>2. S \in SUBSET Int /\ pw - 1 \in S /\ \A s \in S : s <= pw - 1
    <3>1. pw - 1 >= 0 /\ last \in {j \in DOMAIN patches : patches[j].x >= 0}
      BY <1>1, <1>4
    <3> QED BY <1>1, <1>2, <1>4, <2>1, <3>1, SMTT(30)
  <2>3. Max(S) = pw - 1
    BY <2>2, MaxIs
  <2> QED BY <2>1, <2>3
<1> QED BY <1>6, <1>7, <1>8

(* The same, where lines and columns are whole soft tokens.                *)
Tiled(patches, tw, th, n) ==
  tw \in Nat \ {0} /\ th \in Nat \ {0} /\ Lined(patches, tw * Pool, th * Pool, n)

(* A place below a multiple is so many wholes and a rest.                  *)
LEMMA PartOf ==
  ASSUME NEW d \in Nat \ {0}, NEW n \in Nat, NEW a \in 0 .. n * d - 1
  PROVE  a \div d \in 0 .. n - 1 /\ a % d \in 0 .. d - 1 /\ a = (a \div d) * d + (a % d)
<1>1. a \in Nat
  OBVIOUS
<1>2. a \div d \in Nat /\ a % d \in 0 .. d - 1 /\ a = (a \div d) * d + (a % d)
  BY <1>1, Remainder
<1>3. PICK q : q = a \div d
  OBVIOUS
<1>4. q < n
  <2>1. CASE q >= n
    <3>1. (q - n) * d \in Nat
      BY <1>2, <1>3, <2>1
    <3>2. (q - n) * d = q * d - n * d /\ q * d \in Int /\ n * d \in Int
      BY <1>2, <1>3
    <3>3. a >= q * d /\ a < n * d
      BY <1>2, <1>3, <3>2
    <3> QED BY <3>1, <3>2, <3>3
  <2> QED BY <1>2, <1>3, <2>1
<1> QED BY <1>2, <1>3, <1>4

LEMMA PartIs ==
  ASSUME NEW d \in Nat \ {0}, NEW n \in Nat, NEW q \in 0 .. n - 1, NEW r \in 0 .. d - 1
  PROVE  q * d + r \in 0 .. n * d - 1 /\ (q * d + r) \div d = q /\ (q * d + r) % d = r
<1>1. q \in Nat /\ n - 1 - q \in Nat
  OBVIOUS
<1>2. q * d \in Nat /\ (n - 1 - q) * d \in Nat /\ n * d \in Nat
  BY <1>1
<1>3. n * d = q * d + d + (n - 1 - q) * d
  OBVIOUS
<1> QED BY <1>1, <1>2, <1>3, QuotientIs

LEMMA Exactly ==
  ASSUME NEW d \in Nat \ {0}, NEW n \in Nat
  PROVE  (n * d) \div d = n /\ ((n * d - 1) + 1) \div d = n
<1>1. (n * d + 0) \div d = n
  BY QuotientIs
<1>2. n * d \in Nat
  OBVIOUS
<1> QED BY <1>1, <1>2

(* The soft token of a patch.                                              *)
Soft(patches, tw, i) == patches[i].x \div Pool + tw * (patches[i].y \div Pool)

LEMMA SoftPlace ==
  ASSUME ImageAssumption, NEW patches, NEW tw, NEW th, NEW n, Tiled(patches, tw, th, n),
         NEW i \in 1 .. n, i <= (tw * Pool) * (th * Pool)
  PROVE  /\ patches[i].x \in 0 .. tw * Pool - 1 /\ patches[i].y \in 0 .. th * Pool - 1
         /\ patches[i].x \div Pool \in 0 .. tw - 1 /\ patches[i].y \div Pool \in 0 .. th - 1
         /\ Soft(patches, tw, i) \in 0 .. th * tw - 1
         /\ Soft(patches, tw, i) % tw = patches[i].x \div Pool
         /\ Soft(patches, tw, i) \div tw = patches[i].y \div Pool
<1>1. Pool \in Nat \ {0} /\ tw \in Nat \ {0} /\ th \in Nat \ {0}
  BY DEF ImageAssumption, Tiled
<1>2. PICK x, y : x = patches[i].x /\ y = patches[i].y
  OBVIOUS
<1>3. x \in 0 .. tw * Pool - 1 /\ y \in 0 .. th * Pool - 1
  BY <1>2 DEF Tiled, Lined
<1>4. x \div Pool \in 0 .. tw - 1
  BY <1>1, <1>3, PartOf
<1>5. y \div Pool \in 0 .. th - 1
  BY <1>1, <1>3, PartOf
<1>6. PICK q, r : q = y \div Pool /\ r = x \div Pool
  OBVIOUS
<1>7. q \in 0 .. th - 1 /\ r \in 0 .. tw - 1
  BY <1>4, <1>5, <1>6
<1>8. q * tw + r \in 0 .. th * tw - 1 /\ (q * tw + r) \div tw = q /\ (q * tw + r) % tw = r
  BY <1>1, <1>7, PartIs
<1>9. Soft(patches, tw, i) = q * tw + r
  <2>1. q * tw = tw * q /\ tw * q \in Int /\ r \in Int
    BY <1>1, <1>7
  <2>2. Soft(patches, tw, i) = r + tw * q
    BY <1>2, <1>6 DEF Soft
  <2> QED BY <2>1, <2>2
<1> QED BY <1>2, <1>3, <1>4, <1>5, <1>6, <1>8, <1>9

LEMMA BlockIs ==
  ASSUME ImageAssumption, NEW patches, NEW tw, NEW th, NEW n, Tiled(patches, tw, th, n), NEW i \in 1 .. n
  PROVE  Block(patches, patches[i]) = IF i <= (tw * Pool) * (th * Pool) THEN Soft(patches, tw, i) ELSE 0
<1>1. Pool \in Nat \ {0} /\ tw \in Nat \ {0} /\ th \in Nat \ {0}
  BY DEF ImageAssumption, Tiled
<1>2. Max({q.x : q \in ToSet(patches)}) = tw * Pool - 1
  BY LinedMax DEF Tiled
<1>3. (tw * Pool - 1 + 1) \div Pool = tw
  BY <1>1, Exactly
<1>4. PICK x, y : x = patches[i].x /\ y = patches[i].y
  OBVIOUS
<1>5. Block(patches, patches[i]) = Max({0, x}) \div Pool + tw * (Max({0, y}) \div Pool)
  <2>1. PICK m : m = Max({q.x : q \in ToSet(patches)})
    OBVIOUS
  <2>2. (m + 1) \div Pool = tw
    BY <1>2, <1>3, <2>1
  <2> QED BY <1>4, <2>1, <2>2 DEF Block
<1>6. CASE i <= (tw * Pool) * (th * Pool)
  <2>1. x \in 0 .. tw * Pool - 1 /\ y \in 0 .. th * Pool - 1
    BY <1>4, <1>6, SoftPlace
  <2>2. Max({0, x}) = x /\ Max({0, y}) = y
    <3>1. x \in Nat /\ y \in Nat
      BY <2>1
    <3>2. Max({0, x}) = IF 0 >= x THEN 0 ELSE x
      BY <3>1, MaxOfTwo
    <3>3. Max({0, y}) = IF 0 >= y THEN 0 ELSE y
      BY <3>1, MaxOfTwo
    <3> QED BY <3>1, <3>2, <3>3
  <2> QED BY <1>4, <1>5, <1>6, <2>2 DEF Soft
<1>7. CASE ~(i <= (tw * Pool) * (th * Pool))
  <2>1. x = -1 /\ y = -1
    BY <1>4, <1>7 DEF Tiled, Lined
  <2>2. Max({0, -1}) = 0
    BY MaxOfTwo
  <2>3. 0 \div Pool = 0
    <3>1. (0 * Pool + 0) \div Pool = 0
      BY <1>1, QuotientIs
    <3>2. 0 * Pool + 0 = 0
      BY <1>1
    <3> QED BY <3>1, <3>2
  <2>4. tw * 0 = 0
    BY <1>1
  <2> QED BY <1>5, <1>7, <2>1, <2>2, <2>3, <2>4
<1> QED BY <1>6, <1>7

(* Every soft token of the picture has patches, and no other has.          *)
LEMMA BlocksAre ==
  ASSUME ImageAssumption, NEW patches, NEW tw, NEW th, NEW n, Tiled(patches, tw, th, n)
  PROVE  /\ {Block(patches, p) : p \in ToSet(patches)} = 0 .. th * tw - 1
         /\ \A b \in 0 .. th * tw - 1 :
              \E i \in 1 .. n : i <= (tw * Pool) * (th * Pool) /\ Soft(patches, tw, i) = b
<1>1. Pool \in Nat \ {0} /\ tw \in Nat \ {0} /\ th \in Nat \ {0}
  BY DEF ImageAssumption, Tiled
<1>2. DOMAIN patches = 1 .. n
  BY DEF Tiled, Lined
<1>3. ToSet(patches) = {patches[i] : i \in 1 .. n}
  BY <1>2 DEF ToSet
<1>4. th * tw \in Nat \ {0}
  BY <1>1
<1>5. ASSUME NEW b \in 0 .. th * tw - 1
      PROVE  \E i \in 1 .. n : i <= (tw * Pool) * (th * Pool) /\ Soft(patches, tw, i) = b
  <2>1. PICK q, r : q = b \div tw /\ r = b % tw
    OBVIOUS
  <2>2. q \in 0 .. th - 1 /\ r \in 0 .. tw - 1 /\ b = q * tw + r
    BY <1>1, <2>1, PartOf
  <2>3. q * Pool + 0 \in 0 .. th * Pool - 1 /\ (q * Pool + 0) \div Pool = q
    <3>1. 0 \in 0 .. Pool - 1
      BY <1>1
    <3> QED BY <1>1, <2>2, <3>1, PartIs
  <2>4. r * Pool + 0 \in 0 .. tw * Pool - 1 /\ (r * Pool + 0) \div Pool = r
    <3>1. 0 \in 0 .. Pool - 1
      BY <1>1
    <3> QED BY <1>1, <2>2, <3>1, PartIs
  <2>5. PICK x, y : x = r * Pool + 0 /\ y = q * Pool + 0
    OBVIOUS
  <2>6. PICK i : i = y * (tw * Pool) + x + 1
    OBVIOUS
  <2>7. i \in 1 .. (tw * Pool) * (th * Pool) /\ i \in 1 .. n /\ patches[i].x = x /\ patches[i].y = y
    <3>1. Lined(patches, tw * Pool, th * Pool, n)
      BY DEF Tiled
    <3>2. x \in 0 .. tw * Pool - 1 /\ y \in 0 .. th * Pool - 1
      BY <2>3, <2>4, <2>5
    <3> QED BY <2>6, <3>1, <3>2, LinedPlace
  <2>8. Soft(patches, tw, i) = b
    <3>1. Soft(patches, tw, i) = r + tw * q
      BY <2>3, <2>4, <2>5, <2>7 DEF Soft
    <3>2. tw * q = q * tw /\ q * tw \in Int /\ r \in Int
      BY <1>1, <2>2
    <3> QED BY <2>2, <3>1, <3>2
  <2> QED BY <2>7, <2>8
<1>6. ASSUME NEW i \in 1 .. n PROVE Block(patches, patches[i]) \in 0 .. th * tw - 1
  <2>1. CASE i <= (tw * Pool) * (th * Pool)
    BY <2>1, BlockIs, SoftPlace
  <2>2. CASE ~(i <= (tw * Pool) * (th * Pool))
    <3>1. Block(patches, patches[i]) = 0
      BY <2>2, BlockIs
    <3> QED BY <1>4, <3>1
  <2> QED BY <2>1, <2>2
<1>7. ASSUME NEW b \in 0 .. th * tw - 1 PROVE \E i \in 1 .. n : Block(patches, patches[i]) = b
  <2>1. PICK i \in 1 .. n : i <= (tw * Pool) * (th * Pool) /\ Soft(patches, tw, i) = b
    BY <1>5
  <2> QED BY <2>1, BlockIs
<1>8. {Block(patches, p) : p \in ToSet(patches)} = {Block(patches, patches[i]) : i \in 1 .. n}
  BY <1>3
<1> QED BY <1>5, <1>6, <1>7, <1>8

LEMMA NthOfInterval ==
  ASSUME NEW m \in Nat, NEW r \in 1 .. m
  PROVE  Nth(0 .. m - 1, r) = r - 1
<1>1. \A s \in 0 .. m - 1 : Cardinality({t \in 0 .. m - 1 : t < s}) = s
  <2>1. ASSUME NEW s \in 0 .. m - 1 PROVE Cardinality({t \in 0 .. m - 1 : t < s}) = s
    <3>1. {t \in 0 .. m - 1 : t < s} = 0 .. s - 1
      OBVIOUS
    <3>2. Cardinality(0 .. s - 1) = s
      BY FS_Interval
    <3> QED BY <3>1, <3>2
  <2> QED BY <2>1
<1>2. PICK c : c = Nth(0 .. m - 1, r)
  OBVIOUS
<1>3. c \in 0 .. m - 1 /\ Cardinality({t \in 0 .. m - 1 : t < c}) = r - 1
  <2>1. r - 1 \in 0 .. m - 1
    OBVIOUS
  <2>2. \E s \in 0 .. m - 1 : Cardinality({t \in 0 .. m - 1 : t < s}) = r - 1
    BY <1>1, <2>1
  <2> QED BY <1>2, <2>2 DEF Nth
<1> QED BY <1>1, <1>2, <1>3

(* The places that a soft token is pooled from.                            *)
PatchesOf(patches, tw, th, b) == {i \in 1 .. (tw * Pool) * (th * Pool) : Soft(patches, tw, i) = b}

Pooled(patches, tw, th) == [r \in 1 .. th * tw |-> PatchesOf(patches, tw, th, r - 1)]

LEMMA TiledPlaces ==
  ASSUME ImageAssumption, NEW patches, NEW tw, NEW th, NEW n, Tiled(patches, tw, th, n)
  PROVE  /\ DOMAIN patches = 1 .. n /\ Len(patches) = n /\ n \in Nat
         /\ (tw * Pool) * (th * Pool) \in Nat /\ (tw * Pool) * (th * Pool) <= n
         /\ {i \in DOMAIN patches : patches[i].x >= 0} = 1 .. (tw * Pool) * (th * Pool)
         /\ th * tw \in Nat \ {0}
<1>1. /\ tw * Pool \in Nat \ {0} /\ th * Pool \in Nat \ {0} /\ (tw * Pool) * (th * Pool) <= n /\ n \in Nat
      /\ DOMAIN patches = 1 .. n /\ Len(patches) = n /\ tw \in Nat \ {0} /\ th \in Nat \ {0}
  BY DEF Tiled, Lined
<1>2. PICK k : k = (tw * Pool) * (th * Pool)
  OBVIOUS
<1>3. k \in Nat /\ k <= n
  <2>1. PICK w, h : w = tw * Pool /\ h = th * Pool
    OBVIOUS
  <2>2. w \in Nat /\ h \in Nat /\ k = w * h /\ w * h <= n
    BY ONLY <1>1, <1>2, <2>1
  <2> QED BY ONLY <2>2
<1>4. \A i \in 1 .. n : patches[i].x >= 0 <=> i <= k
  <2>1. ASSUME NEW i \in 1 .. n, i <= k PROVE patches[i].x >= 0
    <3>1. PICK w : w = tw * Pool
      OBVIOUS
    <3>2. patches[i].x \in 0 .. w - 1
      BY <1>2, <2>1, <3>1 DEF Tiled, Lined
    <3>3. w \in Nat
      BY ONLY <1>1, <3>1
    <3> QED BY ONLY <3>2, <3>3
  <2>2. ASSUME NEW i \in 1 .. n, ~(i <= k) PROVE ~(patches[i].x >= 0)
    <3>1. patches[i].x = -1
      BY <1>2, <2>2 DEF Tiled, Lined
    <3> QED BY <3>1
  <2> QED BY <2>1, <2>2
<1>5. {i \in DOMAIN patches : patches[i].x >= 0} = 1 .. k
  <2>1. \A i \in 1 .. n : i \in 1 .. k <=> patches[i].x >= 0
    BY ONLY <1>1, <1>3, <1>4
  <2>2. 1 .. k \subseteq 1 .. n
    BY ONLY <1>1, <1>3
  <2>3. DOMAIN patches = 1 .. n
    BY ONLY <1>1
  <2> QED BY ONLY <2>1, <2>2, <2>3
<1>6. th * tw \in Nat \ {0}
  BY <1>1
<1> QED BY <1>1, <1>2, <1>3, <1>5, <1>6

LEMMA PooledRowsAre ==
  ASSUME ImageAssumption, NEW patches, NEW tw, NEW th, NEW n, Tiled(patches, tw, th, n)
  PROVE  PooledRows(patches) = Pooled(patches, tw, th)
<1>1. PICK used : used = {Block(patches, p) : p \in ToSet(patches)}
  OBVIOUS
<1>2. PICK m : m = th * tw
  OBVIOUS
<1>3. used = 0 .. m - 1 /\ m \in Nat
  BY <1>1, <1>2, BlocksAre, TiledPlaces
<1>4. Cardinality(used) = m
  <2>1. m \in Nat
    BY <1>3
  <2>2. Cardinality(0 .. m - 1) = m
    BY ONLY <2>1, FS_Interval
  <2> QED BY <1>3, <2>2
<1> DEFINE row(b) == {i \in DOMAIN patches : patches[i].x >= 0 /\ Block(patches, patches[i]) = b}
<1>5. PooledRows(patches) = [r \in 1 .. m |-> row(Nth(used, r))]
  BY <1>1, <1>4 DEF PooledRows
<1>6. ASSUME NEW r \in 1 .. m PROVE row(Nth(used, r)) = PatchesOf(patches, tw, th, r - 1)
  <2>1. Nth(used, r) = r - 1
    BY <1>3, NthOfInterval
  <2>2. PICK k : k = (tw * Pool) * (th * Pool)
    OBVIOUS
  <2>3. {i \in DOMAIN patches : patches[i].x >= 0} = 1 .. k
    BY <2>2, TiledPlaces
  <2>4. \A i \in 1 .. k : Block(patches, patches[i]) = Soft(patches, tw, i)
    <3>1. ASSUME NEW i \in 1 .. k PROVE Block(patches, patches[i]) = Soft(patches, tw, i)
      <4>1. k \in Nat /\ k <= n /\ n \in Nat
        BY <2>2, TiledPlaces
      <4>2. i \in 1 .. n /\ i <= (tw * Pool) * (th * Pool)
        BY <2>2, <4>1
      <4> QED BY <4>2, BlockIs
    <3> QED BY <3>1
  <2>5. row(r - 1) = {i \in 1 .. k : Soft(patches, tw, i) = r - 1}
    BY <2>3, <2>4
  <2> HIDE DEF row
  <2> QED BY <2>1, <2>2, <2>5 DEF PatchesOf
<1> HIDE DEF row
<1> QED BY <1>2, <1>5, <1>6 DEF Pooled

LEMMA CoremlRowsAre ==
  ASSUME ImageAssumption, NEW patches, NEW tw, NEW th, NEW n, Tiled(patches, tw, th, n)
  PROVE  CoremlRows(patches) = Pooled(patches, tw, th)
<1>1. PICK keep : keep = {i \in DOMAIN patches : patches[i].x >= 0}
  OBVIOUS
<1>2. PICK columns : columns = (Max({patches[i].x : i \in keep}) + 1) \div Pool
  OBVIOUS
<1>3. Pool \in Nat \ {0} /\ tw \in Nat \ {0} /\ th \in Nat \ {0}
  BY DEF ImageAssumption, Tiled
<1>4. columns = tw
  <2>1. Lined(patches, tw * Pool, th * Pool, n)
    BY DEF Tiled
  <2>2. Max({patches[i].x : i \in keep}) = tw * Pool - 1
    BY <1>1, <2>1, LinedMax
  <2>3. (tw * Pool - 1 + 1) \div Pool = tw
    BY <1>3, Exactly
  <2> QED BY <1>2, <2>2, <2>3
<1>5. PICK k, m : k = (tw * Pool) * (th * Pool) /\ m = th * tw
  OBVIOUS
<1>6. keep = 1 .. k /\ k \in Nat /\ k <= n /\ n \in Nat /\ m \in Nat \ {0}
  BY <1>1, <1>5, TiledPlaces
<1> DEFINE group(i) == (patches[i].y \div Pool) * columns + patches[i].x \div Pool
<1>7. CoremlRows(patches) = [r \in 1 .. Max({group(i) : i \in keep}) + 1 |-> {i \in keep : group(i) = r - 1}]
  BY <1>1, <1>2 DEF CoremlRows
<1>8. ASSUME NEW i \in keep PROVE group(i) = Soft(patches, tw, i) /\ group(i) \in 0 .. m - 1
  <2>1. i \in 1 .. n /\ i <= (tw * Pool) * (th * Pool)
    BY <1>5, <1>6
  <2>2. PICK x, y : x = patches[i].x \div Pool /\ y = patches[i].y \div Pool
    OBVIOUS
  <2>3. x \in 0 .. tw - 1 /\ y \in 0 .. th - 1 /\ Soft(patches, tw, i) \in 0 .. th * tw - 1
    BY <2>1, <2>2, SoftPlace
  <2>4. group(i) = y * tw + x /\ Soft(patches, tw, i) = x + tw * y
    BY <1>4, <2>2 DEF Soft
  <2>5. y * tw = tw * y /\ tw * y \in Int /\ x \in Int
    BY <1>3, <2>3
  <2> HIDE DEF group
  <2> QED BY <1>5, <2>3, <2>4, <2>5
<1>9. Max({group(i) : i \in keep}) = m - 1
  <2>1. PICK S : S = {group(i) : i \in keep}
    OBVIOUS
  <2>2. m - 1 \in S
    <3>1. m - 1 \in 0 .. th * tw - 1
      <4>1. m - 1 \in 0 .. m - 1
        BY ONLY <1>5, <1>6
      <4> QED BY ONLY <1>5, <1>6, <4>1
    <3>2. PICK i \in 1 .. n : i <= (tw * Pool) * (th * Pool) /\ Soft(patches, tw, i) = m - 1
      BY <3>1, BlocksAre
    <3>3. i \in keep
      BY <1>5, <1>6, <3>2
    <3> HIDE DEF group
    <3> QED BY <1>8, <2>1, <3>2, <3>3
  <2>3. S \in SUBSET Int /\ \A s \in S : s <= m - 1
    <3> HIDE DEF group
    <3> QED BY <1>6, <1>8, <2>1
  <2>4. Max(S) = m - 1
    BY <2>2, <2>3, MaxIs
  <2> QED BY <2>1, <2>4
<1>10. \A r : {i \in keep : group(i) = r - 1} = PatchesOf(patches, tw, th, r - 1)
  <2> HIDE DEF group
  <2> QED BY <1>5, <1>6, <1>8 DEF PatchesOf
<1> HIDE DEF group
<1>11. m - 1 + 1 = m
  BY <1>6
<1> QED BY <1>5, <1>7, <1>9, <1>10, <1>11 DEF Pooled

(* Rooms: the tables have a row for each place, the batch one for each     *)
(* soft token.                                                             *)
LEMMA TiledFits ==
  ASSUME ImageAssumption, NEW patches, NEW tw, NEW th, NEW soft \in Nat, tw * th <= soft,
         Tiled(patches, tw, th, MaxPatches(soft)), NEW table \in Nat, soft * Pool <= table
  PROVE  /\ PoolFits(patches, table)
         /\ CoremlVisionFits(patches, tw * th, table)
<1>1. Pool \in Nat \ {0} /\ tw \in Nat \ {0} /\ th \in Nat \ {0}
  BY DEF ImageAssumption, Tiled
<1>2. PICK n : n = MaxPatches(soft)
  OBVIOUS
<1>3. Tiled(patches, tw, th, n)
  BY <1>2
<1>4. PICK k, m : k = (tw * Pool) * (th * Pool) /\ m = th * tw
  OBVIOUS
<1>5. DOMAIN patches = 1 .. n /\ Len(patches) = n /\ n \in Nat /\ k \in Nat /\ k <= n /\ m \in Nat \ {0}
      /\ {i \in DOMAIN patches : patches[i].x >= 0} = 1 .. k
  BY <1>3, <1>4, TiledPlaces
<1>6. Len(patches) \div (Pool * Pool) = soft
  <2>1. Pool * Pool \in Nat \ {0}
    BY <1>1
  <2>2. n = soft * (Pool * Pool)
    BY <1>1, <1>2 DEF MaxPatches
  <2>3. PICK q : q = Pool * Pool
    OBVIOUS
  <2>4. q \in Nat \ {0} /\ Len(patches) = soft * q
    BY ONLY <1>5, <2>1, <2>2, <2>3
  <2>5. (soft * q) \div q = soft
    BY <2>4, Exactly
  <2> QED BY ONLY <2>3, <2>4, <2>5
<1>7. m <= soft /\ m = tw * th
  BY <1>1, <1>4
<1>8. tw <= soft /\ th <= soft
  <2>1. tw <= tw * th /\ th <= tw * th /\ tw * th \in Nat
    BY <1>1
  <2> QED BY <1>1, <2>1
<1>9. tw * Pool <= table /\ th * Pool <= table
  <2>1. tw * Pool <= soft * Pool /\ th * Pool <= soft * Pool
    BY <1>1, <1>8
  <2>2. tw * Pool \in Nat /\ th * Pool \in Nat /\ soft * Pool \in Nat
    BY <1>1
  <2> QED BY <2>1, <2>2
<1>10. ASSUME NEW i \in 1 .. n PROVE patches[i].x < table /\ patches[i].y < table
  <2>1. patches[i].x \in -1 .. tw * Pool - 1 /\ patches[i].y \in -1 .. th * Pool - 1
    <3>1. CASE i <= k
      <4>1. patches[i].x \in 0 .. tw * Pool - 1 /\ patches[i].y \in 0 .. th * Pool - 1
        BY <1>3, <1>4, <3>1 DEF Tiled, Lined
      <4> QED BY <1>1, <4>1
    <3>2. CASE ~(i <= k)
      <4>1. patches[i].x = -1 /\ patches[i].y = -1
        BY <1>3, <1>4, <3>2 DEF Tiled, Lined
      <4>2. tw * Pool \in Nat /\ th * Pool \in Nat
        BY <1>1
      <4> QED BY <4>1, <4>2
    <3> QED BY <3>1, <3>2
  <2> QED BY <1>1, <1>9, <2>1
<1>11. ToSet(patches) = {patches[i] : i \in 1 .. n}
  BY <1>5 DEF ToSet
<1>12. PoolFits(patches, table)
  <2>1. ASSUME NEW i \in 1 .. n PROVE Block(patches, patches[i]) < soft
    <3>1. Block(patches, patches[i]) \in 0 .. m - 1
      <4>1. Block(patches, patches[i]) \in {Block(patches, p) : p \in ToSet(patches)}
        BY <1>11
      <4> QED BY <1>3, <1>4, <4>1, BlocksAre
    <3> QED BY <1>5, <1>7, <3>1
  <2> QED BY <1>6, <1>10, <1>11, <2>1 DEF PoolFits
<1>13. CoremlVisionFits(patches, tw * th, table)
  <2>1. PICK keep : keep = {p \in ToSet(patches) : p.x >= 0}
    OBVIOUS
  <2>2. keep # {}
    <3>1. PICK i \in 1 .. n : i <= k
      <4>1. 0 \in 0 .. th * tw - 1
        BY <1>4, <1>5
      <4> QED BY <1>3, <1>4, <4>1, BlocksAre
    <3>2. patches[i].x >= 0
      BY <1>5, <3>1
    <3> QED BY <1>11, <2>1, <3>2
  <2>3. \A p \in keep : p.x < table /\ p.y < table
    BY <1>10, <1>11, <2>1
  <2>4. Len(CoremlRows(patches)) = m
    <3>1. PICK f, S : f = CoremlRows(patches) /\ S = {f[r] : r \in 1 .. m}
      OBVIOUS
    <3>2. f \in [1 .. m -> S]
      BY <1>3, <1>4, <3>1, CoremlRowsAre DEF Pooled
    <3> QED BY <1>5, <3>1, <3>2, FunctionSeq
  <2> QED BY <1>6, <1>7, <2>1, <2>2, <2>3, <2>4 DEF CoremlVisionFits
<1> QED BY <1>12, <1>13

-------------------------------------------------------------------------------
(* The pixels below a soft token.                                          *)

LEMMA Cancel ==
  ASSUME NEW d \in Nat \ {0}, NEW a \in Int, NEW b \in Int, a * d < b * d
  PROVE  a < b
<1>1. CASE a >= b
  <2>1. (a - b) * d >= 0
    <3>1. a - b \in Nat
      BY <1>1
    <3>2. (a - b) * d \in Nat
      BY <3>1
    <3> QED BY <3>2
  <2>2. (a - b) * d = a * d - b * d /\ a * d \in Int /\ b * d \in Int
    OBVIOUS
  <2> QED BY <2>1, <2>2
<1> QED BY <1>1

LEMMA Floor ==
  ASSUME NEW a \in Int, NEW b \in Nat \ {0}
  PROVE  a \div b \in Int /\ (a \div b) * b <= a /\ a < (a \div b) * b + b
OBVIOUS

(* The window of the filter around an output pixel j reaches every source  *)
(* pixel c that j overlaps.                                                *)
LEMMA AxisSourcesHave ==
  ASSUME NEW I \in Nat \ {0}, NEW O \in Nat \ {0}, NEW j \in 0 .. O - 1, NEW c \in 0 .. I - 1,
         j * I < (c + 1) * O, c * O < (j + 1) * I
  PROVE  c \in AxisSources(I, O)[j]
<1>1. PICK jI, cO : jI = j * I /\ cO = c * O
  OBVIOUS
<1>2. jI \in Nat /\ cO \in Nat
  BY <1>1
<1>3. jI < cO + O /\ cO < jI + I
  <2>1. (c + 1) * O = c * O + O /\ (j + 1) * I = j * I + I
    OBVIOUS
  <2> QED BY <1>1, <2>1
<1>4. PICK d : d = 2 * O
  OBVIOUS
<1>5. d \in Nat \ {0}
  BY <1>4
<1>6. PICK M : M = Max({I, O})
  OBVIOUS
<1>7. M \in Nat \ {0} /\ M >= I /\ M >= O
  BY <1>6, MaxOfTwo
<1>8. PICK e : e = (4 * M + d - 1) \div d
  OBVIOUS
<1>9. e \in Int /\ 4 * M <= e * d /\ e * d \in Int
  <2>1. 4 * M + d - 1 \in Int
    BY <1>5, <1>7
  <2>2. e \in Int /\ 4 * M + d - 1 < e * d + d
    BY <1>5, <1>8, <2>1, Floor
  <2>3. e * d \in Int
    BY <1>5, <2>2
  <2> QED BY <1>5, <1>7, <2>2, <2>3
<1>10. PICK q1, q2 : q1 = (I * (2 * j + 1) - 4 * M + O) \div d /\ q2 = (I * (2 * j + 1) + 4 * M + O) \div d
  OBVIOUS
<1>11. I * (2 * j + 1) = 2 * jI + I
  BY <1>1
<1>12. q1 \in Int /\ q1 * d <= 2 * jI + I - 4 * M + O /\ 2 * jI + I - 4 * M + O < q1 * d + d /\ q1 * d \in Int
  <2>1. PICK N : N = 2 * jI + I - 4 * M + O
    OBVIOUS
  <2>2. N \in Int
    <3>1. 2 * jI \in Int /\ I - 4 * M \in Int /\ O \in Int
      BY <1>2, <1>7
    <3> QED BY <2>1, <3>1
  <2>3. q1 = N \div d
    <3>1. PICK x : x = I * (2 * j + 1)
      OBVIOUS
    <3>2. x - 4 * M + O = N
      BY <1>2, <1>7, <1>11, <2>1, <3>1
    <3> QED BY <1>10, <3>1, <3>2
  <2>4. q1 \in Int /\ q1 * d <= N /\ N < q1 * d + d
    BY <1>5, <2>2, <2>3, Floor
  <2>5. q1 * d \in Int
    BY <1>5, <2>4
  <2> QED BY <2>1, <2>4, <2>5
<1>13. q2 \in Int /\ q2 * d <= 2 * jI + I + 4 * M + O /\ 2 * jI + I + 4 * M + O < q2 * d + d /\ q2 * d \in Int
  <2>1. PICK N : N = 2 * jI + I + 4 * M + O
    OBVIOUS
  <2>2. N \in Int
    BY <1>2, <1>7, <2>1
  <2>3. q2 = N \div d
    BY <1>10, <1>11, <2>1
  <2>4. q2 \in Int /\ q2 * d <= N /\ N < q2 * d + d
    BY <1>5, <2>2, <2>3, Floor
  <2>5. q2 * d \in Int
    BY <1>5, <2>4
  <2> QED BY <2>1, <2>4, <2>5
<1>14. (c + 1) * d = 2 * cO + 2 * O
  BY <1>1, <1>4
<1>15. q1 <= c
  <2>1. q1 * d < (c + 1) * d
    BY <1>2, <1>3, <1>7, <1>12, <1>14
  <2>2. c + 1 \in Int
    OBVIOUS
  <2>3. q1 < c + 1
    BY <1>5, <1>12, <2>1, <2>2, Cancel
  <2> QED BY <1>12, <2>3
<1>16. c < q2
  <2>1. (q2 + 1) * d = q2 * d + d
    BY <1>5, <1>13
  <2>2. (c + 1) * d < (q2 + 1) * d
    <3>1. PICK x, y, z : x = (c + 1) * d /\ y = (q2 + 1) * d /\ z = q2 * d
      OBVIOUS
    <3>2. x = 2 * cO + 2 * O /\ y = z + d /\ z \in Int /\ 2 * jI + I + 4 * M + O < z + d
      BY <1>13, <1>14, <2>1, <3>1
    <3>3. 2 * cO + 2 * O < z + d
      BY <1>2, <1>3, <1>5, <1>7, <3>2
    <3> QED BY <3>1, <3>2, <3>3
  <2>3. c + 1 \in Int /\ q2 + 1 \in Int
    BY <1>13
  <2>4. c + 1 < q2 + 1
    BY <1>5, <2>2, <2>3, Cancel
  <2> QED BY <1>13, <2>4
<1>17. q2 <= q1 + 2 * e
  <2>1. (q1 + 2 * e + 1) * d = q1 * d + 2 * (e * d) + d
    BY <1>5, <1>9, <1>12
  <2>2. q2 * d < (q1 + 2 * e + 1) * d
    <3>1. PICK x, y, z : x = q2 * d /\ y = q1 * d /\ z = e * d
      OBVIOUS
    <3>2. /\ x <= 2 * jI + I + 4 * M + O /\ 2 * jI + I - 4 * M + O < y + d /\ 4 * M <= z
          /\ x \in Int /\ y \in Int /\ z \in Int
      BY <1>9, <1>12, <1>13, <3>1
    <3>3. x < y + 2 * z + d
      BY <1>2, <1>5, <1>7, <3>2
    <3> QED BY <2>1, <3>1, <3>3
  <2>3. q1 + 2 * e + 1 \in Int
    BY <1>9, <1>12
  <2>4. q2 < q1 + 2 * e + 1
    BY <1>5, <1>13, <2>2, <2>3, Cancel
  <2> QED BY <1>9, <1>12, <1>13, <2>4
<1>18. PICK lo, hi : lo = Max({0, q1}) /\ hi = Min({I, q2})
  OBVIOUS
<1>19. lo \in Int /\ lo <= c /\ q1 <= lo
  BY <1>12, <1>15, <1>18, MaxOfTwo
<1>20. hi \in Int /\ c < hi
  BY <1>13, <1>16, <1>18, MinOfTwo
<1>21. PICK end : end = Min({hi, lo + (2 * e + 1)})
  OBVIOUS
<1>22. end \in Int /\ c < end
  <2>1. lo + (2 * e + 1) \in Int /\ c < lo + (2 * e + 1)
    BY <1>9, <1>12, <1>13, <1>16, <1>17, <1>19
  <2> QED BY <1>20, <1>21, <2>1, MinOfTwo
<1>23. AxisSources(I, O)[j] = IF I = O THEN {j} ELSE lo .. end - 1
  BY <1>4, <1>6, <1>8, <1>10, <1>18, <1>21 DEF AxisSources
<1>24. CASE I = O
  <2>1. j * O < (c + 1) * O /\ c * O < (j + 1) * O
    BY <1>24
  <2>2. j < c + 1 /\ c < j + 1
    <3>1. j \in Int /\ c \in Int /\ j + 1 \in Int /\ c + 1 \in Int
      OBVIOUS
    <3> QED BY <2>1, <3>1, Cancel
  <2> QED BY <1>23, <1>24, <2>2
<1>25. CASE I # O
  BY <1>19, <1>22, <1>23, <1>25
<1> QED BY <1>24, <1>25

(* A source pixel in a share of an axis is below an output pixel of it.    *)
LEMMA ShareReached ==
  ASSUME ImageAssumption, NEW size \in Nat \ {0}, NEW parts \in Nat \ {0}, NEW part \in 0 .. parts - 1,
         NEW c \in (size * part) \div parts .. (size * (part + 1) - 1) \div parts
  PROVE  \E j \in part * Side .. (part + 1) * Side - 1 : c \in AxisSources(size, parts * Side)[j]
<1>1. PICK S : S = Side
  OBVIOUS
<1>2. S \in Nat \ {0}
  BY <1>1 DEF ImageAssumption, Side
<1>3. PICK O : O = parts * S
  OBVIOUS
<1>4. O \in Nat \ {0}
  BY <1>2, <1>3
<1>5. PICK a, b : a = size * part /\ b = size * (part + 1)
  OBVIOUS
<1>6. a \in Nat /\ b \in Nat \ {0} /\ b = a + size
  BY <1>5
<1>7. c \in Int /\ a < (c + 1) * parts
  <2>1. PICK q : q = a \div parts
    OBVIOUS
  <2>2. q \in Nat /\ a < q * parts + parts
    BY <1>6, <2>1, Division
  <2>3. c \in Int /\ q <= c
    <3>1. (size * (part + 1) - 1) \div parts \in Int
      <4>1. size * (part + 1) - 1 \in Int
        OBVIOUS
      <4> QED BY <4>1, Floor
    <3> QED BY <1>5, <2>1, <2>2, <3>1
  <2>4. q * parts <= c * parts /\ c * parts \in Int /\ q * parts \in Int
    BY <2>2, <2>3
  <2>5. (c + 1) * parts = c * parts + parts
    BY <2>3
  <2>6. PICK x, y : x = c * parts /\ y = q * parts
    OBVIOUS
  <2>7. a < x + parts
    BY <1>6, <2>2, <2>4, <2>6
  <2> QED BY <2>3, <2>5, <2>6, <2>7
<1>8. c * parts < b /\ c * parts \in Int
  <2>1. PICK q : q = (b - 1) \div parts
    OBVIOUS
  <2>2. q \in Int /\ q * parts <= b - 1
    BY <1>6, <2>1, Floor
  <2>3. c <= q
    BY <1>5, <1>7, <2>1, <2>2
  <2>4. c * parts <= q * parts /\ c * parts \in Int /\ q * parts \in Int
    BY <1>7, <2>2, <2>3
  <2> QED BY <1>6, <2>2, <2>4
<1>9. c \in 0 .. size - 1
  <2>1. c >= 0
    <3>1. 0 * parts < (c + 1) * parts
      BY <1>6, <1>7
    <3>2. c + 1 \in Int
      BY <1>7
    <3>3. 0 < c + 1
      BY <3>1, <3>2, Cancel
    <3> QED BY <1>7, <3>3
  <2>2. c < size
    <3>1. b <= size * parts
      <4>1. part + 1 <= parts
        OBVIOUS
      <4> QED BY <1>5, <4>1
    <3>2. size * parts \in Int
      OBVIOUS
    <3>3. c * parts < size * parts
      BY <1>6, <1>8, <3>1, <3>2
    <3> QED BY <1>7, <3>3, Cancel
  <2> QED BY <1>7, <2>1, <2>2
<1>10. c * O = (c * parts) * S /\ (c + 1) * O = ((c + 1) * parts) * S
  BY <1>2, <1>3, <1>7
<1>11. PICK j0 : j0 = (c * O) \div size
  OBVIOUS
<1>12. j0 \in Nat /\ j0 * size <= c * O /\ c * O < j0 * size + size /\ c * O \in Nat
  <2>1. c * O \in Nat
    BY <1>4, <1>9
  <2> QED BY <1>11, <2>1, Division
<1>13. j0 < (part + 1) * S
  <2>1. c * O < ((part + 1) * S) * size
    <3>1. PICK x : x = c * parts
      OBVIOUS
    <3>2. x \in Int /\ x < b
      BY <1>8, <3>1
    <3>3. x * S < b * S
      <4>1. (b - x) \in Nat \ {0}
        BY <1>6, <3>2
      <4>2. (b - x) * S \in Nat \ {0}
        BY <1>2, <4>1
      <4>3. (b - x) * S = b * S - x * S /\ b * S \in Int /\ x * S \in Int
        BY <1>2, <1>6, <3>2
      <4> QED BY <4>2, <4>3
    <3>4. b * S = ((part + 1) * S) * size
      BY <1>2, <1>5
    <3> QED BY <1>10, <3>1, <3>3, <3>4
  <2>2. j0 * size < ((part + 1) * S) * size
    <3>1. j0 * size \in Int /\ ((part + 1) * S) * size \in Int
      BY <1>2, <1>12
    <3> QED BY <1>12, <2>1, <3>1
  <2>3. (part + 1) * S \in Int
    BY <1>2
  <2> QED BY <1>12, <2>2, <2>3, Cancel
<1>14. (part + 1) * S \in Nat /\ (part + 1) * S <= O /\ part * S \in Nat /\ part * S + S = (part + 1) * S
  <2>1. part + 1 <= parts
    OBVIOUS
  <2>2. (part + 1) * S <= parts * S
    BY <1>2, <2>1
  <2> QED BY <1>2, <1>3, <2>2
<1>15. ASSUME NEW j \in part * S .. (part + 1) * S - 1, j * size < (c + 1) * O, c * O < (j + 1) * size
       PROVE  \E i \in part * Side .. (part + 1) * Side - 1 : c \in AxisSources(size, parts * Side)[i]
  <2>1. j \in 0 .. O - 1
    BY <1>4, <1>14
  <2>2. c \in AxisSources(size, O)[j]
    BY <1>4, <1>9, <1>15, <2>1, AxisSourcesHave
  <2> QED BY <1>1, <1>3, <2>2
<1>16. CASE j0 >= part * S
  <2>1. j0 \in part * S .. (part + 1) * S - 1
    BY <1>12, <1>13, <1>14, <1>16
  <2>2. (c + 1) * O = c * O + O /\ (j0 + 1) * size = j0 * size + size
    BY <1>4, <1>7, <1>12
  <2>3. j0 * size < (c + 1) * O
    <3>1. j0 * size \in Int
      BY <1>12
    <3> QED BY <1>4, <1>12, <2>2, <3>1
  <2> QED BY <1>12, <1>15, <2>1, <2>2, <2>3
<1>17. CASE j0 < part * S
  <2>1. PICK j : j = part * S
    OBVIOUS
  <2>2. j \in part * S .. (part + 1) * S - 1 /\ j \in Nat /\ j0 < j
    BY <1>2, <1>14, <1>17, <2>1
  <2>3. j * size < (c + 1) * O
    <3>1. PICK y : y = (c + 1) * parts
      OBVIOUS
    <3>2. y \in Int /\ a < y
      BY <1>7, <3>1
    <3>3. a * S < y * S
      <4>1. (y - a) \in Nat \ {0}
        BY <1>6, <3>2
      <4>2. (y - a) * S \in Nat \ {0}
        BY <1>2, <4>1
      <4>3. (y - a) * S = y * S - a * S /\ y * S \in Int /\ a * S \in Int
        BY <1>2, <1>6, <3>2
      <4> QED BY <4>2, <4>3
    <3>4. a * S = j * size
      BY <1>2, <1>5, <2>1
    <3> QED BY <1>10, <3>1, <3>3, <3>4
  <2>4. c * O < (j + 1) * size
    <3>1. (j0 + 1) * size <= (j + 1) * size
      BY <1>12, <2>2
    <3>2. (j0 + 1) * size = j0 * size + size /\ (j + 1) * size \in Int /\ j0 * size \in Int
      BY <1>12, <2>2
    <3> QED BY <1>12, <3>1, <3>2
  <2> QED BY <1>15, <2>2, <2>3, <2>4
<1> QED BY <1>12, <1>14, <1>16, <1>17

(* A picture of w by h pixels as tw by th soft tokens, of at most soft.    *)
Below(sources, x) == UNION {sources[j] : j \in x * PatchSize .. (x + 1) * PatchSize - 1}

Grid(p, w, h, soft, tw, th) ==
  /\ tw * th <= soft /\ p.soft = th * tw
  /\ Tiled(p.patches, tw, th, MaxPatches(soft))
  /\ \A i \in 1 .. (tw * Pool) * (th * Pool) :
       /\ p.patches[i].cols = Below(AxisSources(w, tw * Side), p.patches[i].x)
       /\ p.patches[i].rows = Below(AxisSources(h, th * Side), p.patches[i].y)

LEMMA PreprocessGrid ==
  ASSUME ImageAssumption, NEW h \in Nat \ {0}, NEW w \in Nat \ {0}, NEW soft \in Nat, NEW p \in Preprocess(h, w, soft)
  PROVE  \E tw, th \in Nat \ {0} : Grid(p, w, h, soft, tw, th)
<1>1. Pool \in Nat \ {0}
  BY DEF ImageAssumption
<1>2. PICK t \in TargetSize(h, w, soft) :
        LET pw == t[2] * Pool
            ph == t[1] * Pool
        IN p = [patches |-> [i \in 1 .. MaxPatches(soft) |->
                  IF i <= ph * pw
                  THEN PatchAt(w, h, t[2] * Side, t[1] * Side, (i - 1) % pw, (i - 1) \div pw)
                  ELSE [x |-> -1, y |-> -1, cols |-> {}, rows |-> {}]],
                soft |-> (ph * pw) \div (Pool * Pool)]
  BY DEF Preprocess
<1>3. PICK th, tw \in Nat \ {0} : t = <<th, tw>> /\ th * tw <= soft
  BY TargetSizeIs
<1>4. PICK pw, ph, n : pw = tw * Pool /\ ph = th * Pool /\ n = MaxPatches(soft)
  OBVIOUS
<1>5. PICK f : f = p.patches
  OBVIOUS
<1>6. pw \in Nat \ {0} /\ ph \in Nat \ {0} /\ n \in Nat /\ ph * pw = pw * ph /\ pw * ph \in Nat \ {0}
  <2>1. pw \in Nat \ {0} /\ ph \in Nat \ {0}
    BY <1>1, <1>4
  <2>2. soft * Pool \in Nat
    BY <1>1
  <2>3. soft * Pool * Pool \in Nat
    BY <1>1, <2>2
  <2>4. ph * pw = pw * ph /\ pw * ph \in Nat \ {0}
    BY <2>1
  <2> QED BY <1>4, <2>1, <2>3, <2>4 DEF MaxPatches
<1>7. /\ f = [i \in 1 .. n |->
                IF i <= ph * pw
                THEN PatchAt(w, h, tw * Side, th * Side, (i - 1) % pw, (i - 1) \div pw)
                ELSE [x |-> -1, y |-> -1, cols |-> {}, rows |-> {}]]
      /\ p.soft = (ph * pw) \div (Pool * Pool)
  BY <1>2, <1>3, <1>4, <1>5
<1>8. p.soft = th * tw /\ pw * ph <= n
  <2>1. PICK d : d = Pool * Pool
    OBVIOUS
  <2>2. d \in Nat \ {0}
    BY <1>1, <2>1
  <2>3. ph * pw = (th * tw) * d
    BY <1>1, <1>4, <2>1
  <2>4. n = soft * d
    BY <1>1, <1>4, <2>1 DEF MaxPatches
  <2>5. PICK m : m = th * tw
    OBVIOUS
  <2>6. m \in Nat /\ m <= soft
    BY <1>3, <2>5
  <2>7. m * d <= soft * d
    BY <2>2, <2>6
  <2>8. (m * d) \div d = m
    BY <2>2, <2>6, Exactly
  <2> QED BY <1>6, <1>7, <2>1, <2>3, <2>4, <2>5, <2>7, <2>8
<1>9. ASSUME NEW i \in 1 .. n, i <= pw * ph
      PROVE  /\ f[i].x = (i - 1) % pw /\ f[i].y = (i - 1) \div pw
             /\ f[i].cols = Below(AxisSources(w, tw * Side), f[i].x)
             /\ f[i].rows = Below(AxisSources(h, th * Side), f[i].y)
             /\ f[i].x \in 0 .. pw - 1 /\ f[i].y \in 0 .. ph - 1 /\ i = f[i].y * pw + f[i].x + 1
  <2>1. PICK x, y : x = (i - 1) % pw /\ y = (i - 1) \div pw
    OBVIOUS
  <2>2. f[i] = PatchAt(w, h, tw * Side, th * Side, x, y)
    BY <1>6, <1>7, <1>9, <2>1
  <2>3. f[i].x = x /\ f[i].y = y /\ f[i].cols = Below(AxisSources(w, tw * Side), x)
        /\ f[i].rows = Below(AxisSources(h, th * Side), y)
    BY <2>2 DEF PatchAt, Below
  <2>4. x \in 0 .. pw - 1 /\ y \in 0 .. ph - 1 /\ i = y * pw + x + 1
    <3>1. i - 1 \in 0 .. ph * pw - 1
      BY <1>6, <1>9
    <3>2. PICK a : a = i - 1
      OBVIOUS
    <3>3. a \div pw \in 0 .. ph - 1 /\ a % pw \in 0 .. pw - 1 /\ a = (a \div pw) * pw + (a % pw)
      BY <1>6, <3>1, <3>2, PartOf
    <3>4. x \in 0 .. pw - 1 /\ y \in 0 .. ph - 1 /\ a = y * pw + x
      BY <2>1, <3>2, <3>3
    <3>5. y * pw \in Int
      BY <1>6, <3>4
    <3> QED BY <1>6, <3>2, <3>4, <3>5
  <2> QED BY <2>1, <2>3, <2>4
<1>10. ASSUME NEW i \in 1 .. n, ~(i <= pw * ph) PROVE f[i].x = -1 /\ f[i].y = -1
  BY <1>6, <1>7, <1>10
<1>11. DOMAIN f = 1 .. n /\ Len(f) = n
  <2>1. PICK S : S = {f[i] : i \in 1 .. n}
    OBVIOUS
  <2>2. f \in [1 .. n -> S]
    BY <1>7, <2>1
  <2> QED BY <1>6, <2>2, FunctionSeq
<1>12. Tiled(f, tw, th, n)
  <2>1. Lined(f, pw, ph, n)
    BY <1>6, <1>8, <1>9, <1>10, <1>11 DEF Lined
  <2> QED BY <1>4, <2>1 DEF Tiled
<1>13. \A i \in 1 .. pw * ph : i \in 1 .. n /\ i <= pw * ph
  BY <1>6, <1>8
<1>14. Grid(p, w, h, soft, tw, th)
  <2>1. tw * th = th * tw
    OBVIOUS
  <2> QED BY <1>3, <1>4, <1>5, <1>8, <1>9, <1>12, <1>13, <2>1 DEF Grid
<1> QED BY <1>14

(* A soft token has all its patches.                                       *)
LEMMA PlacesCount ==
  ASSUME ImageAssumption, NEW patches, NEW tw, NEW th, NEW n, Tiled(patches, tw, th, n), NEW b \in 0 .. th * tw - 1
  PROVE  Cardinality(PatchesOf(patches, tw, th, b)) = Pool * Pool
<1>1. Pool \in Nat \ {0} /\ tw \in Nat \ {0} /\ th \in Nat \ {0}
  BY DEF ImageAssumption, Tiled
<1>2. PICK q, r : q = b \div tw /\ r = b % tw
  OBVIOUS
<1>3. q \in 0 .. th - 1 /\ r \in 0 .. tw - 1 /\ b = q * tw + r
  BY <1>1, <1>2, PartOf
<1>4. PICK S, T : S = 0 .. Pool - 1 /\ T = PatchesOf(patches, tw, th, b)
  OBVIOUS
<1>5. PICK pw, ph : pw = tw * Pool /\ ph = th * Pool
  OBVIOUS
<1>6. Lined(patches, pw, ph, n)
  BY <1>5 DEF Tiled
<1> DEFINE place(u, v) == (q * Pool + v) * pw + (r * Pool + u) + 1
<1>7. ASSUME NEW u \in S, NEW v \in S
      PROVE  place(u, v) \in T /\ patches[place(u, v)].x = r * Pool + u /\ patches[place(u, v)].y = q * Pool + v
  <2>1. r * Pool + u \in 0 .. pw - 1 /\ (r * Pool + u) \div Pool = r
    BY <1>1, <1>3, <1>4, <1>5, PartIs
  <2>2. q * Pool + v \in 0 .. ph - 1 /\ (q * Pool + v) \div Pool = q
    BY <1>1, <1>3, <1>4, <1>5, PartIs
  <2>3. PICK x, y, i : x = r * Pool + u /\ y = q * Pool + v /\ i = y * pw + x + 1
    OBVIOUS
  <2>4. i \in 1 .. pw * ph /\ patches[i].x = x /\ patches[i].y = y
    BY <1>6, <2>1, <2>2, <2>3, LinedPlace
  <2>5. Soft(patches, tw, i) = b
    <3>1. Soft(patches, tw, i) = r + tw * q
      BY <2>1, <2>2, <2>3, <2>4 DEF Soft
    <3>2. tw * q = q * tw /\ q * tw \in Int /\ r \in Int
      BY <1>1, <1>3
    <3> QED BY <1>3, <3>1, <3>2
  <2>6. i \in T
    BY <1>4, <1>5, <2>4, <2>5 DEF PatchesOf
  <2> QED BY <2>3, <2>4, <2>6
<1>8. ASSUME NEW i \in T PROVE \E u \in S, v \in S : i = place(u, v)
  <2>1. i \in 1 .. pw * ph /\ Soft(patches, tw, i) = b
    BY <1>4, <1>5 DEF PatchesOf
  <2>2. pw * ph <= n /\ n \in Nat /\ pw \in Nat \ {0} /\ ph \in Nat \ {0} /\ pw * ph \in Nat
    BY <1>6 DEF Lined
  <2>3. i \in 1 .. n /\ i <= (tw * Pool) * (th * Pool)
    BY <1>5, <2>1, <2>2
  <2>4. PICK x, y : x = patches[i].x /\ y = patches[i].y
    OBVIOUS
  <2>5. x \in 0 .. tw * Pool - 1 /\ y \in 0 .. th * Pool - 1 /\ x \div Pool = r /\ y \div Pool = q
    BY <1>2, <2>1, <2>3, <2>4, SoftPlace
  <2>6. x % Pool \in S /\ x = r * Pool + (x % Pool)
    BY <1>1, <1>4, <2>5, PartOf
  <2>7. y % Pool \in S /\ y = q * Pool + (y % Pool)
    BY <1>1, <1>4, <2>5, PartOf
  <2>8. i = y * pw + x + 1
    BY <1>6, <2>1, <2>2, <2>3, <2>4, <1>5 DEF Lined
  <2> QED BY <2>6, <2>7, <2>8
<1>9. PICK f : f = [uv \in S \X S |-> place(uv[1], uv[2])]
  OBVIOUS
<1>10. f \in Bijection(S \X S, T)
  <2>1. \A u \in S, v \in S : <<u, v>> \in S \X S /\ f[<<u, v>>] = place(u, v)
    BY <1>9
  <2>2. \A z \in S \X S : \E u \in S, v \in S : z = <<u, v>>
    OBVIOUS
  <2> HIDE DEF place
  <2>3. f \in [S \X S -> T]
    BY <1>7, <1>9
  <2>4. ASSUME NEW y \in S \X S, NEW z \in S \X S, f[y] = f[z] PROVE y = z
    <3>1. PICK u \in S, v \in S : y = <<u, v>>
      BY <2>2
    <3>2. PICK k \in S, l \in S : z = <<k, l>>
      BY <2>2
    <3>3. place(u, v) = place(k, l)
      BY <2>1, <2>4, <3>1, <3>2
    <3>4. r * Pool + u = r * Pool + k /\ q * Pool + v = q * Pool + l
      BY <1>7, <3>3
    <3>5. r * Pool \in Int /\ q * Pool \in Int
      BY <1>1, <1>3
    <3>6. u = k /\ v = l
      BY <1>4, <3>4, <3>5, SMTT(30)
    <3> QED BY <3>1, <3>2, <3>6
  <2>5. ASSUME NEW t \in T PROVE \E z \in S \X S : f[z] = t
    <3>1. PICK u \in S, v \in S : t = place(u, v)
      BY <1>8
    <3>2. <<u, v>> \in S \X S /\ f[<<u, v>>] = t
      BY <2>1, <3>1
    <3> QED BY <3>2
  <2> QED BY <2>3, <2>4, <2>5 DEF Bijection, Injection, Surjection, IsInjective
<1>11. IsFiniteSet(S) /\ Cardinality(S) = Pool
  BY <1>1, <1>4, FS_Interval
<1>12. IsFiniteSet(S \X S) /\ Cardinality(S \X S) = Pool * Pool
  BY <1>11, FS_Product
<1>13. ExistsBijection(S \X S, T)
  BY <1>10 DEF ExistsBijection
<1> QED BY <1>4, <1>12, <1>13, FS_Bijection

(* Its patches reach all of its share of the source.                       *)
ShareOf(size, parts, part) == (size * part) \div parts .. (size * (part + 1) - 1) \div parts

LEMMA GridCovers ==
  ASSUME ImageAssumption, NEW w \in Nat \ {0}, NEW h \in Nat \ {0}, NEW p, NEW soft, NEW tw, NEW th,
         Grid(p, w, h, soft, tw, th), NEW b \in 0 .. th * tw - 1
  PROVE  LET places == PatchesOf(p.patches, tw, th, b)
         IN /\ ShareOf(w, tw, b % tw) \subseteq UNION {p.patches[i].cols : i \in places}
            /\ ShareOf(h, th, b \div tw) \subseteq UNION {p.patches[i].rows : i \in places}
<1>1. Pool \in Nat \ {0} /\ PatchSize \in Nat \ {0} /\ tw \in Nat \ {0} /\ th \in Nat \ {0}
  BY DEF ImageAssumption, Grid, Tiled
<1>2. PICK patches : patches = p.patches
  OBVIOUS
<1>3. PICK q, r : q = b \div tw /\ r = b % tw
  OBVIOUS
<1>4. q \in 0 .. th - 1 /\ r \in 0 .. tw - 1 /\ b = q * tw + r
  BY <1>1, <1>3, PartOf
<1>5. PICK pw, ph : pw = tw * Pool /\ ph = th * Pool
  OBVIOUS
<1>6. Lined(patches, pw, ph, MaxPatches(soft))
  BY <1>2, <1>5 DEF Grid, Tiled
(* The patch at a line and a column of the soft token.                     *)
<1>7. ASSUME NEW x \in 0 .. pw - 1, NEW y \in 0 .. ph - 1, x \div Pool = r, y \div Pool = q
      PROVE  \E i \in PatchesOf(patches, tw, th, b) :
               patches[i].cols = Below(AxisSources(w, tw * Side), x) /\ patches[i].rows = Below(AxisSources(h, th * Side), y)
  <2>1. PICK i : i = y * pw + x + 1
    OBVIOUS
  <2>2. i \in 1 .. pw * ph /\ patches[i].x = x /\ patches[i].y = y
    BY <1>6, <2>1, LinedPlace
  <2>3. Soft(patches, tw, i) = b
    <3>1. Soft(patches, tw, i) = r + tw * q
      BY <1>7, <2>2 DEF Soft
    <3>2. tw * q = q * tw /\ q * tw \in Int /\ r \in Int
      BY <1>1, <1>4
    <3> QED BY <1>4, <3>1, <3>2
  <2>4. i \in PatchesOf(patches, tw, th, b)
    BY <1>5, <2>2, <2>3 DEF PatchesOf
  <2>5. /\ patches[i].cols = Below(AxisSources(w, tw * Side), patches[i].x)
        /\ patches[i].rows = Below(AxisSources(h, th * Side), patches[i].y)
    BY <1>2, <1>5, <2>2 DEF Grid
  <2> QED BY <2>2, <2>4, <2>5
(* A place below a line of soft tokens, by its patch.                      *)
<1>8. ASSUME NEW parts \in Nat \ {0}, NEW part \in 0 .. parts - 1, NEW j \in part * Side .. (part + 1) * Side - 1
      PROVE  \E x \in 0 .. parts * Pool - 1 : x \div Pool = part /\ j \in x * PatchSize .. (x + 1) * PatchSize - 1
  <2>1. PICK x, a, s : x = j \div PatchSize /\ s = j % PatchSize /\ a = part * Pool
    OBVIOUS
  <2>2. part * Side = a * PatchSize /\ (part + 1) * Side = (a + Pool) * PatchSize
    BY <1>1, <2>1 DEF Side
  <2>3. a \in Nat /\ a * PatchSize \in Nat
    BY <1>1, <2>1
  <2>4. j \in Nat /\ a * PatchSize <= j /\ j < (a + Pool) * PatchSize
    <3>1. (a + Pool) * PatchSize \in Nat
      BY <1>1, <2>3
    <3> QED BY <2>2, <2>3, <3>1
  <2>5. x \in Nat /\ s \in 0 .. PatchSize - 1 /\ j = x * PatchSize + s /\ x * PatchSize \in Nat
    <3>1. x \in Nat /\ s \in 0 .. PatchSize - 1 /\ j = x * PatchSize + s
      BY <1>1, <2>1, <2>4, Remainder
    <3> QED BY <1>1, <3>1
  <2>6. x < a + Pool
    <3>1. x * PatchSize < (a + Pool) * PatchSize
      <4>1. (a + Pool) * PatchSize \in Nat
        BY <1>1, <2>3
      <4> QED BY <2>4, <2>5, <4>1
    <3>2. a + Pool \in Int
      BY <1>1, <2>3
    <3> QED BY <1>1, <2>5, <3>1, <3>2, Cancel
  <2>7. a < x + 1
    <3>1. (x + 1) * PatchSize = x * PatchSize + PatchSize
      BY <1>1, <2>5
    <3>2. a * PatchSize < (x + 1) * PatchSize
      BY <1>1, <2>3, <2>4, <2>5, <3>1
    <3>3. x + 1 \in Int
      BY <2>5
    <3> QED BY <1>1, <2>3, <3>2, <3>3, Cancel
  <2>8. PICK u : u = x - a
    OBVIOUS
  <2>9. u \in 0 .. Pool - 1 /\ x = part * Pool + u
    BY <1>1, <2>1, <2>3, <2>5, <2>6, <2>7, <2>8
  <2>10. part * Pool + u \in 0 .. parts * Pool - 1 /\ (part * Pool + u) \div Pool = part
    BY <1>1, <2>9, PartIs
  <2>11. j \in x * PatchSize .. (x + 1) * PatchSize - 1
    <3>1. (x + 1) * PatchSize = x * PatchSize + PatchSize
      BY <1>1, <2>5
    <3> QED BY <1>1, <2>5, <3>1
  <2> QED BY <2>9, <2>10, <2>11
<1>9. ASSUME NEW c \in ShareOf(w, tw, r) PROVE \E i \in PatchesOf(patches, tw, th, b) : c \in patches[i].cols
  <2>1. PICK j \in r * Side .. (r + 1) * Side - 1 : c \in AxisSources(w, tw * Side)[j]
    BY <1>1, <1>4, ShareReached DEF ShareOf
  <2>2. PICK x \in 0 .. tw * Pool - 1 : x \div Pool = r /\ j \in x * PatchSize .. (x + 1) * PatchSize - 1
    BY <1>1, <1>4, <1>8
  <2>3. c \in Below(AxisSources(w, tw * Side), x)
    BY <2>1, <2>2 DEF Below
  <2>4. q * Pool + 0 \in 0 .. th * Pool - 1 /\ (q * Pool + 0) \div Pool = q
    <3>1. 0 \in 0 .. Pool - 1
      BY <1>1
    <3> QED BY <1>1, <1>4, <3>1, PartIs
  <2>5. PICK y : y = q * Pool + 0
    OBVIOUS
  <2>6. x \in 0 .. pw - 1 /\ y \in 0 .. ph - 1 /\ x \div Pool = r /\ y \div Pool = q
    BY <1>5, <2>2, <2>4, <2>5
  <2>7. PICK i \in PatchesOf(patches, tw, th, b) : patches[i].cols = Below(AxisSources(w, tw * Side), x)
    BY <1>7, <2>6
  <2> QED BY <2>3, <2>7
<1>10. ASSUME NEW c \in ShareOf(h, th, q) PROVE \E i \in PatchesOf(patches, tw, th, b) : c \in patches[i].rows
  <2>1. PICK j \in q * Side .. (q + 1) * Side - 1 : c \in AxisSources(h, th * Side)[j]
    BY <1>1, <1>4, ShareReached DEF ShareOf
  <2>2. PICK y \in 0 .. th * Pool - 1 : y \div Pool = q /\ j \in y * PatchSize .. (y + 1) * PatchSize - 1
    BY <1>1, <1>4, <1>8
  <2>3. c \in Below(AxisSources(h, th * Side), y)
    BY <2>1, <2>2 DEF Below
  <2>4. r * Pool + 0 \in 0 .. tw * Pool - 1 /\ (r * Pool + 0) \div Pool = r
    <3>1. 0 \in 0 .. Pool - 1
      BY <1>1
    <3> QED BY <1>1, <1>4, <3>1, PartIs
  <2>5. PICK x : x = r * Pool + 0
    OBVIOUS
  <2>6. x \in 0 .. pw - 1 /\ y \in 0 .. ph - 1 /\ x \div Pool = r /\ y \div Pool = q
    BY <1>5, <2>2, <2>4, <2>5
  <2>7. PICK i \in PatchesOf(patches, tw, th, b) : patches[i].rows = Below(AxisSources(h, th * Side), y)
    BY <1>7, <2>6
  <2> QED BY <2>3, <2>7
<1> QED BY <1>2, <1>3, <1>9, <1>10

-------------------------------------------------------------------------------
(* Tokens, and the rows that they take.                                    *)

LEMMA EndAdded ==
  ASSUME NEW V, NEW n \in Nat, NEW s \in Seq(V), Len(s) = n + 1, NEW e \in Seq(V), Len(e) = 1
  PROVE  /\ s \o e \in Seq(V) /\ Len(s \o e) = n + 2
         /\ \A i \in 1 .. n + 2 : (s \o e)[i] = IF i <= n + 1 THEN s[i] ELSE e[i - (n + 1)]
<1>1. PICK t : t = s \o e
  OBVIOUS
<1>2. PICK m : m = Len(t)
  OBVIOUS
<1>3. t \in Seq(V) /\ m = Len(s) + Len(e) /\ \A i \in 1 .. m : t[i] = IF i <= Len(s) THEN s[i] ELSE e[i - Len(s)]
  <2>1. /\ s \o e \in Seq(V)
        /\ Len(s \o e) = Len(s) + Len(e)
        /\ \A i \in 1 .. Len(s) + Len(e) : (s \o e)[i] = IF i <= Len(s) THEN s[i] ELSE e[i - Len(s)]
    BY ONLY s \in Seq(V), e \in Seq(V), ConcatProperties
  <2>2. m = Len(s) + Len(e)
    BY <1>1, <1>2, <2>1
  <2> QED BY ONLY <1>1, <2>1, <2>2
<1>4. m = n + 2
  BY <1>3
<1>5. \A i \in 1 .. n + 2 : t[i] = IF i <= n + 1 THEN s[i] ELSE e[i - (n + 1)]
  BY <1>3, <1>4
<1> QED BY <1>1, <1>2, <1>3, <1>4, <1>5

LEMMA StartAdded ==
  ASSUME NEW V, NEW n \in Nat, NEW s \in Seq(V), Len(s) = 1, NEW e \in Seq(V), Len(e) = n
  PROVE  /\ s \o e \in Seq(V) /\ Len(s \o e) = n + 1
         /\ \A i \in 1 .. n + 1 : (s \o e)[i] = IF i <= 1 THEN s[i] ELSE e[i - 1]
<1>1. PICK t : t = s \o e
  OBVIOUS
<1>2. PICK m : m = Len(t)
  OBVIOUS
<1>3. t \in Seq(V) /\ m = Len(s) + Len(e) /\ \A i \in 1 .. m : t[i] = IF i <= Len(s) THEN s[i] ELSE e[i - Len(s)]
  <2>1. /\ s \o e \in Seq(V)
        /\ Len(s \o e) = Len(s) + Len(e)
        /\ \A i \in 1 .. Len(s) + Len(e) : (s \o e)[i] = IF i <= Len(s) THEN s[i] ELSE e[i - Len(s)]
    BY ONLY s \in Seq(V), e \in Seq(V), ConcatProperties
  <2>2. m = Len(s) + Len(e)
    BY <1>1, <1>2, <2>1
  <2> QED BY ONLY <1>1, <2>1, <2>2
<1>4. m = n + 1
  BY <1>3
<1>5. \A i \in 1 .. n + 1 : t[i] = IF i <= 1 THEN s[i] ELSE e[i - 1]
  BY <1>3, <1>4
<1> QED BY <1>1, <1>2, <1>3, <1>4, <1>5

LEMMA WordsAre ==
  ASSUME NEW n \in Nat
  PROVE  Len(Words(n)) = n + 2 /\ Placeholders(Words(n)) = {}
<1>1. PICK w : w = [i \in 1 .. n |-> "word"]
  OBVIOUS
<1>2. w \in Seq(Token) /\ Len(w) = n
  <2>1. w \in [1 .. n -> Token]
    BY <1>1 DEF Token
  <2> QED BY <2>1, FunctionSeq
<1>3. PICK b, e : b = <<"bos">> /\ e = <<"eos">>
  OBVIOUS
<1>4. b \in Seq(Token) /\ e \in Seq(Token) /\ Len(b) = 1 /\ Len(e) = 1 /\ b[1] = "bos" /\ e[1] = "eos"
  BY <1>3 DEF Token
<1>5. PICK bw : bw = b \o w
  OBVIOUS
<1>6. bw \in Seq(Token) /\ Len(bw) = n + 1 /\ \A i \in 1 .. n + 1 : bw[i] = IF i <= 1 THEN b[i] ELSE w[i - 1]
  BY <1>2, <1>4, <1>5, ConcatProperties
<1>7. PICK s : s = bw \o e
  OBVIOUS
<1>8. Len(s) = n + 2 /\ s \in Seq(Token) /\ \A i \in 1 .. n + 2 : s[i] = IF i <= n + 1 THEN bw[i] ELSE e[i - (n + 1)]
  BY <1>4, <1>6, <1>7, EndAdded
<1>9. ASSUME NEW i \in 1 .. n + 2 PROVE s[i] # "soft"
  <2>1. CASE i = 1
    BY <1>4, <1>6, <1>8, <2>1
  <2>2. CASE i \in 2 .. n + 1
    <3>1. s[i] = w[i - 1] /\ i - 1 \in 1 .. n
      BY <1>6, <1>8, <2>2
    <3> QED BY <1>1, <3>1
  <2>3. CASE i = n + 2
    <3>1. s[i] = e[1]
      BY <1>8, <2>3
    <3> QED BY <1>4, <3>1
  <2> QED BY <2>1, <2>2, <2>3
<1>10. Words(n) = s
  BY <1>1, <1>3, <1>5, <1>7 DEF Words
<1>11. DOMAIN s = 1 .. n + 2
  BY <1>8, LenProperties
<1> QED BY <1>8, <1>9, <1>10, <1>11 DEF Placeholders

(* The tokens of one picture.                                              *)
LEMMA ShotTokens ==
  ASSUME NEW count \in Nat
  PROVE  LET b == <<"start">> \o [i \in 1 .. count |-> "soft"] \o <<"end">>
         IN b \in [1 .. count + 2 -> Token] /\ \A k \in 1 .. count + 2 : b[k] = "soft" <=> k \in 2 .. count + 1
<1>1. PICK w : w = [i \in 1 .. count |-> "soft"]
  OBVIOUS
<1>2. w \in Seq(Token) /\ Len(w) = count
  <2>1. w \in [1 .. count -> Token]
    BY <1>1 DEF Token
  <2> QED BY <2>1, FunctionSeq
<1>3. PICK b, e : b = <<"start">> /\ e = <<"end">>
  OBVIOUS
<1>4. b \in Seq(Token) /\ e \in Seq(Token) /\ Len(b) = 1 /\ Len(e) = 1 /\ b[1] = "start" /\ e[1] = "end"
  BY <1>3 DEF Token
<1>5. PICK bw : bw = b \o w
  OBVIOUS
<1>6. bw \in Seq(Token) /\ Len(bw) = count + 1 /\ \A i \in 1 .. count + 1 : bw[i] = IF i <= 1 THEN b[i] ELSE w[i - 1]
  BY <1>2, <1>4, <1>5, ConcatProperties
<1>7. PICK s : s = bw \o e
  OBVIOUS
<1>8. Len(s) = count + 2 /\ s \in Seq(Token) /\ \A i \in 1 .. count + 2 : s[i] = IF i <= count + 1 THEN bw[i] ELSE e[i - (count + 1)]
  BY <1>4, <1>6, <1>7, EndAdded
<1>9. ASSUME NEW i \in 1 .. count + 2 PROVE s[i] = "soft" <=> i \in 2 .. count + 1
  <2>1. CASE i = 1
    BY <1>4, <1>6, <1>8, <2>1
  <2>2. CASE i \in 2 .. count + 1
    <3>1. s[i] = w[i - 1] /\ i - 1 \in 1 .. count
      BY <1>6, <1>8, <2>2
    <3> QED BY <1>1, <2>2, <3>1
  <2>3. CASE i = count + 2
    <3>1. s[i] = e[1]
      BY <1>8, <2>3
    <3> QED BY <1>4, <2>3, <3>1
  <2> QED BY <2>1, <2>2, <2>3
<1>10. s \in [1 .. count + 2 -> Token]
  <2>1. DOMAIN s = 1 .. count + 2
    BY <1>8, LenProperties
  <2> QED BY <1>8, <2>1, LenProperties, ElementOfSeq
<1> QED BY <1>1, <1>3, <1>5, <1>7, <1>9, <1>10

LEMMA MediaIdsAre ==
  ASSUME NEW count \in Nat, NEW times \in Nat \ {0}
  PROVE  /\ Len(MediaIds(count, times)) = times * (count + 2) + 2
         /\ Cardinality(Placeholders(MediaIds(count, times))) = times * count
<1>1. PICK b : b = <<"start">> \o [i \in 1 .. count |-> "soft"] \o <<"end">>
  OBVIOUS
<1>2. PICK w : w = count + 2
  OBVIOUS
<1>3. w \in Nat /\ b \in [1 .. w -> Token] /\ \A k \in 1 .. w : b[k] = "soft" <=> k \in 2 .. count + 1
  BY <1>1, <1>2, ShotTokens
<1>4. PICK seqs, F : seqs = [f \in 1 .. times |-> b] /\ F = FlattenSeq(seqs)
  OBVIOUS
<1>5. seqs \in [1 .. times -> [1 .. w -> Token]]
  BY <1>3, <1>4
<1>6. F \in Seq(Token) /\ Laid(F, seqs, times, w)
  BY <1>3, <1>4, <1>5, FlattenBlocks
<1>7. PICK L : L = times * w
  OBVIOUS
<1>8. L \in Nat
  BY <1>3, <1>7
<1>9. Len(F) = L /\ \A r \in 1 .. times, k \in 1 .. w : F[(r - 1) * w + k] = b[k]
  BY <1>4, <1>6, <1>7 DEF Laid
<1>10. PICK st, en : st = <<"bos">> /\ en = <<"eos">>
  OBVIOUS
<1>11. st \in Seq(Token) /\ en \in Seq(Token) /\ Len(st) = 1 /\ Len(en) = 1 /\ st[1] = "bos" /\ en[1] = "eos"
  BY <1>10 DEF Token
<1>12. PICK sf : sf = st \o F
  OBVIOUS
<1>13. sf \in Seq(Token) /\ Len(sf) = L + 1 /\ \A i \in 1 .. L + 1 : sf[i] = IF i <= 1 THEN st[i] ELSE F[i - 1]
  BY <1>6, <1>8, <1>9, <1>11, <1>12, StartAdded
<1>14. PICK s : s = sf \o en
  OBVIOUS
<1>15. Len(s) = L + 2 /\ s \in Seq(Token) /\ \A i \in 1 .. L + 2 : s[i] = IF i <= L + 1 THEN sf[i] ELSE en[i - (L + 1)]
  BY <1>8, <1>11, <1>13, <1>14, EndAdded
<1>16. DOMAIN s = 1 .. L + 2
  BY <1>15, LenProperties
<1>17. s = MediaIds(count, times)
  BY <1>1, <1>4, <1>10, <1>12, <1>14 DEF MediaIds
<1>18. ASSUME NEW i \in 1 .. L PROVE s[i + 1] = F[i]
  BY <1>8, <1>13, <1>15
<1>19. s[1] # "soft" /\ s[L + 2] # "soft"
  <2>1. s[1] = "bos"
    BY <1>8, <1>11, <1>13, <1>15
  <2>2. s[L + 2] = en[1]
    BY <1>8, <1>15
  <2> QED BY <1>11, <2>1, <2>2
<1> DEFINE place(r, k) == (r - 1) * w + (k + 1) + 1
<1>20. PICK P : P = Placeholders(s)
  OBVIOUS
<1>21. ASSUME NEW r \in 1 .. times, NEW k \in 1 .. count PROVE place(r, k) \in P
  <2>1. PICK i : i = (r - 1) * w + (k + 1)
    OBVIOUS
  <2>2. k + 1 \in 1 .. w
    BY <1>2
  <2>3. i \in 1 .. L
    <3>1. PICK m : m = k + 1
      OBVIOUS
    <3>2. m \in 1 .. w /\ times \in Nat
      BY <2>2, <3>1
    <3>3. (r - 1) * w + m \in 1 .. times * w
      BY <1>3, <3>2, PlaceBelow
    <3> QED BY <1>7, <2>1, <3>1, <3>3
  <2>4. F[i] = "soft"
    <3>1. PICK m : m = k + 1
      OBVIOUS
    <3>2. m \in 1 .. w /\ m \in 2 .. count + 1
      BY <2>2, <3>1
    <3>3. b[m] = "soft"
      BY <1>3, <3>2
    <3>4. F[(r - 1) * w + m] = b[m]
      BY <1>9, <3>2
    <3> QED BY <2>1, <3>1, <3>3, <3>4
  <2>5. s[i + 1] = "soft" /\ i + 1 \in 1 .. L + 2
    BY <1>8, <1>18, <2>3, <2>4
  <2> QED BY <1>16, <1>20, <2>1, <2>5 DEF Placeholders
<1>22. ASSUME NEW p \in P PROVE \E r \in 1 .. times, k \in 1 .. count : p = place(r, k)
  <2>1. p \in 1 .. L + 2 /\ s[p] = "soft"
    BY <1>16, <1>20 DEF Placeholders
  <2>2. PICK i : i = p - 1
    OBVIOUS
  <2>3. i \in 1 .. L /\ F[i] = "soft" /\ p = i + 1
    <3>1. i \in 1 .. L /\ p = i + 1
      BY <1>8, <1>19, <2>1, <2>2
    <3> QED BY <1>18, <2>1, <3>1
  <2>4. PICK r \in Nat \ {0}, c \in 1 .. w : i = (r - 1) * w + c
    <3>1. i \in Nat \ {0} /\ w \in Nat \ {0}
      BY <1>2, <1>3, <1>8, <2>3
    <3> QED BY <3>1, PlaceExists
  <2>5. r <= times
    <3>1. CASE r > times
      <4>1. (r - 1) * w >= times * w
        BY <1>3, <3>1
      <4>2. (r - 1) * w \in Int
        BY <1>3
      <4> QED BY <1>7, <1>8, <2>3, <2>4, <4>1, <4>2
    <3> QED BY <3>1
  <2>6. r \in 1 .. times
    BY <2>5
  <2>7. b[c] = "soft"
    BY <1>9, <2>3, <2>4, <2>6
  <2>8. c \in 2 .. count + 1
    BY <1>3, <2>7
  <2>9. c - 1 \in 1 .. count /\ (c - 1) + 1 = c
    BY <2>8
  <2>10. p = place(r, c - 1)
    BY <2>3, <2>4, <2>9
  <2> QED BY <2>6, <2>9, <2>10
<1>23. PICK A : A = (1 .. times) \X (1 .. count)
  OBVIOUS
<1>24. PICK g : g = [z \in A |-> place(z[1], z[2])]
  OBVIOUS
<1>25. g \in Bijection(A, P)
  <2>1. \A r \in 1 .. times, k \in 1 .. count : <<r, k>> \in A /\ g[<<r, k>>] = place(r, k)
    BY <1>23, <1>24
  <2>2. \A z \in A : \E r \in 1 .. times, k \in 1 .. count : z = <<r, k>>
    BY <1>23
  <2>3. g \in [A -> P]
    <3> HIDE DEF place
    <3> QED BY <1>21, <1>23, <1>24
  <2>4. ASSUME NEW y \in A, NEW z \in A, g[y] = g[z] PROVE y = z
    <3>1. PICK r \in 1 .. times, k \in 1 .. count : y = <<r, k>>
      BY <2>2
    <3>2. PICK q \in 1 .. times, l \in 1 .. count : z = <<q, l>>
      BY <2>2
    <3>3. place(r, k) = place(q, l)
      <4> HIDE DEF place
      <4> QED BY <2>1, <2>4, <3>1, <3>2
    <3>4. PICK m, n : m = k + 1 /\ n = l + 1
      OBVIOUS
    <3>5. (r - 1) * w + m = (q - 1) * w + n
      <4>1. (r - 1) * w \in Int /\ (q - 1) * w \in Int
        BY <1>3
      <4> QED BY <3>3, <3>4, <4>1
    <3>6. m \in 1 .. w /\ n \in 1 .. w /\ r \in Int /\ q \in Int
      BY <1>2, <3>4
    <3>7. r = q /\ m = n
      BY <1>3, <3>5, <3>6, PlaceUnique
    <3> QED BY <3>1, <3>2, <3>4, <3>7
  <2>5. ASSUME NEW p \in P PROVE \E z \in A : g[z] = p
    <3> HIDE DEF place
    <3>1. PICK r \in 1 .. times, k \in 1 .. count : p = place(r, k)
      BY <1>22
    <3>2. <<r, k>> \in A /\ g[<<r, k>>] = p
      BY <2>1, <3>1
    <3> QED BY <3>2
  <2> QED BY <2>3, <2>4, <2>5 DEF Bijection, Injection, Surjection, IsInjective
<1>26. IsFiniteSet(A) /\ Cardinality(A) = times * count
  <2>1. IsFiniteSet(1 .. times) /\ Cardinality(1 .. times) = times
    BY FS_Interval
  <2>2. IsFiniteSet(1 .. count) /\ Cardinality(1 .. count) = count
    BY FS_Interval
  <2> QED BY <1>23, <2>1, <2>2, FS_Product, ZenonT(40)
<1>27. ExistsBijection(A, P)
  BY <1>25 DEF ExistsBijection
<1>28. Cardinality(P) = times * count
  BY <1>26, <1>27, FS_Bijection
<1> QED BY <1>2, <1>7, <1>15, <1>17, <1>20, <1>28

-------------------------------------------------------------------------------
(* The r-th of a set, and the frames that a decoder selects.               *)

Rank(S, x) == Cardinality({t \in S : t < x}) + 1

LEMMA RanksApart ==
  ASSUME NEW S \in SUBSET Int, IsFiniteSet(S)
  PROVE  /\ \A x \in S : Rank(S, x) \in 1 .. Cardinality(S)
         /\ \A x, y \in S : x < y => Rank(S, x) < Rank(S, y)
<1>1. Cardinality(S) \in Nat
  BY FS_CardinalityType
<1>2. ASSUME NEW x \in S
      PROVE  LET B == {t \in S : t < x} IN IsFiniteSet(B) /\ Cardinality(B) \in Nat /\ Cardinality(B) < Cardinality(S)
  <2>1. PICK B : B = {t \in S : t < x}
    OBVIOUS
  <2>2. B \in SUBSET S /\ x \notin B
    BY <2>1
  <2>3. IsFiniteSet(B) /\ Cardinality(B) <= Cardinality(S) /\ (Cardinality(B) = Cardinality(S) => S = B)
    BY <2>2, FS_Subset
  <2>4. Cardinality(B) \in Nat
    BY <2>3, FS_CardinalityType
  <2>5. Cardinality(B) # Cardinality(S)
    BY <2>2, <2>3
  <2> QED BY <1>1, <2>1, <2>3, <2>4, <2>5
<1>3. ASSUME NEW x \in S PROVE Rank(S, x) \in 1 .. Cardinality(S)
  BY <1>1, <1>2 DEF Rank
<1>4. ASSUME NEW x \in S, NEW y \in S, x < y PROVE Rank(S, x) < Rank(S, y)
  <2>1. PICK B, C : B = {t \in S : t < x} /\ C = {t \in S : t < y}
    OBVIOUS
  <2>2. B \in SUBSET C /\ x \in C /\ x \notin B
    <3>1. x \in Int /\ y \in Int
      OBVIOUS
    <3>2. ASSUME NEW t \in B PROVE t \in C
      <4>1. t \in S /\ t \in Int /\ t < x
        BY <2>1
      <4>2. t < y
        BY <1>4, <3>1, <4>1
      <4> QED BY <2>1, <4>1, <4>2
    <3>3. x \in C /\ x \notin B
      BY <1>4, <2>1, <3>1
    <3> QED BY <3>2, <3>3
  <2>3. IsFiniteSet(C) /\ Cardinality(C) \in Nat
    BY <1>2, <2>1
  <2>4. Cardinality(B) <= Cardinality(C) /\ (Cardinality(B) = Cardinality(C) => C = B)
    BY <2>2, <2>3, FS_Subset
  <2>5. Cardinality(B) \in Nat
    BY <1>2, <2>1
  <2>6. Cardinality(B) < Cardinality(C)
    BY <2>2, <2>3, <2>4, <2>5
  <2> QED BY <2>1, <2>3, <2>5, <2>6 DEF Rank
<1> QED BY <1>3, <1>4

LEMMA NthIs ==
  ASSUME NEW S \in SUBSET Int, IsFiniteSet(S)
  PROVE  /\ \A r \in 1 .. Cardinality(S) : Nth(S, r) \in S /\ Rank(S, Nth(S, r)) = r
         /\ \A x \in S : Nth(S, Rank(S, x)) = x
<1>1. Cardinality(S) \in Nat
  BY FS_CardinalityType
<1>2. PICK f : f = [x \in S |-> Rank(S, x)]
  OBVIOUS
<1>3. \A x, y \in S : Rank(S, x) = Rank(S, y) => x = y
  <2>1. ASSUME NEW x \in S, NEW y \in S, Rank(S, x) = Rank(S, y) PROVE x = y
    <3>1. Rank(S, x) \in Int /\ Rank(S, y) \in Int /\ x \in Int /\ y \in Int
      BY <1>1, RanksApart
    <3>2. ~(x < y) /\ ~(y < x)
      BY <2>1, <3>1, RanksApart
    <3> QED BY <3>1, <3>2
  <2> QED BY <2>1
<1>4. f \in Injection(S, 1 .. Cardinality(S))
  <2>1. f \in [S -> 1 .. Cardinality(S)]
    BY <1>2, RanksApart
  <2>2. \A x, y \in S : f[x] = f[y] => x = y
    BY <1>2, <1>3
  <2> QED BY <2>1, <2>2 DEF Injection, IsInjective
<1>5. IsFiniteSet(1 .. Cardinality(S)) /\ Cardinality(1 .. Cardinality(S)) = Cardinality(S)
  BY ONLY <1>1, FS_Interval
<1>6. f \in Surjection(S, 1 .. Cardinality(S))
  BY <1>4, <1>5, FS_Injection
<1>7. \A r \in 1 .. Cardinality(S) : \E x \in S : Rank(S, x) = r
  BY <1>2, <1>6 DEF Surjection
<1>8. ASSUME NEW r \in 1 .. Cardinality(S) PROVE Nth(S, r) \in S /\ Rank(S, Nth(S, r)) = r
  <2>1. \A x \in S : Rank(S, x) = r <=> Cardinality({t \in S : t < x}) = r - 1
    <3>1. ASSUME NEW x \in S PROVE Rank(S, x) = r <=> Cardinality({t \in S : t < x}) = r - 1
      <4>1. PICK B : B = {t \in S : t < x}
        OBVIOUS
      <4>2. Cardinality(B) \in Nat
        <5>1. IsFiniteSet(B)
          BY <4>1, FS_Subset
        <5> QED BY <5>1, FS_CardinalityType
      <4> QED BY <4>1, <4>2 DEF Rank
    <3> QED BY <3>1
  <2>2. \E x \in S : Cardinality({t \in S : t < x}) = r - 1
    BY <1>7, <2>1
  <2> QED BY <2>1, <2>2 DEF Nth
<1>9. ASSUME NEW x \in S PROVE Nth(S, Rank(S, x)) = x
  <2>1. Rank(S, x) \in 1 .. Cardinality(S)
    BY RanksApart
  <2> QED BY <1>3, <1>8, <2>1
<1> QED BY <1>8, <1>9

(* Frames in order, each of which may be taken more than once.             *)
InOrder(s, n) ==
  /\ n \in Nat /\ s \in [1 .. n -> Nat]
  /\ \A i, j \in 1 .. n : i <= j => s[i] <= s[j]

LEMMA SelectedFramesAre ==
  ASSUME NEW s, NEW n, InOrder(s, n)
  PROVE  SelectedFrames(s) = s
<1>1. PICK starts : starts = {i \in DOMAIN s : i = 1 \/ s[i] # s[i - 1]}
  OBVIOUS
<1>2. n \in Nat /\ s \in [1 .. n -> Nat] /\ DOMAIN s = 1 .. n
  BY DEF InOrder
<1>3. starts \in SUBSET (1 .. n) /\ starts \in SUBSET Int /\ IsFiniteSet(starts)
  <2>1. starts \in SUBSET (1 .. n)
    BY <1>1, <1>2
  <2>2. IsFiniteSet(1 .. n)
    <3>1. n \in Nat
      BY <1>2
    <3> QED BY ONLY <3>1, FS_Interval
  <2>3. IsFiniteSet(starts)
    BY ONLY <2>1, <2>2, FS_Subset
  <2> QED BY <2>1, <2>3
<1>4. PICK k : k = Cardinality(starts)
  OBVIOUS
<1>5. k \in Nat
  BY <1>3, <1>4, FS_CardinalityType
<1>6. \A j \in 1 .. k : Nth(starts, j) \in starts /\ Rank(starts, Nth(starts, j)) = j
  BY <1>3, <1>4, NthIs
<1>7. PICK d : d = [j \in 1 .. k |-> s[Nth(starts, j)]]
  OBVIOUS
<1>8. ASSUME NEW j \in 1 .. k, NEW l \in 1 .. k, j < l PROVE d[j] < d[l]
  <2>1. PICK a, b : a = Nth(starts, j) /\ b = Nth(starts, l)
    OBVIOUS
  <2>2. a \in starts /\ b \in starts /\ Rank(starts, a) = j /\ Rank(starts, b) = l
    BY <1>6, <2>1
  <2>3. a \in 1 .. n /\ b \in 1 .. n
    BY <1>3, <2>2
  <2>4. a < b
    <3>1. ~(b < a)
      BY <1>3, <1>8, <2>2, RanksApart
    <3>2. a # b
      BY <1>8, <2>2
    <3> QED BY <2>3, <3>1, <3>2
  <2>5. b # 1 /\ b - 1 \in 1 .. n /\ a <= b - 1
    BY <1>2, <2>3, <2>4
  <2>6. s[b] # s[b - 1]
    BY <1>1, <2>2, <2>5
  <2>7. s[a] <= s[b - 1] /\ s[b - 1] <= s[b]
    BY <2>3, <2>5 DEF InOrder
  <2>8. s[a] \in Nat /\ s[b - 1] \in Nat /\ s[b] \in Nat
    BY <1>2, <2>3, <2>5
  <2>9. d[j] = s[a] /\ d[l] = s[b]
    BY <1>7, <2>1
  <2> QED BY <2>6, <2>7, <2>8, <2>9
<1>9. ASSUME NEW i \in 1 .. n PROVE \E j \in 1 .. k : d[j] = s[i]
  <2>1. PICK T : T = {a \in 1 .. n : s[a] = s[i]}
    OBVIOUS
  <2>2. T \in SUBSET Nat /\ T # {}
    BY <1>2, <2>1
  <2>3. PICK a : a = Min(T)
    OBVIOUS
  <2>4. a \in T /\ \A b \in T : a <= b
    BY <2>2, <2>3, MinIn
  <2>5. a \in 1 .. n /\ s[a] = s[i]
    BY <2>1, <2>4
  <2>6. a \in starts
    <3>1. CASE a = 1
      BY <1>1, <1>2, <2>5, <3>1
    <3>2. CASE a # 1
      <4>1. a - 1 \in 1 .. n /\ ~(a <= a - 1)
        BY <1>2, <2>5, <3>2
      <4>2. a - 1 \notin T
        BY <2>4, <4>1
      <4>3. s[a - 1] # s[a]
        BY <2>1, <2>5, <4>1, <4>2
      <4> QED BY <1>1, <1>2, <2>5, <4>3
    <3> QED BY <3>1, <3>2
  <2>7. PICK j : j = Rank(starts, a)
    OBVIOUS
  <2>8. j \in 1 .. k /\ Nth(starts, j) = a
    BY <1>3, <1>4, <2>6, <2>7, RanksApart, NthIs
  <2>9. d[j] = s[i]
    BY <1>7, <2>5, <2>8
  <2> QED BY <2>8, <2>9
<1>10. PICK V : V = ToSet(d)
  OBVIOUS
<1>11. V = {d[j] : j \in 1 .. k} /\ \A j \in 1 .. k : d[j] \in Nat
  <2>1. DOMAIN d = 1 .. k
    BY <1>7
  <2>2. ASSUME NEW j \in 1 .. k PROVE d[j] \in Nat
    BY <1>2, <1>3, <1>6, <1>7
  <2> QED BY <1>10, <2>1, <2>2 DEF ToSet
<1>12. ASSUME NEW j \in 1 .. k PROVE IsFiniteSet(V) /\ Rank(V, d[j]) = j
  <2>1. ASSUME NEW m \in 0 .. k
        PROVE  LET D == {d[i] : i \in 1 .. m} IN IsFiniteSet(D) /\ Cardinality(D) = m
    <3>1. PICK D : D = {d[i] : i \in 1 .. m}
      OBVIOUS
    <3>2. PICK g : g = [i \in 1 .. m |-> d[i]]
      OBVIOUS
    <3>3. \A i, l \in 1 .. m : d[i] = d[l] => i = l
      <4>1. ASSUME NEW i \in 1 .. m, NEW l \in 1 .. m, d[i] = d[l] PROVE i = l
        <5>1. i \in 1 .. k /\ l \in 1 .. k
          BY <1>5
        <5>2. ~(i < l) /\ ~(l < i)
          BY <1>8, <1>11, <4>1, <5>1
        <5> QED BY <5>1, <5>2
      <4> QED BY <4>1
    <3>4. g \in Bijection(1 .. m, D)
      <4>1. g \in [1 .. m -> D]
        BY <3>1, <3>2
      <4>2. \A i, l \in 1 .. m : g[i] = g[l] => i = l
        BY <3>2, <3>3
      <4>3. \A y \in D : \E i \in 1 .. m : g[i] = y
        BY <3>1, <3>2
      <4> QED BY <4>1, <4>2, <4>3 DEF Bijection, Injection, Surjection, IsInjective
    <3>5. IsFiniteSet(1 .. m) /\ Cardinality(1 .. m) = m
      <4>1. m \in Nat
        BY <1>5
      <4> QED BY ONLY <4>1, FS_Interval
    <3>6. ExistsBijection(1 .. m, D)
      BY <3>4 DEF ExistsBijection
    <3> QED BY <3>1, <3>5, <3>6, FS_Bijection
  <2>2. IsFiniteSet(V)
    <3>1. k \in 0 .. k
      BY <1>5
    <3> QED BY <1>11, <2>1, <3>1
  <2>3. PICK m : m = j - 1
    OBVIOUS
  <2>4. m \in 0 .. k /\ m \in Nat
    BY <1>5, <2>3
  <2>5. {t \in V : t < d[j]} = {d[i] : i \in 1 .. m}
    <3>1. ASSUME NEW i \in 1 .. k PROVE d[i] < d[j] <=> i \in 1 .. m
      <4>1. CASE i < j
        BY <1>8, <2>3, <4>1
      <4>2. CASE i = j
        BY <1>11, <2>3, <4>2
      <4>3. CASE j < i
        <5>1. d[j] < d[i]
          BY <1>8, <4>3
        <5> QED BY <1>11, <2>3, <4>3, <5>1
      <4> QED BY <4>1, <4>2, <4>3
    <3>2. 1 .. m \subseteq 1 .. k
      BY <1>5, <2>4
    <3>3. V = {d[i] : i \in 1 .. k}
      BY <1>11
    <3> QED BY ONLY <3>1, <3>2, <3>3
  <2>6. Cardinality({d[i] : i \in 1 .. m}) = m
    BY <2>1, <2>4
  <2>7. Rank(V, d[j]) = Cardinality({t \in V : t < d[j]}) + 1
    BY DEF Rank
  <2>8. Rank(V, d[j]) = m + 1
    BY <2>5, <2>6, <2>7
  <2> QED BY <2>2, <2>3, <2>4, <2>8
<1>13. ASSUME NEW i \in 1 .. n
       PROVE  Nth(ToSet(d), CHOOSE j \in DOMAIN d : d[j] = s[i]) = s[i]
  <2>1. PICK l : l = CHOOSE j \in 1 .. k : d[j] = s[i]
    OBVIOUS
  <2>2. l \in 1 .. k /\ d[l] = s[i]
    BY <1>9, <2>1
  <2>3. V \in SUBSET Int /\ d[l] \in V
    BY <1>11, <2>2
  <2>4. IsFiniteSet(V) /\ Rank(V, d[l]) = l
    BY <1>12, <2>2
  <2>5. Nth(V, l) = d[l]
    BY <2>3, <2>4, NthIs
  <2>6. DOMAIN d = 1 .. k
    BY <1>7
  <2> QED BY <1>10, <2>1, <2>2, <2>5, <2>6
<1>14. SelectedFrames(s) = [i \in 1 .. n |-> Nth(ToSet(d), CHOOSE j \in DOMAIN d : d[j] = s[i])]
  BY <1>1, <1>2, <1>4, <1>7 DEF SelectedFrames
<1> QED BY <1>2, <1>13, <1>14

-------------------------------------------------------------------------------
(* The frames sampled.                                                     *)

(* The n-th of N is chosen from N[n], after every choice of those before.  *)
Chosen(c, N, m) ==
  c = [n \in 0 .. m |-> IF n = 0 THEN {<<>>} ELSE Appended(c[n - 1], N[n])]

Picked(Q, N, n) == \A q \in Q : q = [j \in 1 .. n |-> q[j]] /\ \A j \in 1 .. n : q[j] \in N[j]

LEMMA PickedNext ==
  ASSUME NEW n \in Nat, NEW X, NEW Q \in SUBSET Seq(X), NEW N, Picked(Q, N, n), N[n + 1] \in SUBSET X
  PROVE  /\ Appended(Q, N[n + 1]) \in SUBSET Seq(X)
         /\ Picked(Appended(Q, N[n + 1]), N, n + 1)
         /\ Q # {} /\ N[n + 1] # {} => Appended(Q, N[n + 1]) # {}
<1>1. ASSUME NEW q \in Q, NEW f \in N[n + 1]
      PROVE  /\ Append(q, f) \in Seq(X) /\ Append(q, f) = [j \in 1 .. n + 1 |-> Append(q, f)[j]]
             /\ \A j \in 1 .. n + 1 : Append(q, f)[j] \in N[j]
  <2>1. q \in Seq(X) /\ f \in X /\ DOMAIN q = 1 .. n /\ \A j \in 1 .. n : q[j] \in N[j]
    BY DEF Picked
  <2>2. Len(q) = n
    BY <2>1, LenProperties
  <2>3. PICK r : r = Append(q, f)
    OBVIOUS
  <2>4. r \in Seq(X) /\ Len(r) = n + 1 /\ r[n + 1] = f /\ \A j \in 1 .. n : r[j] = q[j]
    <3>1. /\ Append(q, f) \in Seq(X)
          /\ Len(Append(q, f)) = Len(q) + 1
          /\ \A i \in 1 .. Len(q) : Append(q, f)[i] = q[i]
          /\ Append(q, f)[Len(q) + 1] = f
      BY ONLY <2>1, AppendProperties
    <3> QED BY <2>2, <2>3, <3>1
  <2>5. r = [j \in 1 .. n + 1 |-> r[j]]
    <3>1. r \in [1 .. Len(r) -> X]
      BY <2>4, LenProperties
    <3>2. r \in [1 .. n + 1 -> X]
      BY <2>4, <3>1
    <3> QED BY <3>2
  <2>6. ASSUME NEW j \in 1 .. n + 1 PROVE r[j] \in N[j]
    <3>1. CASE j = n + 1
      BY <2>4, <3>1
    <3>2. CASE j \in 1 .. n
      BY <2>1, <2>4, <3>2
    <3> QED BY <3>1, <3>2
  <2> QED BY <2>3, <2>4, <2>5, <2>6
<1>2. PICK R : R = Appended(Q, N[n + 1])
  OBVIOUS
<1>3. ASSUME NEW r \in R PROVE \E q \in Q, f \in N[n + 1] : r = Append(q, f)
  BY <1>2 DEF Appended
<1>4. ASSUME NEW r \in R
      PROVE  r \in Seq(X) /\ r = [j \in 1 .. n + 1 |-> r[j]] /\ \A j \in 1 .. n + 1 : r[j] \in N[j]
  <2>1. PICK q \in Q, f \in N[n + 1] : r = Append(q, f)
    BY <1>3
  <2> QED BY <1>1, <2>1
<1>5. R \in SUBSET Seq(X)
  BY <1>4
<1>6. Picked(R, N, n + 1)
  BY <1>4 DEF Picked
<1>7. ASSUME Q # {}, N[n + 1] # {} PROVE R # {}
  <2>1. PICK q \in Q, f \in N[n + 1] : TRUE
    BY <1>7
  <2>2. Append(q, f) \in R
    BY <1>2 DEF Appended
  <2> QED BY <2>2
<1> QED BY <1>2, <1>5, <1>6, <1>7

LEMMA ChosenExists ==
  ASSUME NEW m \in Nat, NEW N
  PROVE  \E c : Chosen(c, N, m)
<1>1. PICK X : X = UNION {N[n] : n \in 1 .. m}
  OBVIOUS
<1>2. PICK A : A = SUBSET Seq(X)
  OBVIOUS
<1> DEFINE step == [x \in A \X Nat |-> Appended(x[1], IF x[2] \in 1 .. m THEN N[x[2]] ELSE {})]
<1>3. step \in [A \X Nat -> A]
  <2>1. ASSUME NEW x \in A \X Nat
        PROVE  Appended(x[1], IF x[2] \in 1 .. m THEN N[x[2]] ELSE {}) \in A
    <3>1. x[1] \subseteq Seq(X) /\ (IF x[2] \in 1 .. m THEN N[x[2]] ELSE {}) \subseteq X
      BY <1>1, <1>2
    <3> QED BY <1>2, <3>1, AppendedType
  <2> QED BY <2>1
<1>4. {<<>>} \in A
  BY <1>2
<1>5. PICK g : Iterates(g, A, {<<>>}, step, m)
  <2> HIDE DEF step
  <2> QED BY <1>3, <1>4, Recursion
<1>6. g \in [0 .. m -> A] /\ g[0] = {<<>>} /\ \A i \in 1 .. m : g[i] = step[<<g[i - 1], i>>]
  BY <1>5 DEF Iterates
<1>7. ASSUME NEW i \in 1 .. m PROVE g[i] = Appended(g[i - 1], N[i])
  <2>1. <<g[i - 1], i>> \in A \X Nat
    BY <1>6
  <2>2. step[<<g[i - 1], i>>] = Appended(g[i - 1], N[i])
    BY <2>1
  <2> QED BY <1>6, <2>2
<1> HIDE DEF step
<1>8. Chosen(g, N, m)
  <2>1. ASSUME NEW n \in 0 .. m PROVE g[n] = IF n = 0 THEN {<<>>} ELSE Appended(g[n - 1], N[n])
    <3>1. n = 0 \/ n \in 1 .. m
      OBVIOUS
    <3> QED BY <1>6, <1>7, <3>1
  <2>2. g = [n \in 0 .. m |-> g[n]]
    BY <1>6
  <2> QED BY <2>1, <2>2 DEF Chosen
<1> QED BY <1>8

LEMMA ChosenAre ==
  ASSUME NEW m \in Nat, NEW N, NEW c, Chosen(c, N, m)
  PROVE  /\ Picked(c[m], N, m)
         /\ (\A n \in 1 .. m : N[n] # {}) => c[m] # {}
<1>1. PICK X : X = UNION {N[n] : n \in 1 .. m}
  OBVIOUS
<1>2. c[0] = {<<>>} /\ \A n \in 1 .. m : c[n] = Appended(c[n - 1], N[n])
  <2>1. \A n \in 0 .. m : c[n] = IF n = 0 THEN {<<>>} ELSE Appended(c[n - 1], N[n])
    BY DEF Chosen
  <2> QED BY <2>1
<1> DEFINE Good(n) == c[n] \in SUBSET Seq(X) /\ Picked(c[n], N, n) /\ ((\A j \in 1 .. m : N[j] # {}) => c[n] # {})
           T == {n \in Nat : n <= m => Good(n)}
<1>3. 0 \in T
  <2>1. c[0] \in SUBSET Seq(X) /\ c[0] # {}
    BY <1>2
  <2>2. Picked(c[0], N, 0)
    BY <1>2 DEF Picked
  <2> QED BY <2>1, <2>2
<1>4. ASSUME NEW n \in T PROVE n + 1 \in T
  <2>1. CASE n + 1 <= m
    <3>1. Good(n) /\ n \in Nat /\ n + 1 \in 1 .. m
      BY <2>1
    <3>2. PICK k : k = n + 1
      OBVIOUS
    <3>3. c[k] = Appended(c[k - 1], N[k])
      BY <1>2, <3>1, <3>2
    <3>4. c[n + 1] = Appended(c[n], N[n + 1])
      BY <3>1, <3>2, <3>3
    <3>5. N[n + 1] \in SUBSET X
      BY <1>1, <3>1
    <3>6. PICK Q : Q = c[n]
      OBVIOUS
    <3>7. Q \in SUBSET Seq(X) /\ Picked(Q, N, n) /\ ((\A j \in 1 .. m : N[j] # {}) => Q # {})
      BY <3>1, <3>6
    <3>8. PICK R : R = Appended(Q, N[n + 1])
      OBVIOUS
    <3>9. R \in SUBSET Seq(X) /\ Picked(R, N, n + 1) /\ (Q # {} /\ N[n + 1] # {} => R # {})
      BY <3>1, <3>5, <3>7, <3>8, PickedNext
    <3>10. Good(n + 1)
      BY <3>1, <3>4, <3>6, <3>7, <3>8, <3>9
    <3> QED BY <3>1, <3>10
  <2> QED BY <2>1
<1>5. m \in T
  <2>1. T \in SUBSET Nat
    OBVIOUS
  <2>2. T = Nat
    <3> HIDE DEF T
    <3> QED BY <1>3, <1>4, <2>1, Induction
  <2> QED BY <2>2
<1> QED BY <1>5

SampleCount(total, num, seconds) == IF num = 0 THEN total ELSE Max({1, seconds})
SampleSize(total, num, seconds)  == Min({SampleCount(total, num, seconds), MaxSampled})

PositionsOf(count, m, i) ==
  CASE m = count -> {i}
    [] count > m /\ i + 1 = m -> {count - 1}
    [] OTHER -> Truncated(i * (count - 1), m - 1, (count - 1) % (m - 1) # 0)

FramesAt(total, num, den, p) ==
  IF num = 0 THEN {p} ELSE {Min({f, total - 1}) : f \in Truncated(p * num, den, Rounded(den))}

Offered(total, num, den, count, m) ==
  [n \in 1 .. m |-> UNION {FramesAt(total, num, den, p) : p \in PositionsOf(count, m, n - 1)}]

LEMMA SampledFramesAre ==
  ASSUME NEW total, NEW num, NEW den, NEW seconds, SampleSize(total, num, seconds) \in Nat
  PROVE  LET count == SampleCount(total, num, seconds)
             m     == SampleSize(total, num, seconds)
             S     == SampledFrames(total, num, den, seconds)
             N     == Offered(total, num, den, count, m)
         IN Picked(S, N, m) /\ ((\A n \in 1 .. m : N[n] # {}) => S # {})
<1> DEFINE count == IF num = 0 THEN total ELSE Max({1, seconds})
           m     == Min({count, MaxSampled})
           positions(i) ==
             CASE m = count -> {i}
               [] count > m /\ i + 1 = m -> {count - 1}
               [] OTHER -> Truncated(i * (count - 1), m - 1, (count - 1) % (m - 1) # 0)
           frames(p) == IF num = 0 THEN {p}
                        ELSE {Min({f, total - 1}) : f \in Truncated(p * num, den, Rounded(den))}
           next(n) == UNION {frames(p) : p \in positions(n - 1)}
           Is(c) == c = [n \in 0 .. m |->
                           IF n = 0 THEN {<<>>} ELSE Appended(c[n - 1], next(n))]
<1>1. SampledFrames(total, num, den, seconds) = (CHOOSE c : Is(c))[m]
  BY DEF SampledFrames, Appended
<1>2. PICK N : N = Offered(total, num, den, count, m)
  OBVIOUS
<1>3. count = SampleCount(total, num, seconds) /\ m = SampleSize(total, num, seconds) /\ m \in Nat
  BY DEF SampleCount, SampleSize
<1>4. ASSUME NEW n \in 1 .. m PROVE next(n) = N[n]
  BY <1>2 DEF Offered, FramesAt, PositionsOf
<1> HIDE DEF count, m, positions, frames, next
<1>5. ASSUME NEW c PROVE Is(c) <=> Chosen(c, N, m)
  <2>1. ASSUME NEW n \in 0 .. m
        PROVE  (IF n = 0 THEN {<<>>} ELSE Appended(c[n - 1], next(n)))
                 = (IF n = 0 THEN {<<>>} ELSE Appended(c[n - 1], N[n]))
    <3>1. n = 0 \/ n \in 1 .. m
      BY <1>3
    <3> QED BY <1>4, <3>1
  <2>2. [n \in 0 .. m |-> IF n = 0 THEN {<<>>} ELSE Appended(c[n - 1], next(n))]
          = [n \in 0 .. m |-> IF n = 0 THEN {<<>>} ELSE Appended(c[n - 1], N[n])]
    BY <2>1
  <2> QED BY <2>2 DEF Chosen
<1> HIDE DEF Is
<1>6. PICK c : c = CHOOSE f : Is(f)
  OBVIOUS
<1>7. Chosen(c, N, m)
  <2>1. \E f : Is(f)
    BY <1>3, <1>5, ChosenExists
  <2> QED BY <1>5, <1>6, <2>1
<1>8. Picked(c[m], N, m) /\ ((\A n \in 1 .. m : N[n] # {}) => c[m] # {})
  BY <1>3, <1>7, ChosenAre
<1> QED BY <1>1, <1>2, <1>3, <1>6, <1>8

(* Rounding takes at most one from a quotient.                             *)
LEMMA TruncatedIs ==
  ASSUME NEW a \in Nat, NEW b \in Nat \ {0}, NEW rounded
  PROVE  /\ Truncated(a, b, rounded) # {}
         /\ \A t \in Truncated(a, b, rounded) : t \in Nat /\ t * b <= a /\ a <= (t + 1) * b
<1>1. PICK q : q = a \div b
  OBVIOUS
<1>2. q \in Nat /\ q * b <= a /\ a < q * b + b
  BY <1>1, Division
<1>3. Max({0, q - 1}) = IF q = 0 THEN 0 ELSE q - 1
  <2>1. q - 1 \in Int
    BY <1>2
  <2> QED BY <1>2, <2>1, MaxOfTwo
<1>4. Truncated(a, b, rounded) # {}
  BY DEF Truncated
<1>5. ASSUME NEW t \in Truncated(a, b, rounded)
      PROVE  t = q \/ (a % b = 0 /\ t = IF q = 0 THEN 0 ELSE q - 1)
  BY <1>1, <1>3 DEF Truncated
<1>6. (q + 1) * b = q * b + b /\ q * b \in Nat
  BY <1>2
<1>7. a % b = 0 => a = q * b
  <2>1. a = (a \div b) * b + (a % b)
    BY Remainder
  <2>2. PICK r : r = a % b
    OBVIOUS
  <2>3. a = q * b + r
    BY <1>1, <2>1, <2>2
  <2> QED BY <1>6, <2>2, <2>3
<1>8. ASSUME NEW t \in Truncated(a, b, rounded) PROVE t \in Nat /\ t * b <= a /\ a <= (t + 1) * b
  <2>1. CASE t = q
    BY <1>2, <1>6, <2>1
  <2>2. CASE a % b = 0 /\ q = 0 /\ t = 0
    <3>1. a = 0
      BY <1>7, <2>2
    <3> QED BY <2>2, <3>1
  <2>3. CASE a % b = 0 /\ q # 0 /\ t = q - 1
    <3>1. t \in Nat /\ q = t + 1
      BY <1>2, <2>3
    <3>2. a = (t + 1) * b
      BY <1>7, <2>3, <3>1
    <3>3. (t + 1) * b = t * b + b /\ t * b \in Nat
      BY <3>1
    <3> QED BY <3>1, <3>2, <3>3
  <2> QED BY <1>5, <2>1, <2>2, <2>3
<1> QED BY <1>4, <1>8

Thinned(count, m) ==
  /\ count \in Nat \ {0} /\ m \in Nat \ {0} /\ m <= count
  /\ m < count => m \in Nat \ {0, 1}

LEMMA SampleSizeIs ==
  ASSUME ImageAssumption, NEW total \in Nat \ {0}, NEW num, NEW seconds \in Nat
  PROVE  /\ Thinned(SampleCount(total, num, seconds), SampleSize(total, num, seconds))
         /\ SampleSize(total, num, seconds) \in 1 .. MaxSampled
<1>1. PICK count : count = SampleCount(total, num, seconds)
  OBVIOUS
<1>2. count \in Nat \ {0}
  <2>1. Max({1, seconds}) \in Nat \ {0}
    BY MaxOfTwo
  <2> QED BY <1>1, <2>1 DEF SampleCount
<1>3. MaxSampled \in Nat \ {0, 1}
  BY DEF ImageAssumption
<1>4. Min({count, MaxSampled}) = IF count <= MaxSampled THEN count ELSE MaxSampled
  BY <1>2, <1>3, MinOfTwo
<1> QED BY <1>1, <1>2, <1>3, <1>4 DEF Thinned, SampleSize

LEMMA PositionsAre ==
  ASSUME NEW count, NEW m, Thinned(count, m), NEW i \in 0 .. m - 1
  PROVE  /\ PositionsOf(count, m, i) # {}
         /\ \A p \in PositionsOf(count, m, i) :
              /\ p \in Nat
              /\ m = count => p = i
              /\ m < count => p * (m - 1) <= i * (count - 1) /\ i * (count - 1) <= (p + 1) * (m - 1)
              /\ m < count /\ i + 1 = m => p = count - 1
<1>1. count \in Nat \ {0} /\ m \in Nat \ {0} /\ m <= count /\ (m < count => m \in Nat \ {0, 1})
  BY DEF Thinned
<1>2. CASE m = count
  BY <1>1, <1>2 DEF PositionsOf
<1>3. CASE m < count /\ i + 1 = m
  <2>1. PositionsOf(count, m, i) = {count - 1}
    BY <1>1, <1>3 DEF PositionsOf
  <2>2. PICK C, D : C = count - 1 /\ D = m - 1
    OBVIOUS
  <2>3. C \in Nat /\ D \in Nat /\ i = D
    BY <1>1, <1>3, <2>2
  <2>4. C * D = i * C /\ (C + 1) * D = C * D + D /\ C * D \in Nat
    BY <2>3
  <2>5. C * D <= i * C /\ i * C <= (C + 1) * D
    BY <2>3, <2>4
  <2> QED BY <1>1, <1>3, <2>1, <2>2, <2>3, <2>5
<1>4. CASE m < count /\ i + 1 # m
  <2>1. PICK C, D : C = count - 1 /\ D = m - 1
    OBVIOUS
  <2>2. C \in Nat /\ D \in Nat \ {0} /\ i \in Nat
    BY <1>1, <1>4, <2>1
  <2>3. PICK rounded : rounded = ((count - 1) % (m - 1) # 0)
    OBVIOUS
  <2>4. PositionsOf(count, m, i) = Truncated(i * C, D, rounded)
    BY <1>1, <1>4, <2>1, <2>3 DEF PositionsOf
  <2>5. PICK a : a = i * C
    OBVIOUS
  <2>6. a \in Nat
    BY <2>2, <2>5
  <2>7. /\ Truncated(a, D, rounded) # {}
        /\ \A t \in Truncated(a, D, rounded) : t \in Nat /\ t * D <= a /\ a <= (t + 1) * D
    BY <2>2, <2>6, TruncatedIs
  <2>8. PositionsOf(count, m, i) # {}
    BY <2>4, <2>5, <2>7
  <2>9. ASSUME NEW p \in PositionsOf(count, m, i)
        PROVE  p \in Nat /\ p * (m - 1) <= i * (count - 1) /\ i * (count - 1) <= (p + 1) * (m - 1)
    <3>1. p \in Truncated(a, D, rounded)
      BY <2>4, <2>5
    <3>2. p \in Nat /\ p * D <= a /\ a <= (p + 1) * D
      BY <2>7, <3>1
    <3> QED BY <2>1, <2>5, <3>2
  <2>10. m # count
    BY <1>1, <1>4
  <2> QED BY <1>4, <2>8, <2>9, <2>10
<1> QED BY <1>1, <1>2, <1>3, <1>4

LEMMA PositionsGrow ==
  ASSUME NEW count, NEW m, Thinned(count, m), NEW i \in 0 .. m - 1, NEW j \in 0 .. m - 1, i < j,
         NEW p \in PositionsOf(count, m, i), NEW q \in PositionsOf(count, m, j)
  PROVE  p \in Nat /\ q \in Nat /\ p < q
<1>1. count \in Nat \ {0} /\ m \in Nat \ {0} /\ m <= count /\ (m < count => m \in Nat \ {0, 1})
  BY DEF Thinned
<1>2. /\ p \in Nat /\ (m = count => p = i)
      /\ m < count => p * (m - 1) <= i * (count - 1)
  BY PositionsAre
<1>3. /\ q \in Nat /\ (m = count => q = j)
      /\ m < count => j * (count - 1) <= (q + 1) * (m - 1)
  BY PositionsAre
<1>4. CASE m = count
  BY <1>2, <1>3, <1>4
<1>5. CASE m < count
  <2>1. PICK C, D : C = count - 1 /\ D = m - 1
    OBVIOUS
  <2>2. C \in Nat /\ D \in Nat \ {0} /\ D < C /\ i \in Nat /\ j \in Nat
    BY <1>1, <1>5, <2>1
  <2>3. p * D <= i * C /\ j * C <= (q + 1) * D
    BY <1>2, <1>3, <1>5, <2>1
  <2>4. (i + 1) * C <= j * C
    BY <2>2
  <2>5. (i + 1) * C = i * C + C /\ (p + 1) * D = p * D + D
    BY <1>2, <2>2
  <2>6. PICK x, y, z, w : x = p * D /\ y = i * C /\ z = j * C /\ w = (q + 1) * D
    OBVIOUS
  <2>7. x \in Int /\ y \in Int /\ z \in Int /\ w \in Int
    BY <1>2, <1>3, <2>2, <2>6
  <2>8. x <= y /\ z <= w /\ (i + 1) * C = y + C /\ y + C <= z /\ (p + 1) * D = x + D
    BY <2>3, <2>4, <2>5, <2>6
  <2>9. x + D < w
    BY <2>2, <2>7, <2>8
  <2>10. (p + 1) * D < (q + 1) * D
    BY <2>6, <2>8, <2>9
  <2>11. p + 1 \in Int /\ q + 1 \in Int
    BY <1>2, <1>3
  <2>12. p + 1 < q + 1
    BY <2>2, <2>10, <2>11, Cancel
  <2> QED BY <1>2, <1>3, <2>12
<1> QED BY <1>1, <1>2, <1>3, <1>4, <1>5

LEMMA FramesAtAre ==
  ASSUME NEW total \in Nat \ {0}, NEW num \in Nat, NEW den \in Nat \ {0}, NEW p \in Nat
  PROVE  FramesAt(total, num, den, p) # {} /\ FramesAt(total, num, den, p) \subseteq Nat
<1>1. CASE num = 0
  BY <1>1 DEF FramesAt
<1>2. CASE num # 0
  <2>1. PICK a, rounded : a = p * num /\ rounded = Rounded(den)
    OBVIOUS
  <2>2. a \in Nat
    BY <2>1
  <2>3. Truncated(a, den, rounded) # {} /\ \A t \in Truncated(a, den, rounded) : t \in Nat
    BY <2>2, TruncatedIs
  <2>4. FramesAt(total, num, den, p) = {Min({f, total - 1}) : f \in Truncated(a, den, rounded)}
    BY <1>2, <2>1 DEF FramesAt
  <2>5. ASSUME NEW f \in Truncated(a, den, rounded) PROVE Min({f, total - 1}) \in Nat
    <3>1. f \in Nat /\ total - 1 \in Nat
      BY <2>3
    <3> QED BY <3>1, MinOfTwo
  <2> QED BY <2>3, <2>4, <2>5
<1> QED BY <1>1, <1>2

LEMMA FramesGrow ==
  ASSUME NEW total \in Nat \ {0}, NEW num \in Nat, NEW den \in Nat \ {0}, NEW p \in Nat, NEW q \in Nat, p < q,
         NEW f \in FramesAt(total, num, den, p), NEW g \in FramesAt(total, num, den, q)
  PROVE  f <= g
<1>1. CASE num = 0
  BY <1>1 DEF FramesAt
<1>2. CASE num # 0
  <2>1. PICK a, b, rounded : a = p * num /\ b = q * num /\ rounded = Rounded(den)
    OBVIOUS
  <2>2. a \in Nat /\ b \in Nat /\ a < b
    BY <1>2, <2>1
  <2>3. PICK s \in Truncated(a, den, rounded) : f = Min({s, total - 1})
    BY <1>2, <2>1 DEF FramesAt
  <2>4. PICK t \in Truncated(b, den, rounded) : g = Min({t, total - 1})
    BY <1>2, <2>1 DEF FramesAt
  <2>5. s \in Nat /\ s * den <= a
    BY <2>2, TruncatedIs
  <2>6. t \in Nat /\ b <= (t + 1) * den
    BY <2>2, TruncatedIs
  <2>7. s * den < (t + 1) * den
    <3>1. s * den \in Int /\ (t + 1) * den \in Int
      BY <2>5, <2>6
    <3> QED BY <2>2, <2>5, <2>6, <3>1
  <2>8. s < t + 1
    <3>1. s \in Int /\ t + 1 \in Int
      BY <2>5, <2>6
    <3> QED BY <2>7, <3>1, Cancel
  <2>9. total - 1 \in Int
    OBVIOUS
  <2>10. f = (IF s <= total - 1 THEN s ELSE total - 1) /\ g = (IF t <= total - 1 THEN t ELSE total - 1)
    BY <2>3, <2>4, <2>5, <2>6, <2>9, MinOfTwo
  <2> QED BY <2>5, <2>6, <2>8, <2>10
<1> QED BY <1>1, <1>2

(* The frames of a video are in order, at most MaxSampled, and there are   *)
(* as many as its seconds allow.                                           *)
LEMMA SamplesInOrder ==
  ASSUME ImageAssumption, NEW total \in Nat \ {0}, NEW num \in Nat, NEW den \in Nat \ {0}, NEW seconds \in Nat
  PROVE  /\ SampledFrames(total, num, den, seconds) # {}
         /\ \A s \in SampledFrames(total, num, den, seconds) : InOrder(s, SampleSize(total, num, seconds))
<1>1. PICK count, m : count = SampleCount(total, num, seconds) /\ m = SampleSize(total, num, seconds)
  OBVIOUS
<1>2. Thinned(count, m)
  BY <1>1, SampleSizeIs
<1>3. m \in Nat
  BY <1>2 DEF Thinned
<1>4. PICK N : N = Offered(total, num, den, count, m)
  OBVIOUS
<1>5. PICK S : S = SampledFrames(total, num, den, seconds)
  OBVIOUS
<1>6. Picked(S, N, m) /\ ((\A n \in 1 .. m : N[n] # {}) => S # {})
  BY <1>1, <1>3, <1>4, <1>5, SampledFramesAre
<1>7. ASSUME NEW n \in 1 .. m PROVE N[n] = UNION {FramesAt(total, num, den, p) : p \in PositionsOf(count, m, n - 1)}
  BY <1>4 DEF Offered
<1>8. ASSUME NEW n \in 1 .. m PROVE N[n] # {} /\ N[n] \subseteq Nat
  <2>1. PICK i : i = n - 1
    OBVIOUS
  <2>2. i \in 0 .. m - 1
    BY <1>3, <2>1
  <2>3. PositionsOf(count, m, i) # {} /\ \A p \in PositionsOf(count, m, i) : p \in Nat
    BY <1>2, <2>2, PositionsAre
  <2>4. ASSUME NEW p \in PositionsOf(count, m, i)
        PROVE  FramesAt(total, num, den, p) # {} /\ FramesAt(total, num, den, p) \subseteq Nat
    BY <2>3, FramesAtAre
  <2>5. N[n] = UNION {FramesAt(total, num, den, p) : p \in PositionsOf(count, m, i)}
    BY <1>7, <2>1
  <2>6. PICK p \in PositionsOf(count, m, i) : TRUE
    BY <2>3
  <2>7. FramesAt(total, num, den, p) # {} /\ FramesAt(total, num, den, p) \subseteq N[n]
    BY <2>4, <2>5
  <2> QED BY <2>4, <2>5, <2>7
<1>9. ASSUME NEW s \in S PROVE InOrder(s, m)
  <2>1. \A j \in 1 .. m : s[j] \in N[j]
    BY <1>6 DEF Picked
  <2>2. s = [j \in 1 .. m |-> s[j]]
    BY <1>6 DEF Picked
  <2>3. ASSUME NEW i \in 1 .. m, NEW j \in 1 .. m, i <= j PROVE s[i] <= s[j]
    <3>1. CASE i = j
      <4>1. s[i] \in Nat
        BY <1>8, <2>1
      <4> QED BY <3>1, <4>1
    <3>3. i < j \/ i = j
      BY <1>3, <2>3
    <3>2. CASE i < j
      <4>1. PICK k, l : k = i - 1 /\ l = j - 1
        OBVIOUS
      <4>2. k \in 0 .. m - 1 /\ l \in 0 .. m - 1 /\ k < l
        BY <1>3, <3>2, <4>1
      <4>3. PICK p \in PositionsOf(count, m, k) : s[i] \in FramesAt(total, num, den, p)
        BY <1>7, <2>1, <4>1
      <4>4. PICK q \in PositionsOf(count, m, l) : s[j] \in FramesAt(total, num, den, q)
        BY <1>7, <2>1, <4>1
      <4>5. p \in Nat /\ q \in Nat /\ p < q
        BY <1>2, <4>2, PositionsGrow
      <4> QED BY <4>3, <4>4, <4>5, FramesGrow
    <3> QED BY <3>1, <3>2, <3>3
  <2>4. s \in [1 .. m -> Nat]
    <3>1. \A j \in 1 .. m : s[j] \in Nat
      BY <1>8, <2>1
    <3> QED BY <2>2, <3>1
  <2> QED BY <1>3, <2>3, <2>4 DEF InOrder
<1> QED BY <1>1, <1>5, <1>6, <1>8, <1>9

-------------------------------------------------------------------------------
(* The samples of a file.                                                  *)

Begin == [pos |-> 12, refused |-> FALSE, found |-> FALSE, data |-> {}, fmt |-> NoFormat]

Reading(file, read) ==
  read = [n \in 0 .. file.size \div 8 |-> IF n = 0 THEN Begin ELSE WavChunk(file, read[n - 1])]

WavOk(file, w) ==
  /\ file.riff \in 12 .. file.size /\ ~w.refused /\ w.found
  /\ w.fmt.channels \in {1, 2} /\ w.fmt.rate > 0 /\ w.fmt.width > 0
  /\ w.fmt.align = w.fmt.channels * w.fmt.width
  /\ Cardinality(w.data) % w.fmt.align = 0

Samples(data, align) ==
  [s \in 1 .. Cardinality(data) \div align |-> {Min(data) + (s - 1) * align + b : b \in 0 .. align - 1}]

Wav(file, w) ==
  [ok |-> WavOk(file, w), rate |-> w.fmt.rate, samples |-> IF ~WavOk(file, w) THEN <<>> ELSE Samples(w.data, w.fmt.align)]

LEMMA WavReads ==
  ASSUME NEW file, LegalFile(file)
  PROVE  \E read : /\ Reading(file, read)
                   /\ DecodeWav(file) = Wav(file, read[file.size \div 8])
<1>1. PICK A : A = WavStates(file)
  OBVIOUS
<1>2. PICK m : m = file.size \div 8
  OBVIOUS
<1>3. m \in Nat
  BY <1>2, Division DEF LegalFile
<1>4. Begin \in A
  <2>1. {} \in {d \in SUBSET Nat : IsFiniteSet(d)}
    BY FS_EmptySet
  <2>2. NoFormat \in Formats(file)
    BY DEF Formats
  <2> QED BY <1>1, <2>1, <2>2 DEF WavStates, Begin
<1>5. \A w \in A : WavChunk(file, w) \in A
  BY <1>1, WavChunkType
<1> DEFINE step == [x \in A \X Nat |-> WavChunk(file, x[1])]
<1>6. \E read : Reading(file, read)
  <2>1. step \in [A \X Nat -> A]
    BY <1>5
  <2>2. PICK g : Iterates(g, A, Begin, step, m)
    <3> HIDE DEF step
    <3> QED BY <1>3, <1>4, <2>1, Recursion
  <2>3. g \in [0 .. m -> A] /\ g[0] = Begin /\ \A i \in 1 .. m : g[i] = step[<<g[i - 1], i>>]
    BY <2>2 DEF Iterates
  <2>4. \A i \in 1 .. m : g[i] = WavChunk(file, g[i - 1])
    <3> TAKE i \in 1 .. m
    <3>1. <<g[i - 1], i>> \in A \X Nat
      BY <1>3, <2>3
    <3> QED BY <2>3, <3>1
  <2> HIDE DEF step
  <2>5. g = [i \in 0 .. m |-> g[i]]
    BY <2>3
  <2>6. \A i \in 0 .. m : g[i] = IF i = 0 THEN Begin ELSE WavChunk(file, g[i - 1])
    <3>1. \A i \in 0 .. m : i = 0 \/ i \in 1 .. m
      BY <1>3
    <3> QED BY <2>3, <2>4, <3>1
  <2>7. g = [n \in 0 .. m |-> IF n = 0 THEN Begin ELSE WavChunk(file, g[n - 1])]
    BY <2>5, <2>6
  <2>8. Reading(file, g)
    BY <1>2, <2>7 DEF Reading
  <2> QED BY <2>8
<1> HIDE DEF step
<1>7. PICK read : read = CHOOSE f : Reading(file, f)
  OBVIOUS
<1>8. Reading(file, read)
  BY <1>6, <1>7
<1>9. DecodeWav(file) = Wav(file, read[m])
  <2>1. DecodeWav(file) = Wav(file, (CHOOSE f : f = [n \in 0 .. file.size \div 8 |->
                                       IF n = 0 THEN Begin ELSE WavChunk(file, f[n - 1])])[file.size \div 8])
    BY DEF DecodeWav, Wav, WavOk, Samples, Begin, NoFormat
  <2>2. read = CHOOSE f : f = [n \in 0 .. file.size \div 8 |-> IF n = 0 THEN Begin ELSE WavChunk(file, f[n - 1])]
    BY <1>7 DEF Reading
  <2> QED BY <1>2, <2>1, <2>2
<1> QED BY <1>2, <1>8, <1>9

(* What each chunk keeps, the last state has.                              *)
LEMMA WavKeeps ==
  ASSUME NEW file, LegalFile(file), NEW read, Reading(file, read), NEW K,
         <<0, Begin>> \in K,
         \A n \in Nat : \A w : <<n, w>> \in K => <<n + 1, WavChunk(file, w)>> \in K
  PROVE  <<file.size \div 8, read[file.size \div 8]>> \in K
<1>1. PICK m : m = file.size \div 8
  OBVIOUS
<1>2. m \in Nat
  BY <1>1, Division DEF LegalFile
<1>3. \A n \in 0 .. m : read[n] = IF n = 0 THEN Begin ELSE WavChunk(file, read[n - 1])
  BY <1>1 DEF Reading
<1> DEFINE T == {n \in Nat : n <= m => <<n, read[n]>> \in K}
<1>4. 0 \in T
  BY <1>2, <1>3
<1>5. ASSUME NEW n \in T PROVE n + 1 \in T
  <2>1. CASE n + 1 <= m
    <3>1. <<n, read[n]>> \in K /\ n \in Nat
      BY <1>2, <2>1
    <3>2. n + 1 \in 0 .. m /\ n + 1 # 0 /\ (n + 1) - 1 = n
      BY <1>2, <2>1
    <3>3. PICK k : k = n + 1
      OBVIOUS
    <3>4. read[k] = WavChunk(file, read[k - 1])
      BY <1>3, <3>2, <3>3
    <3>5. read[n + 1] = WavChunk(file, read[n])
      BY <3>2, <3>3, <3>4
    <3> QED BY <3>1, <3>5
  <2> QED BY <2>1
<1>6. T = Nat
  <2>1. T \in SUBSET Nat
    OBVIOUS
  <2> HIDE DEF T
  <2> QED BY <1>4, <1>5, <2>1, Induction
<1> QED BY <1>1, <1>2, <1>6

(* What Described says, a part at a time.                                  *)
ChunkEnd(file, at) == at + 8 + file.chunks[at].len + (file.chunks[at].len % 2)

OneEach(file, f, d) ==
  /\ f \in DOMAIN file.chunks /\ d \in DOMAIN file.chunks
  /\ \A at \in DOMAIN file.chunks :
       (file.chunks[at].id = "fmt" <=> at = f) /\ (file.chunks[at].id = "data" <=> at = d)

ContentIs(file, f, d) ==
  file.chunks[f].fmt.align > 0 =>
    file.content = [s \in 1 .. file.chunks[d].len \div file.chunks[f].fmt.align |->
      {d + 8 + (s - 1) * file.chunks[f].fmt.align + b : b \in 0 .. file.chunks[f].fmt.align - 1}]

GoodChain(file) ==
  /\ file.riff \in 12 .. file.size /\ 12 \in DOMAIN file.chunks
  /\ \A at \in DOMAIN file.chunks :
       /\ 12 <= at
       /\ ChunkEnd(file, at) \in DOMAIN file.chunks \cup {file.riff} /\ ChunkEnd(file, at) <= file.riff
       /\ \A other \in DOMAIN file.chunks : at < other => ChunkEnd(file, at) <= other

GoodFormat(file, fmt, len) ==
  /\ fmt.valid /\ fmt.channels \in {1, 2} /\ fmt.width > 0 /\ fmt.align = fmt.channels * fmt.width
  /\ len % fmt.align = 0 /\ fmt.rate = file.rate /\ file.rate > 0

LEMMA DescribedIs ==
  ASSUME NEW file, Described(file)
  PROVE  \E f, d \in DOMAIN file.chunks :
           /\ OneEach(file, f, d) /\ ContentIs(file, f, d)
           /\ file.good => GoodChain(file) /\ GoodFormat(file, file.chunks[f].fmt, file.chunks[d].len)
BY DEF Described, OneEach, ContentIs, GoodChain, GoodFormat, ChunkEnd

LEMMA WavStep ==
  ASSUME NEW file, NEW w, w \in WavStates(file), LegalFile(file)
  PROVE  LET v == WavChunk(file, w)
         IN \/ v = w /\ (w.refused \/ w.pos >= file.riff)
            \/ /\ v = [w EXCEPT !.refused = TRUE] /\ w.pos < file.riff
               /\ w.pos \in DOMAIN file.chunks =>
                    \/ ChunkEnd(file, w.pos) > file.riff
                    \/ file.chunks[w.pos].id = "fmt" /\ ~file.chunks[w.pos].fmt.valid
            \/ /\ w.pos \in DOMAIN file.chunks /\ w.pos < file.riff
               /\ v = [w EXCEPT !.pos = ChunkEnd(file, w.pos),
                                !.fmt = IF file.chunks[w.pos].id = "fmt" THEN file.chunks[w.pos].fmt ELSE @,
                                !.data = IF file.chunks[w.pos].id = "data"
                                         THEN w.pos + 8 .. w.pos + 8 + file.chunks[w.pos].len - 1 ELSE @,
                                !.found = @ \/ file.chunks[w.pos].id = "data"]
            \/ /\ w.pos \notin DOMAIN file.chunks /\ w.pos < file.riff
               /\ v = [w EXCEPT !.pos = w.pos + 8]
<1>1. w.pos \in Nat /\ w.found \in BOOLEAN
  BY DEF WavStates
<1>2. file.riff \in Nat
  BY DEF LegalFile
<1>3. CASE w.pos \in DOMAIN file.chunks
  <2>1. file.chunks[w.pos].len \in Nat
    BY <1>3 DEF LegalFile
  <2>2. PICK chunk : chunk = file.chunks[w.pos]
    OBVIOUS
  <2>3. PICK body, last, next : body = w.pos + 8 /\ last = (body + chunk.len) - 1
                                /\ next = (body + chunk.len) + (chunk.len % 2)
    OBVIOUS
  <2>4. WavChunk(file, w)
          = IF w.refused \/ w.pos >= file.riff THEN w
            ELSE IF next > file.riff \/ (chunk.id = "fmt" /\ ~chunk.fmt.valid)
            THEN [w EXCEPT !.refused = TRUE]
            ELSE [w EXCEPT !.pos = next,
                           !.fmt = IF chunk.id = "fmt" THEN chunk.fmt ELSE @,
                           !.data = IF chunk.id = "data" THEN body .. last ELSE @,
                           !.found = @ \/ chunk.id = "data"]
    BY <1>3, <2>2, <2>3 DEF WavChunk
  <2>5. next = ChunkEnd(file, w.pos)
    <3>1. PICK e : e = chunk.len % 2
      OBVIOUS
    <3>2. e \in Nat /\ chunk.len \in Nat
      BY <2>1, <2>2, <3>1
    <3>3. ChunkEnd(file, w.pos) = w.pos + 8 + chunk.len + e
      BY <2>2, <3>1 DEF ChunkEnd
    <3> QED BY <1>1, <2>3, <3>1, <3>2, <3>3
  <2>6. last = w.pos + 8 + file.chunks[w.pos].len - 1
    BY <1>1, <2>1, <2>2, <2>3
  <2>7. PICK v : v = WavChunk(file, w)
    OBVIOUS
  <2>8. CASE w.refused \/ w.pos >= file.riff
    BY <2>4, <2>8
  <2>9. CASE ~w.refused /\ ~(w.pos >= file.riff)
    <3>1. w.pos < file.riff
      BY <1>1, <1>2, <2>9
    <3> QED BY <1>3, <2>2, <2>3, <2>4, <2>5, <2>6, <2>9, <3>1
  <2> QED BY <2>8, <2>9
<1>4. CASE w.pos \notin DOMAIN file.chunks
  <2>1. PICK chunk : chunk = [id |-> "other", len |-> 0, fmt |-> w.fmt]
    OBVIOUS
  <2>2. chunk.id # "fmt" /\ chunk.id # "data" /\ chunk.len = 0
    BY <2>1
  <2>3. PICK next : next = ((w.pos + 8) + chunk.len) + (chunk.len % 2)
    OBVIOUS
  <2>4. next = w.pos + 8
    BY <1>1, <2>2, <2>3
  <2>5. WavChunk(file, w)
          = IF w.refused \/ w.pos >= file.riff THEN w
            ELSE IF next > file.riff \/ (chunk.id = "fmt" /\ ~chunk.fmt.valid)
            THEN [w EXCEPT !.refused = TRUE]
            ELSE [w EXCEPT !.pos = next,
                           !.fmt = IF chunk.id = "fmt" THEN chunk.fmt ELSE @,
                           !.data = IF chunk.id = "data" THEN w.pos + 8 .. (w.pos + 8) + chunk.len - 1 ELSE @,
                           !.found = @ \/ chunk.id = "data"]
    BY <1>4, <2>1, <2>3 DEF WavChunk
  <2>6. [w EXCEPT !.pos = next,
                  !.fmt = IF chunk.id = "fmt" THEN chunk.fmt ELSE @,
                  !.data = IF chunk.id = "data" THEN w.pos + 8 .. (w.pos + 8) + chunk.len - 1 ELSE @,
                  !.found = @ \/ chunk.id = "data"] = [w EXCEPT !.pos = w.pos + 8]
    BY <1>1, <2>2, <2>4 DEF WavStates
  <2>7. ~(w.pos >= file.riff) => w.pos < file.riff
    BY <1>1, <1>2
  <2> QED BY <1>4, <2>5, <2>6, <2>7
<1> QED BY <1>3, <1>4

LEMMA RangeIs ==
  ASSUME NEW a \in Nat, NEW len \in Nat
  PROVE  /\ Cardinality(a .. a + len - 1) = len
         /\ len > 0 => Min(a .. a + len - 1) = a
<1>1. PICK b : b = a + len - 1
  OBVIOUS
<1>2. b \in Int /\ b - a + 1 = len /\ (a > b => len = 0)
  BY <1>1
<1>3. Cardinality(a .. b) = IF a > b THEN 0 ELSE b - a + 1
  BY ONLY a \in Nat, <1>2, FS_Interval
<1>4. ASSUME len > 0 PROVE Min(a .. b) = a
  <2>1. a \in a .. b /\ a .. b \in SUBSET Nat
    BY <1>1, <1>4
  <2>2. Min(a .. b) \in a .. b /\ Min(a .. b) <= a
    BY <2>1, MinIn
  <2> QED BY <2>2
<1> QED BY <1>1, <1>2, <1>3, <1>4

(* The samples of a chunk are what the file's description says.            *)
LEMMA SamplesAre ==
  ASSUME NEW d \in Nat, NEW len \in Nat, NEW align \in Nat \ {0}
  PROVE  Samples(d + 8 .. d + 8 + len - 1, align)
           = [s \in 1 .. len \div align |-> {d + 8 + (s - 1) * align + b : b \in 0 .. align - 1}]
<1>1. PICK a : a = d + 8
  OBVIOUS
<1>2. a \in Nat
  BY <1>1
<1>3. PICK data : data = a .. a + len - 1
  OBVIOUS
<1>4. Cardinality(data) = len /\ (len > 0 => Min(data) = a)
  BY <1>2, <1>3, RangeIs
<1>5. PICK c : c = len \div align
  OBVIOUS
<1>6. c \in Nat /\ c * align <= len
  BY <1>5, Division
<1>7. len = 0 => c = 0
  <2>1. ASSUME len = 0, c # 0 PROVE FALSE
    <3>1. c * align >= 1
      BY <1>6, <2>1
    <3>2. c * align \in Nat
      BY <1>6
    <3> QED BY <1>6, <2>1, <3>1, <3>2
  <2> QED BY <1>6, <2>1
<1>8. Samples(data, align) = [s \in 1 .. c |-> {Min(data) + (s - 1) * align + b : b \in 0 .. align - 1}]
  BY <1>4, <1>5 DEF Samples
<1>9. ASSUME NEW s \in 1 .. c PROVE Min(data) = a
  <2>1. len # 0
    BY <1>7
  <2> QED BY <1>4, <2>1
<1>10. Samples(data, align) = [s \in 1 .. c |-> {a + (s - 1) * align + b : b \in 0 .. align - 1}]
  BY <1>8, <1>9
<1> QED BY <1>1, <1>3, <1>5, <1>10

LEMMA DecodedContent ==
  ASSUME NEW file, LegalFile(file), DOMAIN file.chunks \subseteq Nat, Described(file)
  PROVE  /\ DecodeWav(file).samples \in {<<>>, file.content}
         /\ DecodeWav(file).ok => DecodeWav(file).samples = file.content
<1>1. PICK read : Reading(file, read) /\ DecodeWav(file) = Wav(file, read[file.size \div 8])
  BY WavReads
<1>2. PICK f, d \in DOMAIN file.chunks : OneEach(file, f, d) /\ ContentIs(file, f, d)
  BY DescribedIs
<1>3. PICK fmt, len : fmt = file.chunks[f].fmt /\ len = file.chunks[d].len
  OBVIOUS
<1>4. PICK data : data = d + 8 .. d + 8 + len - 1
  OBVIOUS
<1> DEFINE Kept(w) == w \in WavStates(file) /\ w.fmt \in {NoFormat, fmt} /\ (w.found => w.data = data)
           K == {x \in Nat \X WavStates(file) : Kept(x[2])}
<1>5. <<0, Begin>> \in K
  <2>1. NoFormat \in Formats(file)
    BY DEF Formats
  <2>2. {} \in {e \in SUBSET Nat : IsFiniteSet(e)}
    BY FS_EmptySet
  <2>3. Begin \in WavStates(file) /\ Begin.fmt = NoFormat /\ Begin.found = FALSE
    BY <2>1, <2>2 DEF Begin, WavStates
  <2> QED BY <2>3
<1>6. ASSUME NEW n \in Nat, NEW w, <<n, w>> \in K PROVE <<n + 1, WavChunk(file, w)>> \in K
  <2>1. Kept(w)
    BY <1>6
  <2>2. PICK v : v = WavChunk(file, w)
    OBVIOUS
  <2>3. v \in WavStates(file)
    BY <2>1, <2>2, WavChunkType
  <2>4. \/ v = w
        \/ v = [w EXCEPT !.refused = TRUE]
        \/ /\ w.pos \in DOMAIN file.chunks /\ w.pos < file.riff
           /\ v = [w EXCEPT !.pos = ChunkEnd(file, w.pos),
                            !.fmt = IF file.chunks[w.pos].id = "fmt" THEN file.chunks[w.pos].fmt ELSE @,
                            !.data = IF file.chunks[w.pos].id = "data"
                                     THEN w.pos + 8 .. w.pos + 8 + file.chunks[w.pos].len - 1 ELSE @,
                            !.found = @ \/ file.chunks[w.pos].id = "data"]
        \/ v = [w EXCEPT !.pos = w.pos + 8]
    BY <2>1, <2>2, WavStep
  <2>5. w.pos \in DOMAIN file.chunks =>
          (file.chunks[w.pos].id = "fmt" <=> w.pos = f) /\ (file.chunks[w.pos].id = "data" <=> w.pos = d)
    BY <1>2 DEF OneEach
  <2>6. v.fmt \in {NoFormat, fmt} /\ (v.found => v.data = data)
    <3>1. w.fmt \in {NoFormat, fmt} /\ (w.found => w.data = data) /\ w \in WavStates(file)
      BY <2>1
    <3> QED BY <1>3, <1>4, <2>4, <2>5, <3>1 DEF WavStates
  <2>7. <<n + 1, v>> \in K
    BY <2>3, <2>6
  <2> QED BY <2>2, <2>7
<1>7. PICK m : m = file.size \div 8
  OBVIOUS
<1>8. <<m, read[m]>> \in K
  <2> HIDE DEF K
  <2> QED BY <1>1, <1>5, <1>6, <1>7, WavKeeps
<1>9. PICK w : w = read[m]
  OBVIOUS
<1>10. w \in WavStates(file) /\ w.fmt \in {NoFormat, fmt} /\ (w.found => w.data = data)
  BY <1>8, <1>9
<1>11. DecodeWav(file) = Wav(file, w)
  BY <1>1, <1>7, <1>9
<1>12. ASSUME WavOk(file, w) PROVE Samples(w.data, w.fmt.align) = file.content
  <2>1. w.found /\ w.fmt.channels \in {1, 2} /\ w.fmt.width > 0 /\ w.fmt.align = w.fmt.channels * w.fmt.width
    BY <1>12 DEF WavOk
  <2>2. w.fmt = fmt /\ w.data = data
    BY <1>10, <2>1 DEF NoFormat
  <2>3. fmt.width \in Nat /\ fmt.align \in Nat /\ len \in Nat /\ d \in Nat
    BY <1>3 DEF LegalFile
  <2>4. fmt.align > 0
    <3>1. CASE fmt.channels = 1
      BY <2>1, <2>2, <2>3, <3>1
    <3>2. CASE fmt.channels = 2
      BY <2>1, <2>2, <2>3, <3>2
    <3> QED BY <2>1, <2>2, <3>1, <3>2
  <2>5. file.content = [s \in 1 .. len \div fmt.align |-> {d + 8 + (s - 1) * fmt.align + b : b \in 0 .. fmt.align - 1}]
    BY <1>2, <1>3, <2>4 DEF ContentIs
  <2>6. PICK align : align = fmt.align
    OBVIOUS
  <2>7. align \in Nat \ {0}
    BY <2>3, <2>4, <2>6
  <2>8. Samples(d + 8 .. d + 8 + len - 1, align)
          = [s \in 1 .. len \div align |-> {d + 8 + (s - 1) * align + b : b \in 0 .. align - 1}]
    BY <2>3, <2>7, SamplesAre
  <2> QED BY <1>4, <2>2, <2>5, <2>6, <2>8
<1> QED BY <1>11, <1>12 DEF Wav

(* A good file is read to its end.                                         *)
LEMMA GoodDecoded ==
  ASSUME NEW file, LegalFile(file), DOMAIN file.chunks \subseteq Nat, Described(file), file.good
  PROVE  LET wav == DecodeWav(file)
         IN wav.ok /\ wav.rate = file.rate /\ wav.samples = file.content
<1>1. PICK read : Reading(file, read) /\ DecodeWav(file) = Wav(file, read[file.size \div 8])
  BY WavReads
<1>2. PICK f, d \in DOMAIN file.chunks :
        OneEach(file, f, d) /\ GoodChain(file) /\ GoodFormat(file, file.chunks[f].fmt, file.chunks[d].len)
  BY DescribedIs
<1>3. PICK fmt, len : fmt = file.chunks[f].fmt /\ len = file.chunks[d].len
  OBVIOUS
<1>4. PICK data : data = d + 8 .. d + 8 + len - 1
  OBVIOUS
<1> DEFINE Got(w) == \A at \in DOMAIN file.chunks :
                       at < w.pos => (at = f => w.fmt = fmt) /\ (at = d => w.found /\ w.data = data)
           Kept(n, w) == /\ w \in WavStates(file) /\ ~w.refused /\ w.pos <= file.riff
                         /\ w.pos \in DOMAIN file.chunks \cup {file.riff}
                         /\ w.pos >= 12 + 8 * n \/ w.pos = file.riff
                         /\ Got(w)
           K == {x \in Nat \X WavStates(file) : Kept(x[1], x[2])}
<1>5. file.riff \in 12 .. file.size /\ file.riff \in Nat /\ file.size \in Nat /\ 12 \in DOMAIN file.chunks
  BY <1>2 DEF GoodChain, LegalFile
<1>6. ASSUME NEW at \in DOMAIN file.chunks
      PROVE  /\ at \in Nat /\ 12 <= at /\ ChunkEnd(file, at) \in Nat /\ at + 8 <= ChunkEnd(file, at)
             /\ ChunkEnd(file, at) \in DOMAIN file.chunks \cup {file.riff} /\ ChunkEnd(file, at) <= file.riff
             /\ \A other \in DOMAIN file.chunks : at < other => ChunkEnd(file, at) <= other
  <2>1. file.chunks[at].len \in Nat
    BY DEF LegalFile
  <2>2. PICK e : e = file.chunks[at].len % 2
    OBVIOUS
  <2>3. e \in Nat
    BY <2>1, <2>2
  <2>4. ChunkEnd(file, at) = at + 8 + file.chunks[at].len + e
    BY <2>2 DEF ChunkEnd
  <2>5. at \in Nat /\ ChunkEnd(file, at) \in Nat /\ at + 8 <= ChunkEnd(file, at)
    BY <2>1, <2>3, <2>4
  <2> QED BY <1>2, <2>5 DEF GoodChain
<1>7. <<0, Begin>> \in K
  <2>1. NoFormat \in Formats(file)
    BY DEF Formats
  <2>2. {} \in {e \in SUBSET Nat : IsFiniteSet(e)}
    BY FS_EmptySet
  <2>3. Begin \in WavStates(file) /\ Begin.pos = 12 /\ ~Begin.refused
    BY <2>1, <2>2 DEF Begin, WavStates
  <2>4. ASSUME NEW at \in DOMAIN file.chunks, at < 12 PROVE FALSE
    BY <1>6, <2>4
  <2>5. Got(Begin)
    BY <2>3, <2>4
  <2> QED BY <1>5, <2>3, <2>5
<1>8. ASSUME NEW n \in Nat, NEW w, <<n, w>> \in K PROVE <<n + 1, WavChunk(file, w)>> \in K
  <2>1. Kept(n, w)
    BY <1>8
  <2>2. PICK v : v = WavChunk(file, w)
    OBVIOUS
  <2>3. v \in WavStates(file) /\ w.pos \in Nat
    BY <2>1, <2>2, WavChunkType DEF WavStates
  <2>4. CASE w.pos = file.riff
    <3>1. v = w
      <4>1. ~(w.pos < file.riff)
        BY <1>5, <2>3, <2>4
      <4> QED BY <2>1, <2>2, <4>1, WavStep
    <3>2. Kept(n + 1, w)
      BY <2>1, <2>4
    <3> QED BY <2>1, <2>2, <3>1, <3>2
  <2>5. CASE w.pos # file.riff
    <3>1. w.pos \in DOMAIN file.chunks /\ w.pos < file.riff /\ w.pos >= 12 + 8 * n
      BY <1>5, <2>1, <2>3, <2>5
    <3>2. ChunkEnd(file, w.pos) <= file.riff /\ (file.chunks[w.pos].id = "fmt" => file.chunks[w.pos].fmt.valid)
      <4>1. file.chunks[w.pos].id = "fmt" => w.pos = f
        BY <1>2, <3>1 DEF OneEach
      <4>2. fmt.valid
        BY <1>2, <1>3 DEF GoodFormat
      <4> QED BY <1>3, <1>6, <3>1, <4>1, <4>2
    <3>3. v = [w EXCEPT !.pos = ChunkEnd(file, w.pos),
                        !.fmt = IF file.chunks[w.pos].id = "fmt" THEN file.chunks[w.pos].fmt ELSE @,
                        !.data = IF file.chunks[w.pos].id = "data"
                                 THEN w.pos + 8 .. w.pos + 8 + file.chunks[w.pos].len - 1 ELSE @,
                        !.found = @ \/ file.chunks[w.pos].id = "data"]
      <4>1. ~(ChunkEnd(file, w.pos) > file.riff)
        BY <1>5, <1>6, <3>1, <3>2
      <4>2. ~(w.pos >= file.riff)
        BY <1>5, <2>3, <3>1
      <4> QED BY <2>1, <2>2, <3>1, <3>2, <4>1, <4>2, WavStep
    <3>4. PICK next : next = ChunkEnd(file, w.pos)
      OBVIOUS
    <3>5. /\ v.pos = next /\ ~v.refused
          /\ v.fmt = IF file.chunks[w.pos].id = "fmt" THEN file.chunks[w.pos].fmt ELSE w.fmt
          /\ v.data = IF file.chunks[w.pos].id = "data"
                      THEN w.pos + 8 .. w.pos + 8 + file.chunks[w.pos].len - 1 ELSE w.data
          /\ v.found = (w.found \/ file.chunks[w.pos].id = "data")
      BY <2>1, <3>3, <3>4 DEF WavStates
    <3>6. /\ next \in Nat /\ w.pos + 8 <= next /\ next \in DOMAIN file.chunks \cup {file.riff} /\ next <= file.riff
          /\ \A other \in DOMAIN file.chunks : w.pos < other => next <= other
      BY <1>6, <3>1, <3>4
    <3>7. next >= 12 + 8 * (n + 1)
      BY <2>3, <3>1, <3>6
    <3>8. ASSUME NEW at \in DOMAIN file.chunks, at < next
          PROVE  (at = f => v.fmt = fmt) /\ (at = d => v.found /\ v.data = data)
      <4>1. (file.chunks[w.pos].id = "fmt" <=> w.pos = f) /\ (file.chunks[w.pos].id = "data" <=> w.pos = d)
        BY <1>2, <3>1 DEF OneEach
      <4>2. CASE at = w.pos
        BY <1>3, <1>4, <3>5, <4>1, <4>2
      <4>3. CASE at # w.pos
        <5>1. at < w.pos
          BY <1>6, <2>3, <3>6, <3>8, <4>3
        <5>2. (at = f => w.fmt = fmt) /\ (at = d => w.found /\ w.data = data)
          BY <2>1, <5>1
        <5> QED BY <1>3, <1>4, <3>5, <4>1, <5>2
      <4> QED BY <4>2, <4>3
    <3>9. Kept(n + 1, v)
      BY <2>3, <3>5, <3>6, <3>7, <3>8
    <3> QED BY <2>2, <2>3, <3>9
  <2> QED BY <2>4, <2>5
<1>9. PICK m : m = file.size \div 8
  OBVIOUS
<1>10. <<m, read[m]>> \in K
  <2> HIDE DEF K
  <2> QED BY <1>1, <1>7, <1>8, <1>9, WavKeeps
<1>11. PICK w : w = read[m]
  OBVIOUS
<1>12. Kept(m, w)
  BY <1>10, <1>11
<1>13. w.pos = file.riff
  <2>1. m \in Nat /\ file.size < m * 8 + 8
    BY <1>5, <1>9, Division
  <2>2. ~(w.pos >= 12 + 8 * m)
    BY <1>5, <1>12, <2>1 DEF WavStates
  <2> QED BY <1>12, <2>2
<1>14. w.fmt = fmt /\ w.found /\ w.data = data
  <2>1. ASSUME NEW at \in DOMAIN file.chunks PROVE at < file.riff
    <3>1. PICK e : e = ChunkEnd(file, at)
      OBVIOUS
    <3>2. at \in Nat /\ e \in Nat /\ at + 8 <= e /\ e <= file.riff
      BY <1>6, <3>1
    <3> QED BY <1>5, <3>2
  <2> QED BY <1>12, <1>13, <2>1
<1>15. Cardinality(data) = len
  <2>1. len \in Nat /\ d + 8 \in Nat
    BY <1>3 DEF LegalFile
  <2>2. PICK a : a = d + 8
    OBVIOUS
  <2>3. Cardinality(a .. a + len - 1) = len
    BY <2>1, <2>2, RangeIs
  <2> QED BY <1>4, <2>2, <2>3
<1>16. GoodFormat(file, fmt, len)
  BY <1>2, <1>3
<1>17. WavOk(file, w)
  BY <1>5, <1>12, <1>14, <1>15, <1>16 DEF WavOk, GoodFormat
<1>18. DecodeWav(file).ok /\ DecodeWav(file).rate = file.rate
  BY <1>1, <1>9, <1>11, <1>14, <1>16, <1>17 DEF Wav, GoodFormat
<1> QED BY <1>18, DecodedContent

-------------------------------------------------------------------------------
(* The frames of a clip, and the soft tokens that a worker is told of.     *)

LEMMA QuotientGrows ==
  ASSUME NEW d \in Nat \ {0}, NEW a \in Nat, NEW b \in Nat, a <= b
  PROVE  a \div d \in Nat /\ b \div d \in Nat /\ a \div d <= b \div d
<1>1. PICK p, q : p = a \div d /\ q = b \div d
  OBVIOUS
<1>2. p \in Nat /\ p * d <= a /\ q \in Nat /\ b < q * d + d
  BY <1>1, Division
<1>3. p * d < (q + 1) * d
  <2>1. (q + 1) * d = q * d + d /\ q * d \in Nat /\ p * d \in Nat
    BY <1>2
  <2> QED BY <1>2, <2>1
<1>4. p < q + 1
  <2>1. p \in Int /\ q + 1 \in Int
    BY <1>2
  <2> QED BY <1>3, <2>1, Cancel
<1> QED BY <1>1, <1>2, <1>4

LEMMA CeilDivGrows ==
  ASSUME NEW d \in Nat \ {0}, NEW a \in Nat, NEW b \in Nat, a <= b
  PROVE  CeilDiv(a, d) \in Nat /\ CeilDiv(b, d) \in Nat /\ CeilDiv(a, d) <= CeilDiv(b, d)
<1>1. PICK x, y : x = a + d - 1 /\ y = b + d - 1
  OBVIOUS
<1>2. x \in Nat /\ y \in Nat /\ x <= y
  BY <1>1
<1>3. x \div d \in Nat /\ y \div d \in Nat /\ x \div d <= y \div d
  BY <1>2, QuotientGrows
<1> QED BY <1>1, <1>3 DEF CeilDiv

LEMMA CeilDivReaches ==
  ASSUME NEW d \in Nat \ {0}, NEW a \in Nat
  PROVE  CeilDiv(a, d) * d >= a
<1>1. PICK x, q : x = a + d - 1 /\ q = x \div d
  OBVIOUS
<1>2. x \in Nat
  BY <1>1
<1>3. q \in Nat /\ x < q * d + d
  BY <1>1, <1>2, Division
<1>4. PICK z : z = q * d
  OBVIOUS
<1>5. z \in Nat /\ x < z + d
  BY <1>3, <1>4
<1>6. z >= a
  BY <1>1, <1>5
<1> QED BY <1>1, <1>4, <1>6 DEF CeilDiv

(* Halving twice, rounding up, is quartering.                              *)
LEMMA QuarterCeil ==
  ASSUME NEW n \in Nat
  PROVE  CeilDiv(n, 4) = Quarter(n)
<1>1. PICK q : q = Quarter(n)
  OBVIOUS
<1>2. q \in Nat /\ \A t \in Int : t < q <=> 4 * t < n
  BY <1>1, QuarterIs
<1>3. ~(4 * q < n) /\ (q > 0 => 4 * (q - 1) < n)
  <2>1. q \in Int /\ q - 1 \in Int /\ q - 1 < q /\ ~(q < q)
    BY <1>2
  <2> QED BY <1>2, <2>1
<1>4. (n + 4 - 1) \div 4 = q
  <2>1. PICK x : x = n + 3
    OBVIOUS
  <2>2. x \in Nat /\ x = n + 4 - 1
    BY <2>1
  <2>3. PICK p : p = x \div 4
    OBVIOUS
  <2>4. p \in Nat /\ p * 4 <= x /\ x < p * 4 + 4
    BY <2>2, <2>3, Division
  <2>5. p = q
    BY <1>2, <1>3, <2>1, <2>4
  <2> QED BY <2>2, <2>3, <2>5
<1> QED BY <1>1, <1>4 DEF CeilDiv

LEMMA FramesCounted ==
  ASSUME SpeechAssumption, AgreementAssumption, NEW n \in Nat
  PROVE  LET mask == Features(n).mask
         IN /\ Rows(mask) \in 0 .. MelFrames
            /\ n > PadLeft /\ MaxSamples > PadLeft => Rows(mask) > 0 /\ mask[0] /\ Valids(mask) > 0
<1>1. /\ Hop \in Nat \ {0} /\ FrameLength \in Nat \ {0} /\ PadMultiple \in Nat \ {0} /\ MaxSamples \in Nat \ {0}
      /\ FrameLength = 2 * PadLeft /\ MelFrames \in Nat
      /\ (PadLeft + CeilDiv(MaxSamples, PadMultiple) * PadMultiple - (FrameLength + 1)) \div Hop < MelFrames
  BY DEF SpeechAssumption, AgreementAssumption
<1>2. PadLeft \in Nat
  <2>1. FrameLength \div 2 \in Nat
    BY <1>1, Division
  <2> QED BY <2>1 DEF PadLeft
<1>3. PICK real : real = Min({n, MaxSamples})
  OBVIOUS
<1>4. real \in Nat /\ real <= MaxSamples /\ (n > PadLeft /\ MaxSamples > PadLeft => real > PadLeft)
  <2>1. n \in Int /\ MaxSamples \in Int
    BY <1>1
  <2>2. real = IF n <= MaxSamples THEN n ELSE MaxSamples
    BY <1>3, <2>1, MinOfTwo
  <2> QED BY <1>1, <1>2, <2>2
<1>5. PICK a, b : a = CeilDiv(real, PadMultiple) * PadMultiple /\ b = CeilDiv(MaxSamples, PadMultiple) * PadMultiple
  OBVIOUS
<1>6. a \in Nat /\ b \in Nat /\ a <= b /\ real <= a
  <2>1. PICK x, y : x = CeilDiv(real, PadMultiple) /\ y = CeilDiv(MaxSamples, PadMultiple)
    OBVIOUS
  <2>2. x \in Nat /\ y \in Nat /\ x <= y
    BY <1>1, <1>4, <2>1, CeilDivGrows
  <2>3. x * PadMultiple <= y * PadMultiple
    BY <1>1, <2>2
  <2>4. x * PadMultiple \in Nat /\ y * PadMultiple \in Nat
    BY <1>1, <2>2
  <2>5. real <= x * PadMultiple
    BY <1>1, <1>4, <2>1, CeilDivReaches
  <2> QED BY <1>5, <2>1, <2>3, <2>4, <2>5
<1>7. PICK length, unfold : length = PadLeft + a /\ unfold = FrameLength + 1
  OBVIOUS
<1>8. PICK frames : frames = IF length >= unfold THEN (length - unfold) \div Hop + 1 ELSE 0
  OBVIOUS
<1>9. length \in Nat /\ unfold \in Nat
  BY <1>1, <1>2, <1>6, <1>7
<1>10. frames \in 0 .. MelFrames /\ (length >= unfold => frames > 0)
  <2>1. CASE length >= unfold
    <3>1. PICK x, y : x = length - unfold /\ y = PadLeft + b - (FrameLength + 1)
      OBVIOUS
    <3>2. x \in Nat /\ y \in Nat /\ x <= y
      BY <1>2, <1>6, <1>7, <1>9, <2>1, <3>1
    <3>3. x \div Hop \in Nat /\ y \div Hop \in Nat /\ x \div Hop <= y \div Hop
      BY <1>1, <3>2, QuotientGrows
    <3>4. y \div Hop < MelFrames
      BY <1>1, <1>5, <3>1
    <3>5. PICK p, q : p = x \div Hop /\ q = y \div Hop
      OBVIOUS
    <3>6. frames = p + 1
      BY <1>8, <2>1, <3>1, <3>5
    <3> QED BY <1>1, <3>3, <3>4, <3>5, <3>6
  <2>2. CASE ~(length >= unfold)
    BY <1>1, <1>8, <2>2
  <2> QED BY <2>1, <2>2
<1>11. PICK mask : mask = Features(n).mask
  OBVIOUS
<1>12. mask = [f \in 0 .. frames - 1 |->
                 f * Hop + unfold - 1 >= PadLeft /\ (f * Hop + unfold - 1) - PadLeft < real]
  BY <1>3, <1>5, <1>7, <1>8, <1>11 DEF Features
<1>13. Rows(mask) = frames
  <2>1. DOMAIN mask = 0 .. frames - 1
    BY <1>12
  <2>2. frames \in Nat
    BY <1>1, <1>10
  <2>3. Cardinality(0 .. frames - 1) = frames
    BY ONLY <2>2, FS_Interval
  <2> QED BY <2>1, <2>3 DEF Rows
<1>14. ASSUME n > PadLeft, MaxSamples > PadLeft PROVE frames > 0 /\ mask[0] /\ Valids(mask) > 0
  <2>1. real > PadLeft /\ length >= unfold
    BY <1>1, <1>2, <1>4, <1>6, <1>7, <1>14
  <2>2. frames > 0 /\ frames \in Nat
    BY <1>1, <1>10, <2>1
  <2>3. 0 \in 0 .. frames - 1
    BY <2>2
  <2>4. PICK z : z = 0 * Hop
    OBVIOUS
  <2>5. z = 0
    BY <1>1, <2>4
  <2>6. z + unfold - 1 >= PadLeft /\ (z + unfold - 1) - PadLeft < real
    BY <1>1, <1>2, <1>4, <1>7, <2>1, <2>5
  <2>7. mask[0]
    BY <1>12, <2>3, <2>4, <2>6
  <2>8. Masked(mask, Rows(mask), Valids(mask))
    BY <1>11, FeaturesMasked
  <2>9. Valids(mask) \in Nat /\ \A f \in 0 .. frames - 1 : mask[f] <=> f < Valids(mask)
    BY <1>13, <2>8, RowsMasked
  <2> QED BY <2>2, <2>3, <2>7, <2>9
<1> QED BY <1>10, <1>11, <1>13, <1>14

(* coreml_backend.py counts the frames of a clip in its own way.           *)
LEMMA CoremlCounts ==
  ASSUME SpeechAssumption, AgreementAssumption, NEW n \in PadLeft + 1 .. CoremlSamples
  PROVE  LET valid == (PadLeft + n - (FrameLength + 1)) \div Hop + 1
         IN valid \in Nat \ {0} /\ valid <= CoremlSamples \div Hop /\ CoremlSamples \div Hop \in Nat
<1>1. /\ Hop \in Nat \ {0} /\ FrameLength \in Nat \ {0} /\ CoremlSamples \in Nat
      /\ FrameLength = 2 * PadLeft /\ PadLeft + Hop <= FrameLength + 1
  BY DEF SpeechAssumption, AgreementAssumption
<1>2. PadLeft \in Nat
  <2>1. FrameLength \div 2 \in Nat
    BY <1>1, Division
  <2> QED BY <2>1 DEF PadLeft
<1>3. PICK x : x = PadLeft + n - (FrameLength + 1)
  OBVIOUS
<1>4. x \in Nat /\ x + Hop <= n /\ n \in Nat /\ n <= CoremlSamples
  BY <1>1, <1>2, <1>3
<1>5. PICK p, q : p = x \div Hop /\ q = CoremlSamples \div Hop
  OBVIOUS
<1>6. p \in Nat /\ p * Hop <= x /\ q \in Nat /\ CoremlSamples < q * Hop + Hop
  BY <1>1, <1>4, <1>5, Division
<1>7. (p + 1) * Hop < (q + 1) * Hop
  <2>1. (p + 1) * Hop = p * Hop + Hop /\ (q + 1) * Hop = q * Hop + Hop /\ p * Hop \in Nat /\ q * Hop \in Nat
    BY <1>1, <1>6
  <2> QED BY <1>1, <1>4, <1>6, <2>1
<1>8. p + 1 < q + 1
  <2>1. p + 1 \in Int /\ q + 1 \in Int
    BY <1>6
  <2> QED BY <1>1, <1>7, <2>1, Cancel
<1> QED BY <1>3, <1>5, <1>6, <1>8
===============================================================================
