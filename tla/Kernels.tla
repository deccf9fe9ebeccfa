--------------------------------- MODULE Kernels ---------------------------------
(***************************************************************************)
(* The reductions of crates/vqtrs-core/src/embedding_gemma2/torch_cpu.rs   *)
(* and layer_norm.rs.  They follow the order of PyTorch's kernels: lanes,  *)
(* interleaved accumulators, cascades that flush and tails.  A sum is the  *)
(* sequence of what has been added, so that a term lost or added twice is  *)
(* seen; the rounding of each addition is left out.                        *)
(***************************************************************************)
EXTENDS Integers, Sequences, FiniteSetsExt, SequencesExt

CONSTANTS
  Lanes,         \* LANES (4)
  Levels,        \* LEVELS of a cascade (4)
  MinPower,      \* the least level_power (4)
  Ilp,           \* ILP of row_sum (4)
  ChunkVectors   \* CHUNK_VECTORS (16)

ASSUME KernelAssumption ==
  /\ {Lanes, MinPower, Ilp, ChunkVectors} \subseteq Nat \ {0}
  /\ Levels \in Nat \ {0, 1}

(* What is at positions 0, 1, ... n - 1, in order.                         *)
UpTo(n) == [i \in 1 .. n |-> i - 1]

(* Every `by`-th of the terms from `first` on, n of them.                  *)
Stride(terms, first, by, n) == [i \in 1 .. n |-> terms[(i - 1) * by + first]]

(* 1 << n.                                                                 *)
TwoTo(n) ==
  LET double[i \in 0 .. n] == IF i = 0 THEN 1 ELSE 2 * double[i - 1]
  IN double[n]

CeilLog2(x) == IF x <= 2 THEN 1 ELSE CHOOSE p \in 1 .. x : TwoTo(p) >= x /\ TwoTo(p - 1) < x

(* Mutant: the lower levels keep what they have handed on.                 *)
FlushKept(acc, d) ==
  [j \in DOMAIN acc |->
    IF j = d THEN FlattenSeq([m \in 1 .. d + 1 |-> acc[d + 1 - m]]) ELSE acc[j]]

(* Levels 0 to d - 1 are handed on to level d and start again.             *)
Flush(acc, d) ==
  [j \in DOMAIN acc |->
    IF j < d THEN <<>>
    ELSE IF j = d THEN FlattenSeq([m \in 1 .. d + 1 |-> acc[d + 1 - m]])
    ELSE acc[j]]

Empty(levels) == [j \in 0 .. levels - 1 |-> <<>>]
Total(acc)    == FlattenSeq([m \in 1 .. Cardinality(DOMAIN acc) |-> acc[m - 1]])

(* One accumulator of multi_row_sum.  After each step of 2^p terms it      *)
(* flushes up to the first level that is not full.                         *)
Cascade(terms) ==
  LET p     == Max({MinPower, CeilLog2(Len(terms)) \div Levels})
      step  == TwoTo(p)
      steps == Len(terms) \div step
      open(i) == {j \in 1 .. Levels - 1 : (i \div TwoTo(j * p)) % step # 0}
      acc[b \in 0 .. steps] ==
        IF b = 0 THEN Empty(Levels)
        ELSE Flush([acc[b - 1] EXCEPT ![0] = @ \o SubSeq(terms, (b - 1) * step + 1, b * step)],
                   Min(open(b * step) \cup {Levels - 1}))
  IN Total([acc[steps] EXCEPT ![0] = @ \o SubSeq(terms, steps * step + 1, Len(terms))])

(* row_sum: every Ilp-th term to the same accumulator, the rest to the first. *)
RowSum(terms) ==
  LET size == Len(terms) \div Ilp
      partial(q) == Cascade(Stride(terms, q, Ilp, size))
  IN partial(1) \o SubSeq(terms, size * Ilp + 1, Len(terms))
       \o FlattenSeq([q \in 1 .. Ilp - 1 |-> partial(q + 1)])

(* sum_row: whole vectors lane by lane, after a scalar tail.               *)
SumRow(terms) ==
  LET vecs == Len(terms) \div Lanes
  IN IF vecs = 0 THEN RowSum(terms)
     ELSE SubSeq(terms, vecs * Lanes + 1, Len(terms))
            \o FlattenSeq([l \in 1 .. Lanes |-> RowSum(Stride(terms, l, Lanes, vecs))])

(* sum_cols, for column c of a matrix of `cols` columns: blocks of four    *)
(* vectors have an accumulator each, what is left has row_sum.             *)
SumCol(terms, cols, c) ==
  IF c < (cols \div (4 * Lanes)) * (4 * Lanes) THEN Cascade(terms) ELSE RowSum(terms)

(* reduce_all: lanes, each with what is left for it after the last whole   *)
(* vector, then their fold.                                                *)
ReduceAll(terms) ==
  IF Len(terms) < Lanes THEN terms
  ELSE FlattenSeq([l \in 1 .. Lanes |-> Stride(terms, l, Lanes, (Len(terms) - l) \div Lanes + 1)])

(* l2_norm_row: lanes, then what is left.                                  *)
NormRow(terms) ==
  LET vecs == Len(terms) \div Lanes
  IN FlattenSeq([l \in 1 .. Lanes |-> Stride(terms, l, Lanes, vecs)])
       \o SubSeq(terms, vecs * Lanes + 1, Len(terms))

(* rowwise_moments: chunks of vectors merge in a stack as a binary counter *)
(* does; the scalar tail comes before the lanes.                           *)
Moments(terms) ==
  LET vecs   == Len(terms) \div Lanes
      chunks == (vecs + ChunkVectors - 1) \div ChunkVectors
      depth  == CeilLog2(chunks)
      open(i)  == {j \in 0 .. depth - 1 : (i \div TwoTo(j)) % 2 # 0}
      chunk(b) == SubSeq(UpTo(vecs), b * ChunkVectors + 1, Min({vecs, (b + 1) * ChunkVectors}))
      stack[b \in 0 .. chunks] ==
        IF b = 0 THEN Empty(depth)
        ELSE Flush([stack[b - 1] EXCEPT ![0] = @ \o chunk(b - 1)], Min(open(b) \cup {depth - 1}))
      merged == Total(stack[chunks])
  IN SubSeq(terms, vecs * Lanes + 1, Len(terms))
       \o FlattenSeq([l \in 1 .. Lanes |->
            [i \in DOMAIN merged |-> terms[merged[i] * Lanes + l]]])
===============================================================================
