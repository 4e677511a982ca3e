------------------------------ MODULE Kernels ------------------------------
(***************************************************************************)
(* The loop nests of the matrix kernels (c/bf16.h, c/fp8blk.h, c/x86.h and *)
(* the pairwise sum of c/gmhc.h), whose contract is that every instruction *)
(* set and every number of threads produces the bits of the scalar loop.   *)
(* A product is a term <<o, m, k>> (weight row, activation row, column), a *)
(* sum is the sequence of its terms in the order they are added, and what  *)
(* a kernel does is the sequence of its writes [cell, sum].  Rounding is   *)
(* the same in all of them (one per product, one per addition) and is left *)
(* out; indices count from zero as in the code.                            *)
(***************************************************************************)
EXTENDS Integers, Sequences, SequencesExt, FiniteSetsExt

CONSTANTS
    Chunk,  \* APUS_BF16_CHUNK: products staged before they are added
    Vec,    \* elements of one vector step
    Group,  \* APUS_FP8BLK_GROUP: the edge of a scale block
    Block   \* elements a pairwise sum adds without recursion

ASSUME KernelsAssumption ==
    /\ Chunk \in Nat \ {0} /\ Vec \in Nat \ {0} /\ Group \in Nat \ {0}
    /\ Block \in Nat /\ Block >= 16

From(lo, n) == [i \in 1..n |-> lo + i - 1]

\* for (; i + w <= n; i += w) ...; for (; i < n; i++) ...: the order of i.
Strided(n, w) == FlattenSeq([c \in 1..n \div w |-> From((c - 1) * w, w)])
                 \o From(n - (n % w), n % w)

\* One output: staged chunks, then single products.
Dot(o, m, K, w) ==
    LET ks == Strided(K, w) IN [i \in 1..Len(ks) |-> <<o, m, ks[i]>>]

-----------------------------------------------------------------------------
(* BF16 rows                                                               *)

\* Rows [o0, o1) by groups of eight, four and one: [first row, rows].
RowGroups(o0, o1) ==
    LET n == o1 - o0 IN
      [g \in 1..n \div 8 |-> [at |-> o0 + (g - 1) * 8, rows |-> 8]]
      \o [g \in 1..(n % 8) \div 4 |->
            [at |-> o0 + n - (n % 8) + (g - 1) * 4, rows |-> 4]]
      \o [g \in 1..n % 4 |-> [at |-> o1 - (n % 4) + g - 1, rows |-> 1]]

\* The accumulators of a group advance together and are stored together.
GemvRows(K, o0, o1) ==
    FlattenSeq([g \in 1..Len(RowGroups(o0, o1)) |->
       LET grp == RowGroups(o0, o1)[g] IN
       [r \in 1..grp.rows |-> [cell |-> <<0, grp.at + r - 1>>,
                               sum  |-> Dot(grp.at + r - 1, 0, K, Chunk)]]])

\* Activation rows by fours, each group through all the rows of weights; what
\* is left of them one by one.
GemmRows(M, K, o0, o1) ==
    LET fours == M \div 4 IN
    FlattenSeq([g \in 1..fours |-> FlattenSeq([i \in 1..o1 - o0 |->
       [r \in 1..4 |-> [cell |-> <<(g - 1) * 4 + r - 1, o0 + i - 1>>,
                        sum  |-> Dot(o0 + i - 1, (g - 1) * 4 + r - 1, K, Chunk)]]])])
    \o FlattenSeq([r \in 1..M % 4 |-> [i \in 1..o1 - o0 |->
       [cell |-> <<fours * 4 + r - 1, o0 + i - 1>>,
        sum  |-> Dot(o0 + i - 1, fours * 4 + r - 1, K, Chunk)]]])

\* The scalar rows of the threaded form: no staging, no groups.
ScalarRows(M, K, o0, o1) ==
    FlattenSeq([m \in 1..M |-> [i \in 1..o1 - o0 |->
       [cell |-> <<m - 1, o0 + i - 1>>, sum |-> Dot(o0 + i - 1, m - 1, K, 1)]]])

\* apus_pool_run: the lanes' shares of n rows (c/pool.h:153-166).
Lanes(n, threads) ==
    LET T    == IF threads <= 1 \/ n < 2 THEN 1 ELSE IF threads > n THEN n ELSE threads
        Lo(i) == (i - 1) * (n \div T) + (IF i - 1 < n % T THEN i - 1 ELSE n % T)
    IN  [i \in 1..T |-> [lo |-> Lo(i), hi |-> Lo(i + 1)]]

\* The activations are widened before any lane starts.
Widened(M, K, w) == FlattenSeq([m \in 1..M |->
    [i \in 1..K |-> (m - 1) * K + Strided(K, w)[i]]])

\* The threaded product; isa is "neon", "avx2" or "scalar".  A device that
\* fails leaves the output as it found it or half written, and the CPU writes
\* all of it.
GemmMt(isa, device, M, O, K, threads) ==
    LET lanes == Lanes(O, threads)
        Rows(l) == IF isa = "scalar" THEN ScalarRows(M, K, l.lo, l.hi)
                   ELSE IF M = 1 THEN GemvRows(K, l.lo, l.hi)
                   ELSE GemmRows(M, K, l.lo, l.hi)
    IN  IF device = "done" THEN ScalarRows(M, K, 0, O)
        ELSE FlattenSeq([i \in 1..Len(lanes) |-> Rows(lanes[i])])

-----------------------------------------------------------------------------
(* Block-scaled FP8 rows, and the helpers of x86                           *)

\* What is stored at (o, k): a code times the scale of its block.
FpRows(isa, K, o0, o1) ==
    LET nkb == (K + Group - 1) \div Group
        Cols(kb) == LET lo == kb * Group
                        hi == IF lo + Group > K THEN K ELSE lo + Group
                    IN  [i \in 1..hi - lo |->
                           lo + Strided(hi - lo, IF isa = "scalar" THEN 1 ELSE Vec)[i]]
    IN  FlattenSeq([i \in 1..o1 - o0 |-> FlattenSeq([b \in 1..nkb |->
          [j \in 1..Len(Cols(b - 1)) |->
             LET o == o0 + i - 1  k == Cols(b - 1)[j] IN
             [cell |-> <<o, k>>,
              sum  |-> <<o * K + k, (o \div Group) * nkb + b - 1>>]]])])

DequantMt(isa, O, K, threads) ==
    LET lanes == Lanes(O, threads)
    IN  FlattenSeq([i \in 1..Len(lanes) |-> FpRows(isa, K, lanes[i].lo, lanes[i].hi)])

\* Four dot products at once, products staged eight wide.
Dot4(n) == [r \in 1..4 |-> Dot(r, r, n, 8)]

\* numpy's pairwise sum of a[lo .. lo + n): eight accumulators, a tree, a rest.
RECURSIVE PwSum(_, _)
PwSum(lo, n) ==
    IF n < 8 THEN From(lo, n)
    ELSE IF n <= Block
    THEN LET acc == [j \in 1..8 |-> [s \in 1..n \div 8 |-> lo + (s - 1) * 8 + j - 1]]
         IN  FlattenSeq(acc) \o From(lo + n - (n % 8), n % 8)
    ELSE LET n2 == n \div 2 - ((n \div 2) % 8)
         IN  PwSum(lo, n2) \o PwSum(lo + n2, n - n2)

-----------------------------------------------------------------------------
(* The contract                                                            *)

\* Every cell is written once and holds Sum(cell).
Exactly(writes, Cells, Sum(_)) ==
    /\ Len(writes) = Cardinality(Cells)
    /\ {w.cell : w \in ToSet(writes)} = Cells
    /\ \A w \in ToSet(writes) : w.sum = Sum(w.cell)

\* Whatever the instruction set, the number of threads, a device that gives up
\* and the shape, every output is written once, from its own rows, its products
\* added in ascending order like the scalar loop's, and the widening and the
\* four-way dot pass every element in order (c/bf16.h:187-769, c/x86.h:184-259).
GemmIsTheAnchor(M, O, K, threads) ==
    /\ \A isa \in {"neon", "avx2", "scalar"}, device \in {"done", "failed"} :
         Exactly(GemmMt(isa, device, M, O, K, threads), (0..M-1) \X (0..O-1),
                 LAMBDA c : [k \in 1..K |-> <<c[2], c[1], k - 1>>])
    /\ Widened(M, K, 8) = From(0, M * K)
    /\ \A r \in 1..4 : Dot4(K)[r] = [k \in 1..K |-> <<r, r, k - 1>>]

\* Every weight is multiplied with the scale of its own block, on every path
\* and for any number of threads (c/fp8blk.h:115-317).
DequantIsTheAnchor(O, K, threads) ==
    \A isa \in {"neon", "avx2", "scalar"} :
      Exactly(DequantMt(isa, O, K, threads), (0..O-1) \X (0..K-1),
              LAMBDA c : <<c[1] * K + c[2],
                           (c[1] \div Group) * ((K + Group - 1) \div Group)
                             + (c[2] \div Group)>>)

\* The pairwise sum adds every element once (c/gmhc.h:165-186).
SumsEachOnce(n) == Len(PwSum(0, n)) = n /\ ToSet(PwSum(0, n)) = 0..n-1
=============================================================================
