------------------------------ MODULE Numeric ------------------------------
(***************************************************************************)
(* Number formats (c/num.h and their vector forms in c/x86.h and           *)
(* c/fp8blk.h) and the sampler (c/sample.h).  Values are exact integers    *)
(* in a small unit.  The wide format a value is narrowed from keeps its    *)
(* structure and the narrow format its real width where a code is checked  *)
(* value by value: an E4M3 code has its eight bits, the FP32 it comes from *)
(* has MB mantissa bits instead of 23.                                     *)
(***************************************************************************)
EXTENDS Integers, Sequences, SequencesExt, FiniteSetsExt

CONSTANTS
    MB,     \* mantissa bits of the FP32 an E4M3 code is made from
    EB,     \* exponent bits of the float that is narrowed to BF16
    HB,     \* mantissa bits BF16 keeps
    LB      \* mantissa bits it drops

ASSUME NumericAssumption == MB \in 4..6 /\ EB \in 2..4 /\ HB \in 1..4 /\ LB \in 2..4

Dist(x, y) == IF x < y THEN y - x ELSE x - y

\* The codes of a format nearest to x by value; of two, the even one.
NearestEven(x, Codes, Val(_)) ==
    LET best == {c \in Codes : \A d \in Codes : Dist(x, Val(c)) <= Dist(x, Val(d))}
    IN  IF Cardinality(best) = 1 THEN best ELSE {c \in best : c % 2 = 0}

-----------------------------------------------------------------------------
(* E4M3                                                                    *)

\* Regression: ties are rounded up.
ShiftUp(m, sh) == (m + 2^(sh - 1)) \div 2^sh

\* m >> sh, rounded to the nearest, ties to even.
RneShift(m, sh) ==
    LET half == 2^(sh - 1)  r == m % 2^sh  v == m \div 2^sh
    IN  IF r > half \/ (r = half /\ v % 2 = 1) THEN v + 1 ELSE v

\* A float of the format: 1.m * 2^e.  All that matters of an FP32 below
\* 2^-13, zero and subnormals included, is that it is there.
Floats == [e : -14..10, m : 0..2^MB - 1]

\* The finite values are clamped to 448 = 1.75 * 2^8 first.
Clamped(x) == IF x.e > 8 \/ (x.e = 8 /\ x.m > 3 * 2^(MB - 2))
              THEN [e |-> 8, m |-> 3 * 2^(MB - 2)] ELSE x

\* apus_e4m3_quant_f32 without the sign, which is carried over unread.
Quant(y) ==
    LET x == Clamped(y)  mant == 2^MB + x.m IN
    IF x.e >= -6
    THEN LET v == RneShift(mant, MB - 3)
             e == IF v = 16 THEN x.e + 1 ELSE x.e
         IN  IF e > 8 THEN 126 ELSE (e + 7) * 8 + (v % 8)
    ELSE IF x.e >= -10 THEN RneShift(mant, MB - 9 - x.e)
    ELSE 0

\* Values in units of 2^-(14+MB).
FloatValue(x) == (2^MB + x.m) * 2^(x.e + 14)

\* apus_e4m3_dequant_f32; 127 is read as 480.
Dequant(c) ==
    LET e == c \div 8  m == c % 8
    IN  2^(MB + 5) * (IF e = 0 THEN m ELSE (8 + m) * 2^(e - 1))

\* The bits of the code moved to those of an FP16, which is read and scaled
\* by 256: an FP16 of exponent 0 is a subnormal of the unit 2^-24.
ExpandF16(c) ==
    LET h == c * 2^7  e == h \div 2^10  m == h % 2^10
    IN  2^(MB - 2) * (IF e = 0 THEN m ELSE (2^10 + m) * 2^(e - 1))

\* The FP32 bits put together: exponent e + 120, mantissa m << 20; a subnormal
\* code is the integer m times 2^-9.
ExpandInt(c) ==
    LET e == c \div 8  m == c % 8  field == e + 120
    IN  IF e = 0 THEN m * 2^(MB + 5)
        ELSE (2^3 + m) * 2^(field - 127 + 14 + MB - 3)

\* A float becomes the nearest finite code, and both vector forms expand a code
\* to what the scalar form makes of it (c/num.h:107-140, c/x86.h:87-131).
CodesAreNearest(x) ==
    /\ {Quant(x)} = NearestEven(FloatValue(Clamped(x)), 0..126, Dequant)
    /\ \A c \in 0..127 : ExpandF16(c) = Dequant(c) /\ ExpandInt(c) = Dequant(c)

-----------------------------------------------------------------------------
(* BF16, over a float of 1 + EB + HB + LB bits                             *)

Infinity == (2^EB - 1) * 2^(HB + LB)
SignBit  == 2^(EB + HB + LB)
Patterns == 0..2 * SignBit - 1

\* apus_bf16_bits: half of the dropped range, or a hair less, is added to the
\* integer; a NaN only loses its low bits.
Bits(u) == IF u % SignBit > Infinity THEN u \div 2^LB
           ELSE (u + (2^(LB - 1) - 1) + ((u \div 2^LB) % 2)) \div 2^LB

\* Eight lanes: every lane computes both, a mask chooses; pack doubles each
\* half of the register, the permutation of 64-bit blocks undoes it.
Narrow8(in) ==
    LET r      == [i \in 1..8 |-> Bits(in[i])]
        pack   == <<SubSeq(r, 1, 4), SubSeq(r, 1, 4), SubSeq(r, 5, 8), SubSeq(r, 5, 8)>>
        d8     == <<0, 2, 1, 3>>
        blocks == [i \in 1..4 |-> pack[d8[i] + 1]]
    IN  blocks[1] \o blocks[2]

\* The magnitude of a pattern of the wide format; infinity continues the grid.
Magnitude(u) ==
    LET e == u \div 2^(HB + LB)  m == u % 2^(HB + LB)
    IN  IF e = 0 THEN m ELSE (2^(HB + LB) + m) * 2^(e - 1)

\* A number is narrowed to the nearest BF16 of its sign, up to infinity, in
\* every lane of the vector form too (c/num.h:153-159, c/x86.h:153-172).
NarrowsToNearest(u) ==
    /\ u % SignBit <= Infinity =>
         {Bits(u) % 2^(EB + HB)} =
           NearestEven(Magnitude(u % SignBit), 0..(2^EB - 1) * 2^HB,
                       LAMBDA c : Magnitude(c * 2^LB))
    /\ Bits(u) \div 2^(EB + HB) = u \div SignBit
    /\ LET in == [i \in 1..8 |-> (u + i) % (2 * SignBit)]
       IN  Narrow8(in) = [i \in 1..8 |-> Bits(in[i])]

-----------------------------------------------------------------------------
(* The sampler: p is a sequence of weights, token t is p[t]                *)

SumOf(p, S) == FoldSet(LAMBDA t, n : p[t] + n, 0, S)

\* The first of the greatest.
Argmax(p) == FoldLeft(LAMBDA best, t : IF p[t] > p[best] THEN t ELSE best,
                      1, [t \in 1..Len(p) |-> t])

\* w stays in front of v.
StaysBefore(p, w, v) == p[w] > p[v] \/ (p[w] = p[v] /\ w < v)

\* One step of the sort: what stands at i moves forward, gap by gap.
Insert(p, ord, gap, i) ==
    LET Passes(s) == i - gap * s >= 1 /\ ~StaysBefore(p, ord[i - gap * s], ord[i])
        far == CHOOSE s \in 0..i : /\ \A r \in 1..s : Passes(r)
                                   /\ ~Passes(s + 1)
    IN  [j \in 1..Len(ord) |->
           IF j = i - gap * far THEN ord[i]
           ELSE IF j > i - gap * far /\ j <= i /\ (i - j) % gap = 0 THEN ord[j - gap]
           ELSE ord[j]]

Gaps(n) == LET halved[g \in 0..n] == IF g = 0 THEN <<>> ELSE <<g>> \o halved[g \div 2]
           IN  halved[n \div 2]

\* Tokens by falling weight.
Order(p) ==
    LET n == Len(p) IN
    FoldLeft(LAMBDA ord, gap :
               FoldLeft(LAMBDA o, i : Insert(p, o, gap, i), ord,
                        [i \in 1..n - gap |-> gap + i]),
             [t \in 1..n |-> t], Gaps(n))

\* apus_sample_top_p_u for top_p = tp / D and the draw u / D: cumulated weights
\* are kept while those before do not exceed top_p.
TopP(p, tp, u, D) ==
    LET n     == Len(p)
        ord   == Order(p)
        total == SumOf(p, 1..n)
        cum[i \in 0..n] == IF i = 0 THEN 0 ELSE cum[i-1] + p[ord[i]]
        nk    == CHOOSE k \in 1..n : /\ \A i \in 1..k : i = 1 \/ cum[i-1] * D <= tp * total
                                     /\ k = n \/ cum[k] * D > tp * total
        hits  == {i \in 1..nk : u * cum[nk] < cum[i] * D}
    IN  ord[IF hits = {} THEN nk ELSE CHOOSE i \in hits : \A j \in hits : i <= j]

\* The token drawn is the one whose share of the nucleus holds u, the nucleus
\* being every token whose better ones weigh at most top_p, the earlier of two
\* equals first; at temperature zero it is the best (c/sample.h:76-132).
DrawsFromNucleus(p, tp, u, D) ==
    LET T         == 1..Len(p)
        Better(t) == {s \in T : p[s] > p[t] \/ (p[s] = p[t] /\ s < t)}
        Ahead(t)  == SumOf(p, Better(t))
        nucleus   == {t \in T : Ahead(t) * D <= tp * SumOf(p, T)}
        drawn     == TopP(p, tp, u, D)
    IN  /\ drawn \in nucleus
        /\ Ahead(drawn) * D <= u * SumOf(p, nucleus)
        /\ u * SumOf(p, nucleus) < (Ahead(drawn) + p[drawn]) * D
        /\ \A t \in T : t = Argmax(p) \/ Argmax(p) \in Better(t)
=============================================================================
