---------------------------- MODULE ForwardProofs ----------------------------
(***************************************************************************)
(* Proofs about a forward, for every architecture, vocabulary, length of a *)
(* batch and of a chunk, and every number of experts: what a chunk reads   *)
(* was resolved for it and is still held (ViewsResolved), what the cache   *)
(* holds of a layer is bounded by the chunk (LiveUnionBounded), and every  *)
(* row a call returns is the model's (RowsAreTheModels).                   *)
(*                                                                         *)
(* The kernels are parameters of the model.  What the proofs assume of     *)
(* them is that scores can be compared: those of the router are numbers,   *)
(* and so are those of the pools, none of which is below the one that a    *)
(* pool out of sight has.                                                  *)
(***************************************************************************)
EXTENDS Forward, FiniteSetTheorems, WellFoundedInduction, TLAPS

Scores == \A xt : \A lr \in Layers, e \in Ids : Gate(lr, xt, e) \in Int

Shaped ==
    /\ tiered \in BOOLEAN /\ chunk \in Nat /\ pilotK \in Int
    /\ l \in Layers /\ t0 \in Nat /\ faults \in Nat
    /\ ids \in Seq(Tokens) /\ Len(ids) <= MaxBatch
    /\ pc \in {"attention", "mlp", "resolve"} => DOMAIN h = 1 .. Len(ids)
    /\ views \in [Ids -> Layers \cup {Null}]
    /\ live \in [Layers -> SUBSET Ids] /\ marked \subseteq Ids

\* What a chunk resolves is the union of what its tokens route to, and the
\* cache holds it; an expert that has a view has it for this layer.
Resolving ==
    pc = "resolve" =>
        /\ tiered /\ Sparse(l)
        /\ marked = ChunkUnion(l, {x[t] : t \in ChunkTokens})
        /\ marked \subseteq live[l]
        /\ \A e \in Ids : views[e] # Null => views[e] = l /\ e \in live[l]

\* What the pilot hinted is an entry of a sparse layer's working set.
HintsRight ==
    \A hint \in hints :
        /\ tiered /\ hint \in Layers \X Ids
        /\ Sparse(hint[1]) /\ hint[2] \in live[hint[1]]

\* The entries of a layer that are there without a hint, and those of them
\* that the chunk asked for.
Own(i)   == live[i] \ Hinted(i)
Taken(i) == IF pc = "resolve" /\ i = l THEN marked ELSE {}

\* Of a layer the cache holds what calls that failed left there, and, in the
\* middle of a chunk, some of what the chunk marked.
Holding ==
    \A i \in Layers : \E old \in SUBSET Ids :
        /\ Cardinality(old) <= faults * ChunkShare
        /\ Own(i) \subseteq old \cup Taken(i)

\* The layers that may hold what this call hinted for them: the one the call
\* is in, until its layer_end, and behind the hook the next one.
Fresh(i) == IF \/ pc = "attention" /\ i = l
               \/ pc \in {"mlp", "resolve"} /\ i \in {l, l + 1}
            THEN 1 ELSE 0

\* The hints of a layer: those of this call, those that calls which failed
\* left there, and those whose loads are late.
HintsFew ==
    \A i \in Layers :
        Cardinality(Hinted(i)) <= (faults + Fresh(i)) * PilotShare + Backlog

ForwardInv == Shaped /\ Resolving /\ HintsRight /\ Holding /\ HintsFew

----------------------------------------------------------------------------
(***************************************************************************)
(* The selection: k passes of an argmax find the k best.                   *)
(***************************************************************************)

\* i comes before j: a higher score, or the same and the lower index.
Before(row, i, j) == row[i] > row[j] \/ (row[i] = row[j] /\ i <= j)

\* What one pass adds to those that were found.
Best(row, used) ==
    CHOOSE i \in DOMAIN row \ used :
        \A j \in DOMAIN row \ used : row[i] > row[j] \/ (row[i] = row[j] /\ i <= j)

\* A set that has 0, and n + 1 with each n, has every natural number.
LEMMA NatSet ==
    ASSUME NEW T, 0 \in T, \A n \in Nat : n \in T => n + 1 \in T
    PROVE  Nat \subseteq T
<1>1. SUFFICES ASSUME Nat \ T # {}
               PROVE  FALSE
    OBVIOUS
<1>2. IsWellFoundedOn(OpToRel(<, Nat), Nat)
    BY NatLessThanWellFounded
<1>3. PICK m \in Nat \ T : \A y \in Nat \ T : ~(<<y, m>> \in OpToRel(<, Nat))
    BY <1>1, <1>2, WFMin
<1>4. \A y \in Nat \ T : ~(y < m)
    BY <1>3, Zenon DEF OpToRel
<1>5. m # 0
    OBVIOUS
<1>6. m - 1 \in Nat /\ m - 1 \notin Nat \ T
    BY <1>4, <1>5
<1>7. QED
    BY <1>6

\* There is one that comes before all others.
LEMMA HasBest ==
    ASSUME NEW n \in Nat, NEW row \in [0 .. n - 1 -> Int],
           NEW S \in SUBSET (0 .. n - 1), S # {}
    PROVE  \E i \in S : \A j \in S : Before(row, i, j)
<1> DEFINE Has(m) == \A T \in SUBSET (0 .. n - 1) :
                        (\A i \in T : i < m) /\ T # {} =>
                            \E i \in T : \A j \in T : Before(row, i, j)
           H == {m \in Nat : Has(m)}
<1>1. 0 \in H
    <2>1. \A T \in SUBSET (0 .. n - 1) : (\A i \in T : i < 0) => T = {}
        OBVIOUS
    <2>2. QED
        BY <2>1
<1>2. ASSUME NEW m \in Nat, m \in H
      PROVE  m + 1 \in H
    <2>1. SUFFICES ASSUME NEW T \in SUBSET (0 .. n - 1),
                          \A i \in T : i < m + 1, T # {}
                   PROVE  \E i \in T : \A j \in T : Before(row, i, j)
        OBVIOUS
    <2> DEFINE U == T \ {m}
    <2>2. U \in SUBSET (0 .. n - 1) /\ \A i \in U : i < m
        BY <2>1
    <2>3. CASE U = {}
        <3>1. T = {m} /\ m \in 0 .. n - 1
            BY <2>1, <2>3
        <3>2. QED
            BY <3>1 DEF Before
    <2>4. CASE U # {} /\ m \in T
        <3>1. PICK i \in U : \A j \in U : Before(row, i, j)
            BY <1>2, <2>2, <2>4
        <3>2. /\ i \in T /\ i \in Nat /\ i < m /\ m \in 0 .. n - 1
              /\ row[i] \in Int /\ row[m] \in Int
              /\ \A j \in U : j \in Nat /\ row[j] \in Int /\ j < m
            BY <2>1, <2>2, <2>4
        <3>3. CASE Before(row, i, m)
            BY <3>1, <3>2, <3>3
        <3>4. CASE ~Before(row, i, m)
            <4>1. row[m] > row[i]
                BY <3>2, <3>4 DEF Before
            <4>2. \A j \in U : Before(row, m, j)
                BY <3>1, <3>2, <4>1 DEF Before
            <4>3. Before(row, m, m)
                BY <3>2 DEF Before
            <4>4. QED
                BY <2>4, <4>2, <4>3
        <3>5. QED
            BY <3>3, <3>4
    <2>5. CASE U # {} /\ m \notin T
        BY <1>2, <2>2, <2>5
    <2>6. QED
        BY <2>3, <2>4, <2>5
<1>3. n \in H
    <2> HIDE DEF H
    <2>1. QED
        BY <1>1, <1>2, NatSet
<1>4. QED
    BY <1>3

LEMMA BestIs ==
    ASSUME NEW n \in Nat, NEW row \in [0 .. n - 1 -> Int],
           NEW used, ~(0 .. n - 1 \subseteq used)
    PROVE  /\ Best(row, used) \in (0 .. n - 1) \ used
           /\ \A j \in (0 .. n - 1) \ used : Before(row, Best(row, used), j)
<1>1. DOMAIN row = 0 .. n - 1
    OBVIOUS
<1>2. \E i \in (0 .. n - 1) \ used : \A j \in (0 .. n - 1) \ used : Before(row, i, j)
    <2> DEFINE S == (0 .. n - 1) \ used
    <2>1. S \in SUBSET (0 .. n - 1) /\ S # {}
        OBVIOUS
    <2> HIDE DEF S
    <2>2. \E i \in S : \A j \in S : Before(row, i, j)
        BY <2>1, HasBest
    <2>3. QED
        BY <2>2 DEF S
<1>3. QED
    BY <1>1, <1>2 DEF Best, Before

\* After j passes: j entries, all different, and those that were not taken
\* come after them.
Found(row, n, s, j) ==
    /\ s \in Seq(0 .. n - 1) /\ Len(s) = j
    /\ Cardinality(Range(s)) = j
    /\ \A a \in Range(s), b \in (0 .. n - 1) \ Range(s) : Before(row, a, b)

LEMMA RangeIs ==
    ASSUME NEW D, NEW s \in Seq(D), NEW e \in D
    PROVE  /\ Range(s) \subseteq D /\ IsFiniteSet(Range(s))
           /\ Range(Append(s, e)) = Range(s) \cup {e}
<1>1. Range(s) = {s[i] : i \in 1 .. Len(s)}
    BY DEF Range
<1>2. IsFiniteSet(1 .. Len(s))
    BY FS_Interval
<1>3. IsFiniteSet(Range(s))
    <2> DEFINE f == [i \in 1 .. Len(s) |-> s[i]]
    <2>1. f \in Surjection(1 .. Len(s), Range(s))
        BY <1>1 DEF Surjection
    <2>2. QED
        BY <1>2, <2>1, FS_Surjection
<1>4. Range(s) \subseteq D
    BY <1>1
<1>5. Range(Append(s, e)) = {Append(s, e)[i] : i \in 1 .. Len(s) + 1}
    BY DEF Range
<1>6. QED
    BY <1>1, <1>3, <1>4, <1>5

LEMMA FoundNext ==
    ASSUME NEW n \in Nat, NEW row \in [0 .. n - 1 -> Int],
           NEW j \in Nat, j < n, NEW s, Found(row, n, s, j)
    PROVE  Found(row, n, Append(s, Best(row, Range(s))), j + 1)
<1> DEFINE D == 0 .. n - 1
           b == Best(row, Range(s))
<1>1. s \in Seq(D) /\ Len(s) = j /\ Cardinality(Range(s)) = j
    BY DEF Found
<1>2. IsFiniteSet(D) /\ Cardinality(D) = n
    BY FS_Interval
<1>3. 0 \in D
    OBVIOUS
<1>4. Range(s) \subseteq D /\ IsFiniteSet(Range(s))
    <2> HIDE DEF D
    <2>1. QED
        BY <1>1, <1>3, RangeIs
<1>5. ~(D \subseteq Range(s))
    <2>1. SUFFICES ASSUME D = Range(s)
                   PROVE  FALSE
        BY <1>4
    <2>2. QED
        BY <1>1, <1>2, <2>1
<1>6. /\ b \in D \ Range(s)
      /\ \A i \in D \ Range(s) : Before(row, b, i)
    BY <1>5, BestIs
<1>7. Range(Append(s, b)) = Range(s) \cup {b}
    <2> HIDE DEF D, b
    <2>1. QED
        BY <1>1, <1>6, RangeIs
<1>8. Cardinality(Range(s) \cup {b}) = j + 1
    <2> HIDE DEF b
    <2>1. QED
        BY <1>1, <1>4, <1>6, FS_AddElement
<1>9. Append(s, b) \in Seq(D) /\ Len(Append(s, b)) = j + 1
    <2> HIDE DEF D, b
    <2>1. QED
        BY <1>1, <1>6
<1>10. \A a \in Range(s), i \in D \ Range(s) : Before(row, a, i)
    BY DEF Found
<1>11. Found(row, n, Append(s, b), j + 1)
    <2> HIDE DEF b
    <2>1. QED
        BY <1>6, <1>7, <1>8, <1>9, <1>10 DEF Found
<1>12. QED
    BY <1>11

\* TopKStable finds the k best.
LEMMA TopKIs ==
    ASSUME NEW n \in Nat, NEW row \in [0 .. n - 1 -> Int], NEW k \in 0 .. n
    PROVE  Found(row, n, TopKStable(row, k), k)
<1> DEFINE Passes(g, m) ==
        g = [j \in 0 .. m |-> IF j = 0 THEN <<>>
                              ELSE Append(g[j - 1], Best(row, Range(g[j - 1])))]
           P == {m \in Nat : \E g : Passes(g, m)}
<1>0. k \in Nat /\ k <= n
    OBVIOUS
<1>1. 0 \in P
    <2>1. Passes([j \in 0 .. 0 |-> <<>>], 0)
        OBVIOUS
    <2>2. QED
        BY <2>1
<1>2. ASSUME NEW m \in Nat, m \in P
      PROVE  m + 1 \in P
    <2>1. PICK g : Passes(g, m)
        BY <1>2
    <2> DEFINE f == [j \in 0 .. m + 1 |-> IF j = m + 1
                        THEN Append(g[m], Best(row, Range(g[m]))) ELSE g[j]]
    <2>2. ASSUME NEW j \in 0 .. m + 1
          PROVE  f[j] = IF j = 0 THEN <<>>
                        ELSE Append(f[j - 1], Best(row, Range(f[j - 1])))
        <3>1. CASE j = m + 1
            BY <3>1
        <3>2. CASE j = 0
            BY <2>1, <3>2
        <3>3. CASE j # m + 1 /\ j # 0
            <4>1. j \in 0 .. m /\ j - 1 \in 0 .. m
                BY <3>3
            <4>2. g[j] = Append(g[j - 1], Best(row, Range(g[j - 1])))
                BY <2>1, <3>3, <4>1
            <4>3. f[j] = g[j] /\ f[j - 1] = g[j - 1]
                BY <4>1
            <4>4. QED
                BY <3>3, <4>2, <4>3
        <3>4. QED
            BY <3>1, <3>2, <3>3
    <2>3. Passes(f, m + 1)
        <3>1. f = [j \in 0 .. m + 1 |-> f[j]]
            OBVIOUS
        <3> HIDE DEF f
        <3>2. QED
            BY <2>2, <3>1
    <2>4. QED
        <3> HIDE DEF f, Passes
        <3>1. QED
            BY <2>3
<1>3. k \in P
    <2> HIDE DEF P
    <2>1. QED
        BY <1>0, <1>1, <1>2, NatSet
<1>4. PICK g : Passes(g, k) /\ TopKStable(row, k) = g[k]
    BY <1>3 DEF TopKStable, Best
<1> DEFINE G == {j \in Nat : j <= k => Found(row, n, g[j], j)}
<1>5. 0 \in G
    <2>1. g[0] = <<>>
        BY <1>4
    <2>2. Range(<<>>) = {}
        BY DEF Range
    <2>3. Cardinality({}) = 0
        BY FS_EmptySet
    <2>4. <<>> \in Seq(0 .. n - 1) /\ Len(<<>>) = 0
        OBVIOUS
    <2>5. Found(row, n, <<>>, 0)
        BY <2>2, <2>3, <2>4 DEF Found
    <2>6. QED
        BY <2>1, <2>5
<1>6. ASSUME NEW j \in Nat, j \in G
      PROVE  j + 1 \in G
    <2>1. SUFFICES ASSUME j + 1 <= k
                   PROVE  Found(row, n, g[j + 1], j + 1)
        OBVIOUS
    <2>2. Found(row, n, g[j], j) /\ j < n
        BY <1>6, <2>1
    <2>3. g[j + 1] = Append(g[j], Best(row, Range(g[j])))
        <3>1. j + 1 \in 0 .. k /\ j + 1 # 0 /\ (j + 1) - 1 = j
            BY <1>0, <2>1
        <3>2. g[j + 1] = Append(g[(j + 1) - 1], Best(row, Range(g[(j + 1) - 1])))
            BY <1>4, <3>1
        <3>3. QED
            BY <3>1, <3>2
    <2>4. QED
        BY <2>2, <2>3, FoundNext
<1>7. k \in G
    <2> HIDE DEF G
    <2>1. QED
        BY <1>0, <1>5, <1>6, NatSet
<1>8. QED
    BY <1>4, <1>7

\* Those of a row that come before one of it.
Better(row, n, p) == {q \in 0 .. n - 1 : row[q] > row[p] \/ (row[q] = row[p] /\ q < p)}

BestOf(row, n, k) == {p \in 0 .. n - 1 : Cardinality(Better(row, n, p)) < k}

LEMMA BetterIs ==
    ASSUME NEW n \in Nat, NEW row, NEW p \in 0 .. n - 1
    PROVE  /\ Better(row, n, p) \subseteq 0 .. n - 1
           /\ IsFiniteSet(Better(row, n, p)) /\ Cardinality(Better(row, n, p)) \in Nat
<1>1. Better(row, n, p) \subseteq 0 .. n - 1
    BY DEF Better
<1>2. IsFiniteSet(0 .. n - 1)
    BY FS_Interval
<1>3. IsFiniteSet(Better(row, n, p))
    BY <1>1, <1>2, FS_Subset
<1>4. QED
    BY <1>1, <1>3, FS_CardinalityType

\* TopKStable finds those that have fewer than k better ones.
LEMMA TheBest ==
    ASSUME NEW n \in Nat, NEW row \in [0 .. n - 1 -> Int], NEW k \in 0 .. n
    PROVE  /\ Range(TopKStable(row, k)) = BestOf(row, n, k)
           /\ IsFiniteSet(Range(TopKStable(row, k))) /\ Cardinality(Range(TopKStable(row, k))) = k
           /\ TopKStable(row, k) \in Seq(0 .. n - 1)
<1> DEFINE s == TopKStable(row, k)
           R == Range(s)
<1>1. Found(row, n, s, k) /\ k \in Nat
    BY TopKIs
<1> HIDE DEF s
<1>2. s \in Seq(0 .. n - 1) /\ Cardinality(R) = k
    BY <1>1 DEF Found
<1>3. R \subseteq 0 .. n - 1 /\ IsFiniteSet(R)
    <2> DEFINE D == 0 .. n - 1
    <2> HIDE DEF D
    <2>1. s \in Seq(D)
        BY <1>2 DEF D
    <2>2. CASE D = {}
        <3>1. s = <<>>
            BY <2>1, <2>2
        <3>2. R = {}
            BY <3>1 DEF Range
        <3>3. QED
            BY <3>2, FS_EmptySet
    <2>3. CASE D # {}
        <3>1. PICK e \in D : TRUE
            BY <2>3
        <3>2. R \subseteq D /\ IsFiniteSet(R)
            BY <2>1, <3>1, RangeIs
        <3>3. QED
            BY <3>2 DEF D
    <2>4. QED
        BY <2>2, <2>3
<1>4. \A a \in R, b \in (0 .. n - 1) \ R : row[a] > row[b] \/ (row[a] = row[b] /\ a <= b)
    BY <1>1 DEF Found, Before
<1> HIDE DEF R
<1>5. ASSUME NEW p \in R
      PROVE  Cardinality(Better(row, n, p)) < k
    <2>1. Better(row, n, p) \subseteq R \ {p}
        <3>1. SUFFICES ASSUME NEW q \in Better(row, n, p)
                       PROVE  q \in R \ {p}
            OBVIOUS
        <3>2. /\ q \in 0 .. n - 1 /\ p \in 0 .. n - 1 /\ row[q] \in Int /\ row[p] \in Int /\ q # p
              /\ ~(row[p] > row[q]) /\ ~(row[p] = row[q] /\ p <= q)
            BY <1>3, <3>1 DEF Better
        <3>3. QED
            BY <1>4, <3>2
    <2>2. IsFiniteSet(R \ {p}) /\ Cardinality(R \ {p}) = k - 1
        BY <1>2, <1>3, FS_RemoveElement
    <2>3. Cardinality(Better(row, n, p)) <= k - 1
        BY <2>1, <2>2, FS_Subset
    <2>4. p \in 0 .. n - 1
        BY <1>3
    <2>5. Cardinality(Better(row, n, p)) \in Nat
        BY <2>4, BetterIs
    <2>6. QED
        BY <1>1, <2>3, <2>5
<1>6. ASSUME NEW p \in (0 .. n - 1) \ R
      PROVE  ~(Cardinality(Better(row, n, p)) < k)
    <2>1. R \subseteq Better(row, n, p)
        <3>1. SUFFICES ASSUME NEW a \in R
                       PROVE  a \in Better(row, n, p)
            OBVIOUS
        <3>2. a \in 0 .. n - 1 /\ a # p /\ (row[a] > row[p] \/ (row[a] = row[p] /\ a <= p))
            BY <1>3, <1>4
        <3>3. QED
            BY <3>2 DEF Better
    <2>2. IsFiniteSet(Better(row, n, p)) /\ Cardinality(Better(row, n, p)) \in Nat
        BY BetterIs
    <2>3. k <= Cardinality(Better(row, n, p))
        BY <1>2, <2>1, <2>2, FS_Subset
    <2>4. QED
        BY <1>1, <2>2, <2>3
<1>7. R = BestOf(row, n, k)
    BY <1>3, <1>5, <1>6 DEF BestOf
<1>8. QED
    BY <1>2, <1>3, <1>7 DEF R, s

\* The experts of a token are those that have fewer than TopK better ones.
LEMMA RouteIs ==
    ASSUME Scores, NEW lr \in Layers, NEW xt
    PROVE  /\ Range(Route(lr, xt)) = RefExperts(lr, xt)
           /\ RefExperts(lr, xt) \subseteq Ids
           /\ IsFiniteSet(RefExperts(lr, xt))
           /\ Cardinality(RefExperts(lr, xt)) = TopK
<1> DEFINE row == Biased(lr, xt)
           better(e) == {d \in Ids :
                            \/ Gate(lr, xt, d) > Gate(lr, xt, e)
                            \/ Gate(lr, xt, d) = Gate(lr, xt, e) /\ d < e}
<1>1. /\ E \in Nat /\ TopK \in 0 .. E /\ Ids = 0 .. E - 1
    BY ForwardAssumption DEF ForwardAssumption, Ids
<1>2. row \in [0 .. E - 1 -> Int] /\ \A e \in Ids : row[e] = Gate(lr, xt, e)
    BY <1>1 DEF Scores, Biased
<1>3. \A e \in Ids : Better(row, E, e) = better(e)
    BY <1>1, <1>2 DEF Better
<1>4. RefExperts(lr, xt) = {e \in Ids : Cardinality(better(e)) < TopK}
    BY DEF RefExperts
<1> HIDE DEF row, better
<1>5. RefExperts(lr, xt) = BestOf(row, E, TopK) /\ RefExperts(lr, xt) \subseteq Ids
    BY <1>1, <1>3, <1>4 DEF BestOf
<1>6. /\ Range(TopKStable(row, TopK)) = RefExperts(lr, xt)
      /\ IsFiniteSet(RefExperts(lr, xt)) /\ Cardinality(RefExperts(lr, xt)) = TopK
    <2>1. /\ Range(TopKStable(row, TopK)) = BestOf(row, E, TopK)
          /\ IsFiniteSet(Range(TopKStable(row, TopK)))
          /\ Cardinality(Range(TopKStable(row, TopK))) = TopK
        <3>1. E \in Nat /\ TopK \in 0 .. E /\ row \in [0 .. E - 1 -> Int]
            BY <1>1, <1>2
        <3>2. QED
            BY <3>1, TheBest
    <2>2. QED
        BY <1>5, <2>1
<1>7. QED
    BY <1>1, <1>5, <1>6 DEF row, Route

\* Arithmetic that the provers take in this form.
LEMMA Products ==
    /\ \A k, m \in Nat : k * m \in Nat /\ k * (m + 1) = k * m + k /\ k * 0 = 0
    /\ \A k, c, d \in Nat : c <= d => k * c <= k * d
    /\ \A f, k, m \in Nat : ((f + 1) * k) * m = f * (k * m) + k * m
    /\ \A f, b \in Nat : (f + 1) * b = f * b + b
OBVIOUS

LEMMA LayersAre ==
    Layers = 1 .. L /\ L \in Nat \ {0} /\ 1 \in Layers /\ Null \notin Layers
BY ForwardAssumption DEF ForwardAssumption, Layers, L

LEMMA MinOfTwo ==
    ASSUME NEW a \in Int, NEW b \in Int
    PROVE  Min({a, b}) = IF a <= b THEN a ELSE b
BY DEF Min

LEMMA MaxOfTwo ==
    ASSUME NEW a \in Int, NEW b \in Int
    PROVE  Max({a, b}) = IF a >= b THEN a ELSE b
BY DEF Max

\* The union of c sets of at most k elements each.
Union(f, a, c) == UNION {f[t] : t \in a + 1 .. a + c}

LEMMA UnionOf ==
    ASSUME NEW a \in Nat, NEW c \in Nat, NEW k \in Nat, NEW f,
           \A t \in a + 1 .. a + c : IsFiniteSet(f[t]) /\ Cardinality(f[t]) <= k
    PROVE  IsFiniteSet(Union(f, a, c)) /\ Cardinality(Union(f, a, c)) <= k * c
<1> USE DEF Union
<1> DEFINE U(m) == Union(f, a, m)
           S == {m \in Nat : m <= c => /\ IsFiniteSet(U(m))
                                       /\ Cardinality(U(m)) <= k * m}
<1>1. 0 \in S
    <2>1. U(0) = {}
        OBVIOUS
    <2>2. IsFiniteSet({}) /\ Cardinality({}) = 0
        BY FS_EmptySet
    <2>3. k * 0 = 0
        BY Products
    <2> HIDE DEF U
    <2>4. QED
        BY <2>1, <2>2, <2>3
<1>2. ASSUME NEW m \in Nat, m \in S
      PROVE  m + 1 \in S
    <2> DEFINE R == f[a + m + 1]
    <2>1. SUFFICES ASSUME m + 1 <= c
                   PROVE  IsFiniteSet(U(m + 1)) /\ Cardinality(U(m + 1)) <= k * (m + 1)
        OBVIOUS
    <2>2. IsFiniteSet(R) /\ Cardinality(R) <= k
        <3>1. a + m + 1 \in a + 1 .. a + c
            BY <2>1
        <3>2. QED
            BY <3>1
    <2>3. U(m + 1) = U(m) \cup R
        <3>1. a + 1 .. a + (m + 1) = (a + 1 .. a + m) \cup {a + m + 1}
            OBVIOUS
        <3>2. {f[t] : t \in a + 1 .. a + (m + 1)} = {f[t] : t \in a + 1 .. a + m} \cup {R}
            BY <3>1
        <3>3. QED
            BY <3>2
    <2>4. IsFiniteSet(U(m)) /\ Cardinality(U(m)) <= k * m
        BY <1>2, <2>1
    <2> HIDE DEF U, R
    <2>5. /\ IsFiniteSet(U(m) \cup R)
          /\ Cardinality(U(m) \cup R)
                = Cardinality(U(m)) + Cardinality(R) - Cardinality(U(m) \cap R)
        BY <2>2, <2>4, FS_Union
    <2>6. /\ Cardinality(U(m) \cap R) \in Nat /\ Cardinality(U(m)) \in Nat
          /\ Cardinality(R) \in Nat
        BY <2>2, <2>4, FS_Intersection, FS_CardinalityType
    <2>7. k * (m + 1) = k * m + k /\ k * m \in Nat
        BY Products
    <2>8. \A u, r, i, p \in Nat : u <= p /\ r <= k => u + r - i <= p + k
        OBVIOUS
    <2>9. QED
        BY <2>2, <2>3, <2>4, <2>5, <2>6, <2>7, <2>8
<1>3. c \in S
    <2> HIDE DEF S
    <2>1. QED
        BY <1>1, <1>2, NatSet
<1>4. QED
    BY <1>3

\* Tokens route to at most TopK experts each.
LEMMA UnionIsBounded ==
    ASSUME Scores, NEW lr \in Layers, NEW xs, NEW a \in Nat, NEW c \in Nat
    PROVE  LET U == ChunkUnion(lr, {xs[t] : t \in a + 1 .. a + c}) IN
           /\ U \subseteq Ids /\ IsFiniteSet(U)
           /\ Cardinality(U) <= TopK * c
<1> DEFINE U == ChunkUnion(lr, {xs[t] : t \in a + 1 .. a + c})
           f == [t \in a + 1 .. a + c |-> Range(Route(lr, xs[t]))]
<1>1. TopK \in Nat
    BY ForwardAssumption DEF ForwardAssumption
<1>2. \A t \in a + 1 .. a + c :
            f[t] \subseteq Ids /\ IsFiniteSet(f[t]) /\ Cardinality(f[t]) <= TopK
    BY <1>1, RouteIs
<1>3. U = Union(f, a, c)
    BY DEF ChunkUnion, Union
<1>4. U \subseteq Ids
    BY <1>2, <1>3 DEF Union
<1> HIDE DEF f, U
<1>5. IsFiniteSet(U) /\ Cardinality(U) <= TopK * c
    BY <1>1, <1>2, <1>3, UnionOf
<1>6. QED
    BY <1>4, <1>5 DEF U

----------------------------------------------------------------------------
(***************************************************************************)
(* The chunk.                                                              *)
(***************************************************************************)

LEMMA BoundIs ==
    /\ TopK \in Nat /\ MaxBatch \in Nat
    /\ \A c \in Nat : (IF c > 0 THEN Min({c, MaxBatch}) ELSE MaxBatch) \in Nat
    /\ chunk \in Nat => ChunkShare \in Nat
<1>1. TopK \in Nat /\ MaxBatch \in Nat
    BY ForwardAssumption DEF ForwardAssumption
<1>2. \A c \in Nat : (IF c > 0 THEN Min({c, MaxBatch}) ELSE MaxBatch) \in Nat
    BY <1>1, MinOfTwo
<1>3. chunk \in Nat => ChunkShare \in Nat
    BY <1>1, <1>2, Products DEF ChunkShare
<1>4. QED
    BY <1>1, <1>2, <1>3

\* The experts of the chunk that starts behind t0 are not more than the
\* tokens of a chunk can route to.
LEMMA ChunkIsBounded ==
    ASSUME Scores, Shaped
    PROVE  LET U == ChunkUnion(l, {x[t] : t \in ChunkTokens}) IN
           /\ U \subseteq Ids /\ IsFiniteSet(U)
           /\ Cardinality(U) \in Nat /\ Cardinality(U) <= ChunkShare
<1> DEFINE U == ChunkUnion(l, {x[t] : t \in ChunkTokens})
           top == Min({t0 + ChunkSize, Len(ids)})
           c   == IF top >= t0 THEN top - t0 ELSE 0
           m   == IF chunk > 0 THEN Min({chunk, MaxBatch}) ELSE MaxBatch
<1>1. Len(ids) \in Nat /\ t0 \in Nat /\ chunk \in Nat /\ Len(ids) <= MaxBatch
    BY DEF Shaped
<1>2. TopK \in Nat /\ MaxBatch \in Nat /\ m \in Nat
    BY <1>1, BoundIs
<1>3. ChunkSize \in Nat /\ ChunkSize <= m
    BY <1>1, <1>2, MinOfTwo DEF ChunkSize
<1>4. top \in Nat /\ top <= t0 + ChunkSize
    BY <1>1, <1>3, MinOfTwo
<1> HIDE DEF m
<1>5. c \in Nat /\ c <= m
    <2> HIDE DEF top
    <2>1. QED
        BY <1>1, <1>2, <1>3, <1>4
<1>6. ChunkTokens = t0 + 1 .. t0 + c
    <2>1. ChunkTokens = t0 + 1 .. top
        BY DEF ChunkTokens
    <2> HIDE DEF top
    <2>2. QED
        BY <1>1, <1>4, <2>1
<1> HIDE DEF c
<1>7. U \subseteq Ids /\ IsFiniteSet(U) /\ Cardinality(U) <= TopK * c
    <2> DEFINE V == ChunkUnion(l, {x[t] : t \in t0 + 1 .. t0 + c})
    <2>1. V \subseteq Ids /\ IsFiniteSet(V) /\ Cardinality(V) <= TopK * c
        BY <1>1, <1>5, UnionIsBounded DEF Shaped
    <2>2. U = V
        BY <1>6
    <2> HIDE DEF U, V
    <2>3. QED
        BY <2>1, <2>2
<1>8. TopK * c <= TopK * m /\ TopK * c \in Nat /\ TopK * m \in Nat
    BY <1>2, <1>5, Products
<1>9. Cardinality(U) \in Nat
    BY <1>7, FS_CardinalityType
<1>10. ChunkShare = TopK * m
    BY DEF ChunkShare, m
<1>11. QED
    BY <1>7, <1>8, <1>9, <1>10

\* A step that takes no entry without a hint, but for the chunk.
LEMMA HoldingKept ==
    ASSUME Holding, UNCHANGED <<faults, chunk>>,
           \A i \in Layers : Own(i)' \subseteq (Own(i) \ Taken(i)) \cup Taken(i)'
    PROVE  Holding'
<1>1. ChunkShare' = ChunkShare
    BY DEF ChunkShare
<1>2. ASSUME NEW i \in Layers
      PROVE  \E old \in SUBSET Ids :
                /\ Cardinality(old) <= faults' * ChunkShare'
                /\ Own(i)' \subseteq old \cup Taken(i)'
    <2>1. PICK old \in SUBSET Ids : /\ Cardinality(old) <= faults * ChunkShare
                                   /\ Own(i) \subseteq old \cup Taken(i)
        BY DEF Holding
    <2>2. Own(i)' \subseteq old \cup Taken(i)'
        BY <2>1
    <2>3. QED
        BY <1>1, <2>1, <2>2
<1>3. QED
    BY <1>2 DEF Holding

----------------------------------------------------------------------------
(***************************************************************************)
(* The pilot hints what it predicted.                                      *)
(***************************************************************************)

LEMMA DepthIs ==
    ASSUME pilotK \in Int
    PROVE  /\ PilotDepth \in Int /\ PilotDepth <= PilotRoom /\ PilotDepth <= E
           /\ Min({PilotDepth, E}) = PilotDepth
           /\ Max({PilotDepth, 0}) \in Nat /\ PilotShare \in Nat
           /\ PilotDepth > 0 => PilotDepth \in Nat /\ PilotShare = MaxBatch * PilotDepth
<1>1. PilotRoom \in Nat /\ E \in Nat /\ MaxBatch \in Nat
    BY ForwardAssumption DEF ForwardAssumption
<1>2. PilotDepth \in {pilotK, PilotRoom, E} /\ \A y \in {pilotK, PilotRoom, E} : PilotDepth <= y
    <2> DEFINE S == {pilotK, PilotRoom, E}
    <2>1. \E a \in S : \A y \in S : a <= y
        BY <1>1
    <2>2. Min(S) \in S /\ \A y \in S : Min(S) <= y
        <3> HIDE DEF S
        <3>1. QED
            BY <2>1 DEF Min
    <2>3. QED
        BY <2>2 DEF PilotDepth
<1>3. PilotDepth \in Int /\ PilotDepth <= PilotRoom /\ PilotDepth <= E
    BY <1>1, <1>2
<1>4. Max({PilotDepth, 0}) = IF PilotDepth >= 0 THEN PilotDepth ELSE 0
    BY <1>3, MaxOfTwo
<1>5. Max({PilotDepth, 0}) \in Nat /\ PilotShare \in Nat
    BY <1>1, <1>3, <1>4, Products DEF PilotShare
<1>6. QED
    BY <1>1, <1>3, <1>4, <1>5, MinOfTwo DEF PilotShare

\* None of the entries that are hinted is one that nobody wrote.
LEMMA PredictedIs ==
    ASSUME Scores, pilotK \in Int, PilotDepth > 0,
           NEW target \in Layers, NEW ht, NEW j \in 1 .. PilotDepth
    PROVE  Predicted(target, ht)[j] \in Ids
<1> DEFINE row  == Biased(target, In(target, "ffn", ht))
           best == TopKStable(row, Min({PilotDepth, E}))
<1>1. E \in Nat /\ Ids = 0 .. E - 1 /\ PilotRoom \in Nat
    BY ForwardAssumption DEF ForwardAssumption, Ids
<1>2. PilotDepth \in 0 .. E /\ Min({PilotDepth, E}) = PilotDepth
      /\ j \in 1 .. PilotRoom /\ PilotDepth \in Nat
    BY <1>1, DepthIs
<1>3. row \in [0 .. E - 1 -> Int]
    BY <1>1 DEF Scores, Biased
<1>4. Found(row, E, best, PilotDepth)
    <2> HIDE DEF row
    <2>1. QED
        BY <1>1, <1>2, <1>3, TopKIs
<1>5. best \in Seq(Ids) /\ Len(best) = PilotDepth
    <2> HIDE DEF best, row
    <2>1. QED
        BY <1>1, <1>4 DEF Found
<1>6. Predicted(target, ht)[j] = IF j <= Len(best) THEN best[j] ELSE tset[j]
    BY <1>2 DEF Predicted
<1>7. QED
    <2> HIDE DEF best
    <2>1. QED
        BY <1>2, <1>5, <1>6

\* A call hints no more than PilotDepth experts for each of its tokens.
LEMMA HintingIsBounded ==
    ASSUME Scores, pilotK \in Int, PilotDepth > 0, NEW lr \in Layers, lr + 1 \in Layers,
           NEW hs, NEW n \in Nat, n <= MaxBatch, DOMAIN hs = 1 .. n
    PROVE  /\ Hinting(lr, hs) \subseteq Ids /\ IsFiniteSet(Hinting(lr, hs))
           /\ Cardinality(Hinting(lr, hs)) <= PilotShare
<1> DEFINE D    == PilotDepth
           P(t) == Predicted(lr + 1, hs[t])
           f    == [t \in 0 + 1 .. 0 + n |-> {P(t)[j] : j \in 1 .. D}]
<1>1. D \in Nat /\ MaxBatch \in Nat /\ PilotShare = MaxBatch * D
    BY DepthIs, BoundIs
<1>2. ASSUME NEW t \in 0 + 1 .. 0 + n
      PROVE  f[t] \subseteq Ids /\ IsFiniteSet(f[t]) /\ Cardinality(f[t]) <= D
    <2> DEFINE g == [j \in 0 + 1 .. 0 + D |-> {P(t)[j]}]
               G == Union(g, 0, D)
    <2>1. \A j \in 0 + 1 .. 0 + D : IsFiniteSet(g[j]) /\ Cardinality(g[j]) <= 1
        <3>1. \A e : IsFiniteSet({e}) /\ Cardinality({e}) = 1
            BY FS_Singleton
        <3>2. \A j \in 0 + 1 .. 0 + D : g[j] = {P(t)[j]}
            <4> HIDE DEF P, D
            <4>1. QED
                OBVIOUS
        <3>3. ASSUME NEW j \in 0 + 1 .. 0 + D
              PROVE  IsFiniteSet(g[j]) /\ Cardinality(g[j]) <= 1
            <4> DEFINE S == g[j]
            <4>1. \E e : S = {e}
                BY <3>2
            <4> HIDE DEF S
            <4>2. IsFiniteSet(S) /\ Cardinality(S) = 1
                BY <3>1, <4>1, Zenon
            <4>3. IsFiniteSet(S) /\ Cardinality(S) <= 1
                BY <4>2
            <4>4. QED
                BY <4>3 DEF S
        <3>4. QED
            BY <3>3
    <2>2. IsFiniteSet(G) /\ Cardinality(G) <= 1 * D
        <3> HIDE DEF g, D
        <3>1. QED
            BY <1>1, <2>1, UnionOf
    <2>3. f[t] = G
        <3> HIDE DEF P, D
        <3>1. QED
            BY <1>1 DEF Union
    <2>4. \A j \in 1 .. D : P(t)[j] \in Ids
        BY PredictedIs
    <2>5. f[t] \subseteq Ids
        <3> HIDE DEF P
        <3>1. QED
            BY <2>4
    <2> HIDE DEF f, G, D
    <2>6. QED
        BY <1>1, <2>2, <2>3, <2>5
<1>3. Hinting(lr, hs) = Union(f, 0, n)
    <2>1. Range(hs) = {hs[t] : t \in 0 + 1 .. 0 + n}
        BY DEF Range
    <2>2. QED
        BY <2>1 DEF Hinting, Union
<1>0. Hinting(lr, hs) \subseteq Ids
    BY <1>2, <1>3 DEF Union
<1> HIDE DEF f, D
<1>4. IsFiniteSet(Hinting(lr, hs)) /\ Cardinality(Hinting(lr, hs)) <= D * n
    BY <1>1, <1>2, <1>3, UnionOf
<1>5. D * n <= D * MaxBatch /\ D * MaxBatch = MaxBatch * D /\ D * n \in Nat
    BY <1>1, Products
<1>6. Cardinality(Hinting(lr, hs)) \in Nat
    BY <1>4, FS_CardinalityType
<1>7. QED
    BY <1>0, <1>1, <1>4, <1>5, <1>6

\* What the hook does to the working sets: a sparse next layer gets entries,
\* every one of them a hint.
PilotTakes(new) ==
    /\ new # {} => tiered /\ l + 1 \in Layers /\ Sparse(l + 1)
    /\ new \subseteq Ids /\ IsFiniteSet(new) /\ Cardinality(new) <= PilotShare
    /\ live' = [live EXCEPT ![l + 1] = @ \cup new]
    /\ hints' = hints \cup {<<l + 1, e>> : e \in new}

LEMMA PilotHints ==
    ASSUME Scores, Shaped, DOMAIN h' = 1 .. Len(ids), Pilot(l, h')
    PROVE  \E new : PilotTakes(new)
<1>1. CASE UNCHANGED <<live, hints>>
    <2>1. live' = [live EXCEPT ![l + 1] = @ \cup {}]
        BY <1>1 DEF Shaped
    <2>2. hints' = hints \cup {<<l + 1, e>> : e \in {}}
        BY <1>1
    <2>3. IsFiniteSet({}) /\ Cardinality({}) = 0
        BY FS_EmptySet
    <2>4. PilotTakes({})
        BY <2>1, <2>2, <2>3, DepthIs DEF PilotTakes, Shaped
    <2>5. QED
        BY <2>4
<1>2. CASE ~ UNCHANGED <<live, hints>>
    <2>1. tiered /\ l < L /\ Sparse(l + 1) /\ PilotDepth > 0
        BY <1>2 DEF Pilot, pilot
    <2>2. l + 1 \in Layers
        BY <2>1, LayersAre DEF Shaped
    <2>3. PICK new \in SUBSET (Hinting(l, h') \ live[l + 1]) :
                /\ live' = [live EXCEPT ![l + 1] = @ \cup new]
                /\ hints' = hints \cup {<<l + 1, e>> : e \in new}
        BY <2>1 DEF Pilot
    <2>4. Len(ids) \in Nat /\ Len(ids) <= MaxBatch
        BY DEF Shaped
    <2>5. /\ Hinting(l, h') \subseteq Ids /\ IsFiniteSet(Hinting(l, h'))
          /\ Cardinality(Hinting(l, h')) <= PilotShare
        BY <2>1, <2>2, <2>4, HintingIsBounded DEF Shaped
    <2>6. /\ new \subseteq Ids /\ IsFiniteSet(new)
          /\ Cardinality(new) <= Cardinality(Hinting(l, h'))
          /\ Cardinality(new) \in Nat /\ Cardinality(Hinting(l, h')) \in Nat
        BY <2>3, <2>5, FS_Subset, FS_CardinalityType
    <2>7. PilotShare \in Nat
        BY DepthIs DEF Shaped
    <2>8. Cardinality(new) <= PilotShare
        BY <2>5, <2>6, <2>7
    <2>9. PilotTakes(new)
        BY <2>1, <2>2, <2>3, <2>6, <2>8 DEF PilotTakes
    <2>10. QED
        BY <2>9
<1>3. QED
    BY <1>1, <1>2

----------------------------------------------------------------------------
(***************************************************************************)
(* Every step keeps the invariant.                                         *)
(***************************************************************************)

\* A bound that grows with the faults and with what is fresh.
LEMMA Shares ==
    ASSUME NEW f \in Nat, NEW g \in Nat, f <= g
    PROVE  \A p, b \in Nat : f * p + b \in Nat /\ f * p + b <= g * p + b
<1>1. \A p \in Nat : f * p \in Nat /\ g * p \in Nat /\ f * p <= g * p
    <2>1. PICK d \in Nat : g = f + d
        BY g - f \in Nat, g = f + (g - f)
    <2>2. \A p \in Nat : (f + d) * p = f * p + d * p /\ d * p \in Nat /\ f * p \in Nat
        OBVIOUS
    <2>3. QED
        BY <2>1, <2>2
<1>2. QED
    BY <1>1

LEMMA FreshIs == \A i : Fresh(i) \in {0, 1}
BY DEF Fresh

LEMMA HintedIs ==
    ASSUME Shaped, NEW i \in Layers
    PROVE  /\ IsFiniteSet(Ids) /\ Hinted(i) \subseteq Ids /\ IsFiniteSet(Hinted(i))
           /\ Cardinality(Hinted(i)) \in Nat
<1>1. IsFiniteSet(Ids)
    BY ForwardAssumption, FS_Interval DEF ForwardAssumption, Ids
<1>2. Hinted(i) \subseteq Ids
    BY DEF Hinted, Shaped
<1>3. QED
    BY <1>1, <1>2, FS_Subset, FS_CardinalityType

\* A step that adds no hint to a layer, and keeps those of this call fresh or
\* counts them to a failed one.
LEMMA FewKept ==
    ASSUME Shaped, HintsFew, faults' \in Nat, UNCHANGED pilotK, NEW i \in Layers,
           Hinted(i)' \subseteq Hinted(i), faults + Fresh(i) <= faults' + Fresh(i)'
    PROVE  (Cardinality(Hinted(i)) <= (faults + Fresh(i)) * PilotShare + Backlog)'
<1> DEFINE g == faults' + Fresh(i)'
           f == faults + Fresh(i)
<1>1. PilotShare' = PilotShare /\ PilotShare \in Nat /\ Backlog \in Nat
    BY DepthIs, ForwardAssumption DEF PilotShare, PilotDepth, Shaped, ForwardAssumption
<1>2. f \in Nat /\ g \in Nat /\ f <= g
    <2>1. Fresh(i) \in {0, 1} /\ Fresh(i)' \in {0, 1}
        BY DEF Fresh
    <2>2. QED
        BY <2>1 DEF Shaped
<1>3. Cardinality(Hinted(i)') <= Cardinality(Hinted(i)) /\ Cardinality(Hinted(i)') \in Nat
      /\ Cardinality(Hinted(i)) \in Nat
    BY HintedIs, FS_Subset, FS_CardinalityType
<1>4. Cardinality(Hinted(i)) <= f * PilotShare + Backlog
    BY DEF HintsFew
<1> HIDE DEF f, g
<1>5. /\ f * PilotShare + Backlog \in Nat
      /\ f * PilotShare + Backlog <= g * PilotShare + Backlog
      /\ g * PilotShare + Backlog \in Nat
    BY <1>1, <1>2, Shares
<1>6. Cardinality(Hinted(i)') <= g * PilotShare + Backlog
    BY <1>3, <1>4, <1>5
<1>7. QED
    BY <1>1, <1>6 DEF g

\* A step that leaves the working sets alone.
LEMMA QuietKeeps ==
    ASSUME Shaped, HintsRight, Holding, HintsFew,
           UNCHANGED <<tiered, chunk, pilotK, live, hints, faults>>,
           pc # "resolve", pc' # "resolve",
           \A i \in Layers : Fresh(i) <= Fresh(i)' \/ Hinted(i) = {}
    PROVE  HintsRight' /\ Holding' /\ HintsFew'
<1>1. \A i : Hinted(i)' = Hinted(i) /\ Own(i)' = Own(i)
    BY DEF Hinted, Own
<1>2. HintsRight'
    BY DEF HintsRight
<1>3. Holding'
    <2>1. \A i : Taken(i) = {}
        BY DEF Taken
    <2>2. QED
        BY <1>1, <2>1, HoldingKept
<1>4. ASSUME NEW i \in Layers
      PROVE  (Cardinality(Hinted(i)) <= (faults + Fresh(i)) * PilotShare + Backlog)'
    <2>1. CASE Fresh(i) <= Fresh(i)'
        <3>1. faults + Fresh(i) <= faults' + Fresh(i)' /\ faults' \in Nat
            BY <2>1 DEF Shaped, Fresh
        <3>2. QED
            BY <1>1, <3>1, FewKept
    <2>2. CASE Hinted(i) = {}
        <3>1. Cardinality(Hinted(i)') = 0
            BY <1>1, <2>2, FS_EmptySet
        <3>2. PilotShare' = PilotShare /\ PilotShare \in Nat /\ Backlog \in Nat
            BY DepthIs, ForwardAssumption DEF PilotShare, PilotDepth, Shaped, ForwardAssumption
        <3>3. faults' + Fresh(i)' \in Nat
            BY DEF Shaped, Fresh
        <3>4. 0 <= (faults' + Fresh(i)') * PilotShare' + Backlog
            <4>1. \A f, p, b \in Nat : 0 <= f * p + b
                BY Products
            <4>2. QED
                BY <3>2, <3>3, <4>1
        <3>5. QED
            BY <3>1, <3>4
    <2>3. QED
        BY <1>4, <2>1, <2>2
<1>5. HintsFew'
    BY <1>4 DEF HintsFew
<1>6. QED
    BY <1>2, <1>3, <1>5

LEMMA InitForward ==
    ASSUME Init
    PROVE  ForwardInv
<1> USE DEF Init
<1>1. Shaped
    BY LayersAre, ForwardAssumption, BoundIs DEF ForwardAssumption, Shaped, NoViews
<1>2. ASSUME NEW i \in Layers
      PROVE  /\ Own(i) = {} /\ Hinted(i) = {} /\ Fresh(i) = 0
             /\ Cardinality({}) = 0 /\ faults = 0
    BY <1>2, FS_EmptySet DEF Own, Hinted, Fresh
<1>3. Holding
    <2>1. ChunkShare \in Nat
        BY <1>1, BoundIs DEF Shaped
    <2>2. 0 <= 0 * ChunkShare
        <3>1. \A b \in Nat : 0 <= 0 * b
            OBVIOUS
        <3>2. QED
            BY <2>1, <3>1
    <2>3. QED
        BY <1>2, <2>2 DEF Holding
<1>4. HintsFew
    <2>1. PilotShare \in Nat /\ Backlog \in Nat
        BY <1>1, DepthIs, ForwardAssumption DEF Shaped, ForwardAssumption
    <2>2. 0 <= (0 + 0) * PilotShare + Backlog
        <3>1. \A p, b \in Nat : 0 <= (0 + 0) * p + b
            OBVIOUS
        <3>2. QED
            BY <2>1, <3>1
    <2>3. QED
        BY <1>2, <2>2 DEF HintsFew
<1>5. QED
    BY <1>1, <1>3, <1>4 DEF ForwardInv, Resolving, HintsRight

LEMMA BeginKeeps ==
    ASSUME ForwardInv, NEW s \in 1 .. MaxBatch, NEW toks \in [1 .. s -> Tokens],
           NEW dec \in BOOLEAN, Begin(toks, dec)
    PROVE  ForwardInv'
<1> USE DEF ForwardInv
<1>1. toks \in Seq(Tokens) /\ Len(toks) = s /\ s \in Nat /\ s <= MaxBatch
      /\ DOMAIN toks = 1 .. Len(toks)
    BY BoundIs
<1>2. /\ pc = "idle" /\ pc' \in {"idle", "attention"}
      /\ UNCHANGED <<tiered, chunk, pilotK, t0, marked, views, live, hints, faults>>
      /\ ids' \in {ids, toks} /\ l' \in {l, 1}
      /\ pc' = "attention" => ids' = toks /\ DOMAIN h' = DOMAIN toks
    BY DEF Begin, config, experts, history, call, pilot
<1>3. Shaped'
    BY <1>1, <1>2, LayersAre DEF Shaped
<1>4. \A i \in Layers : Fresh(i) <= Fresh(i)'
    BY <1>2 DEF Fresh
<1>5. HintsRight' /\ Holding' /\ HintsFew'
    BY <1>2, <1>4, QuietKeeps
<1>6. QED
    BY <1>2, <1>3, <1>5 DEF Resolving

LEMMA AttentionKeeps ==
    ASSUME Scores, ForwardInv, AttentionSite
    PROVE  ForwardInv'
<1> USE DEF ForwardInv
<1>1. /\ pc = "attention" /\ pc' = "mlp" /\ t0' = 0 /\ Pilot(l, h')
      /\ DOMAIN h' = DOMAIN h
      /\ UNCHANGED <<tiered, chunk, pilotK, ids, l, marked, views, faults>>
    BY DEF AttentionSite, config, call, history
<1>2. DOMAIN h' = 1 .. Len(ids)
    BY <1>1 DEF Shaped
<1>3. PICK new : PilotTakes(new)
    BY <1>1, <1>2, PilotHints
<1>4. Shaped'
    BY <1>1, <1>2, <1>3 DEF Shaped, PilotTakes
<1>5. ASSUME NEW i \in Layers
      PROVE  /\ Own(i)' \subseteq Own(i) /\ Taken(i) = {}
             /\ Hinted(i)' \subseteq Hinted(i) \cup (IF i = l + 1 THEN new ELSE {})
    <2>1. live'[i] \subseteq live[i] \cup (IF i = l + 1 THEN new ELSE {})
        BY <1>3 DEF PilotTakes, Shaped
    <2>2. \A e : <<i, e>> \in hints' <=> <<i, e>> \in hints \/ (i = l + 1 /\ e \in new)
        BY <1>3 DEF PilotTakes
    <2>3. \A e : <<i, e>> \in hints => e \in live[i]
        BY DEF HintsRight
    <2>4. QED
        BY <1>1, <2>1, <2>2, <2>3 DEF Own, Hinted, Taken
<1>6. HintsRight'
    <2>1. ASSUME NEW hint \in hints'
          PROVE  /\ tiered /\ hint \in Layers \X Ids
                 /\ Sparse(hint[1]) /\ hint[2] \in live'[hint[1]]
        <3>1. CASE hint \in hints
            BY <1>3, <3>1 DEF HintsRight, PilotTakes, Shaped
        <3>2. CASE hint \notin hints
            <4>1. PICK e \in new : hint = <<l + 1, e>>
                BY <1>3, <2>1, <3>2 DEF PilotTakes
            <4>2. tiered /\ l + 1 \in Layers /\ Sparse(l + 1) /\ e \in Ids
                BY <1>3, <4>1 DEF PilotTakes
            <4>3. e \in live'[l + 1]
                BY <1>3, <4>1, <4>2 DEF PilotTakes, Shaped
            <4>4. QED
                BY <4>1, <4>2, <4>3
        <3>3. QED
            BY <3>1, <3>2
    <2>2. QED
        BY <1>1, <2>1 DEF HintsRight
<1>7. Holding'
    BY <1>1, <1>5, HoldingKept
<1>8. HintsFew'
    <2>1. ASSUME NEW i \in Layers
          PROVE  (Cardinality(Hinted(i)) <= (faults + Fresh(i)) * PilotShare + Backlog)'
        <3>1. CASE i # l + 1
            <4>1. Fresh(i) <= Fresh(i)'
                BY <1>1, <3>1 DEF Fresh, Shaped
            <4>2. faults + Fresh(i) <= faults' + Fresh(i)' /\ faults' \in Nat
                BY <1>1, <4>1 DEF Shaped, Fresh
            <4>3. Hinted(i)' \subseteq Hinted(i)
                BY <1>5, <3>1
            <4>4. QED
                BY <1>1, <4>2, <4>3, FewKept
        <3>2. CASE i = l + 1
            <4>1. Fresh(i) = 0 /\ Fresh(i)' = 1
                BY <1>1, <3>2 DEF Fresh, Shaped
            <4>2. faults \in Nat /\ PilotShare \in Nat /\ Backlog \in Nat
                  /\ PilotShare' = PilotShare
                BY <1>1, DepthIs, ForwardAssumption
                   DEF Shaped, ForwardAssumption, PilotShare, PilotDepth
            <4>3. Cardinality(Hinted(i)) <= faults * PilotShare + Backlog
                <5>1. faults + 0 = faults
                    BY <4>2
                <5>2. QED
                    BY <4>1, <5>1 DEF HintsFew
            <4>4. IsFiniteSet(new) /\ Cardinality(new) <= PilotShare
                BY <1>3 DEF PilotTakes
            <4>5. IsFiniteSet(Hinted(i)) /\ Cardinality(Hinted(i)) \in Nat
                BY HintedIs
            <4>6. /\ IsFiniteSet(Hinted(i) \cup new)
                  /\ Cardinality(Hinted(i) \cup new)
                        = Cardinality(Hinted(i)) + Cardinality(new)
                            - Cardinality(Hinted(i) \cap new)
                  /\ Cardinality(new) \in Nat /\ Cardinality(Hinted(i) \cap new) \in Nat
                BY <4>4, <4>5, FS_Union, FS_Intersection, FS_CardinalityType
            <4>7. Cardinality(Hinted(i)') <= Cardinality(Hinted(i) \cup new)
                  /\ Cardinality(Hinted(i)') \in Nat
                BY <1>5, <3>2, <4>6, FS_Subset, FS_CardinalityType
            <4>8. (faults + 1) * PilotShare = faults * PilotShare + PilotShare
                  /\ faults * PilotShare \in Nat
                BY <4>2, Products
            <4>9. \A a, b, c, d, p, q, k \in Nat :
                      a <= q + k /\ b <= p /\ d <= a + b - c => d <= q + p + k
                OBVIOUS
            <4>10. Cardinality(Hinted(i)') <= faults * PilotShare + PilotShare + Backlog
                BY <4>2, <4>3, <4>4, <4>5, <4>6, <4>7, <4>8, <4>9
            <4>11. Cardinality(Hinted(i)') <= (faults' + Fresh(i)') * PilotShare' + Backlog
                BY <1>1, <4>1, <4>2, <4>8, <4>10
            <4>12. QED
                BY <4>11
        <3>3. QED
            BY <3>1, <3>2
    <2>2. QED
        BY <2>1 DEF HintsFew
<1>9. QED
    BY <1>1, <1>4, <1>6, <1>7, <1>8 DEF Resolving

LEMMA ResidentKeeps ==
    ASSUME ForwardInv, ResidentMlp
    PROVE  ForwardInv'
<1> USE DEF ForwardInv
<1>1. /\ pc = "mlp" /\ pc' = (IF l = L THEN "head" ELSE "attention")
      /\ l' = IF l = L THEN l ELSE l + 1
      /\ ~(tiered /\ Sparse(l)) /\ DOMAIN h' = DOMAIN h
      /\ views' \in {views, [e \in Ids |-> l]}
      /\ UNCHANGED <<tiered, chunk, pilotK, ids, t0, marked, live, faults, hints>>
    BY DEF ResidentMlp, EndOfLayer, config, call, pilot, history
<1>2. l' \in Layers
    BY <1>1, LayersAre DEF Shaped
<1>3. Shaped'
    BY <1>1, <1>2 DEF Shaped
<1>4. Hinted(l) = {}
    BY <1>1 DEF Hinted, HintsRight
<1>5. \A i \in Layers : Fresh(i) <= Fresh(i)' \/ Hinted(i) = {}
    BY <1>1, <1>4, LayersAre DEF Fresh, Shaped
<1>6. HintsRight' /\ Holding' /\ HintsFew'
    BY <1>1, <1>5, QuietKeeps
<1>7. QED
    BY <1>1, <1>3, <1>6 DEF Resolving

LEMMA RouteKeeps ==
    ASSUME Scores, ForwardInv, RouteChunk
    PROVE  ForwardInv'
<1> USE DEF ForwardInv
<1>1. /\ pc = "mlp" /\ pc' = "resolve" /\ tiered /\ Sparse(l)
      /\ marked' = ChunkUnion(l, {x[t] : t \in ChunkTokens})
      /\ views' = [e \in Ids |-> Null]
      /\ live' = [live EXCEPT ![l] = @ \cup marked']
      /\ UNCHANGED <<tiered, chunk, pilotK, ids, l, t0, h, x, faults, hints>>
    BY DEF RouteChunk, NoViews, config, call, streams, pilot, history
<1>2. marked' \subseteq Ids
    BY <1>1, ChunkIsBounded
<1>3. Shaped'
    BY <1>1, <1>2 DEF Shaped
<1>4. ASSUME NEW i \in Layers
      PROVE  /\ Hinted(i)' = Hinted(i) /\ Own(i)' \subseteq Own(i) \cup Taken(i)'
             /\ Taken(i) = {}
    <2>1. live'[i] = live[i] \cup Taken(i)'
        BY <1>1 DEF Shaped, Taken
    <2>2. \A e : <<i, e>> \in hints => e \in live[i]
        BY DEF HintsRight
    <2>3. QED
        BY <1>1, <2>1, <2>2 DEF Own, Hinted, Taken
<1>5. Holding'
    BY <1>1, <1>4, HoldingKept
<1>6. HintsRight'
    BY <1>1 DEF HintsRight, Shaped
<1>7. HintsFew'
    <2>1. ASSUME NEW i \in Layers
          PROVE  (Cardinality(Hinted(i)) <= (faults + Fresh(i)) * PilotShare + Backlog)'
        <3>1. faults + Fresh(i) <= faults' + Fresh(i)' /\ faults' \in Nat
            BY <1>1 DEF Shaped, Fresh
        <3>2. QED
            BY <1>1, <1>4, <3>1, FewKept
    <2>2. QED
        BY <2>1 DEF HintsFew
<1>8. Resolving'
    <2>1. ChunkTokens' = ChunkTokens
        BY <1>1 DEF ChunkTokens, ChunkSize
    <2>2. marked' = ChunkUnion(l', {x'[t] : t \in ChunkTokens'})
        BY <1>1, <2>1
    <2>3. (marked = ChunkUnion(l, {x[t] : t \in ChunkTokens}))'
        BY <1>1, <2>2 DEF ChunkUnion
    <2>4. marked' \subseteq live'[l']
        BY <1>1 DEF Shaped
    <2>5. QED
        BY <1>1, <2>3, <2>4 DEF Resolving
<1>9. QED
    BY <1>3, <1>5, <1>6, <1>7, <1>8

LEMMA ResolveKeeps ==
    ASSUME Scores, ForwardInv, Resolve
    PROVE  ForwardInv'
<1> USE DEF ForwardInv
<1> DEFINE W == {i \in marked : views[i] = Null}
           e == Min(W)
<1>1. /\ pc = "resolve" /\ W # {}
      /\ UNCHANGED <<tiered, chunk, pilotK, ids, l, t0, h, x, marked>>
    BY DEF Resolve, config, call, streams
<1>2. e \in marked /\ e \in Ids /\ l \in Layers
    <2>1. W \subseteq marked /\ marked \subseteq Ids /\ Ids \subseteq Nat /\ l \in Layers
        BY ForwardAssumption DEF ForwardAssumption, Ids, Shaped
    <2>2. \E a \in W : \A b \in W : a <= b
        <3> HIDE DEF W
        <3>1. W \in SUBSET Nat
            BY <2>1
        <3>2. IsWellFoundedOn(OpToRel(<, Nat), Nat)
            BY NatLessThanWellFounded
        <3>3. PICK a \in W : \A b \in W : ~(<<b, a>> \in OpToRel(<, Nat))
            BY <1>1, <3>1, <3>2, WFMin
        <3>4. \A b \in W : ~(b < a)
            BY <3>1, <3>3, Zenon DEF OpToRel
        <3>5. QED
            BY <3>1, <3>4
    <2>3. e \in W
        <3> HIDE DEF W
        <3>1. QED
            BY <2>2 DEF Min
    <2>4. QED
        BY <2>1, <2>3
<1> HIDE DEF e
<1>3. ChunkTokens' = ChunkTokens /\ ChunkShare' = ChunkShare
    BY <1>1 DEF ChunkTokens, ChunkSize, ChunkShare
<1>4. ChunkUnion(l, {x[t] : t \in ChunkTokens})'
        = ChunkUnion(l, {x[t] : t \in ChunkTokens})
    BY <1>1, <1>3 DEF ChunkUnion
<1>5. CASE /\ views' = [views EXCEPT ![e] = l]
           /\ UNCHANGED <<pc, ret, live, hints, faults>>
    <2>1. Shaped'
        BY <1>1, <1>2, <1>5 DEF Shaped
    <2>2. Resolving'
        BY <1>1, <1>2, <1>4, <1>5 DEF Resolving, Shaped
    <2>3. ASSUME NEW i \in Layers
          PROVE  Own(i)' = Own(i) /\ Taken(i)' = Taken(i) /\ Hinted(i)' = Hinted(i)
                 /\ Fresh(i)' = Fresh(i)
        BY <1>1, <1>5 DEF Own, Taken, Hinted, Fresh
    <2>4. Holding'
        BY <1>5, <1>1, <2>3, HoldingKept
    <2>5. HintsFew'
        BY <1>1, <1>5, <2>3 DEF HintsFew, PilotShare, PilotDepth
    <2>6. HintsRight'
        BY <1>1, <1>5 DEF HintsRight
    <2>7. QED
        BY <2>1, <2>2, <2>4, <2>5, <2>6
<1>6. CASE /\ faults < MaxFaults /\ faults' = faults + 1
           /\ live' = [live EXCEPT ![l] = @ \ {e}] /\ hints' = hints \ {<<l, e>>}
           /\ ret' = -1 /\ pc' = "failed"
           /\ UNCHANGED views
    <2>1. Shaped'
        BY <1>1, <1>6 DEF Shaped
    <2>2. ChunkShare \in Nat /\ faults \in Nat
        BY BoundIs DEF Shaped
    <2>3. /\ marked \subseteq Ids /\ IsFiniteSet(marked)
          /\ Cardinality(marked) \in Nat /\ Cardinality(marked) <= ChunkShare
        BY <1>1, ChunkIsBounded DEF Resolving
    <2>4. ASSUME NEW i \in Layers
          PROVE  Own(i)' \subseteq Own(i) /\ Hinted(i)' \subseteq Hinted(i) /\ Taken(i)' = {}
        <3>1. live'[i] = IF i = l THEN live[i] \ {e} ELSE live[i]
            BY <1>2, <1>6 DEF Shaped
        <3>2. \A d \in Ids : <<i, d>> \in hints' <=> <<i, d>> \in hints /\ ~(i = l /\ d = e)
            BY <1>6
        <3>3. live[i] \subseteq Ids
            BY DEF Shaped
        <3>4. QED
            BY <1>6, <3>1, <3>2, <3>3 DEF Own, Hinted, Taken
    <2>5. ASSUME NEW i \in Layers
          PROVE  \E old \in SUBSET Ids :
                    Cardinality(old) <= faults' * ChunkShare' /\ Own(i)' \subseteq old \cup Taken(i)'
        <3>1. PICK old \in SUBSET Ids :
                    /\ Cardinality(old) <= faults * ChunkShare
                    /\ Own(i) \subseteq old \cup Taken(i)
            BY DEF Holding
        <3>2. IsFiniteSet(old) /\ IsFiniteSet(old \cap marked)
            <4>1. IsFiniteSet(Ids)
                BY ForwardAssumption, FS_Interval DEF ForwardAssumption, Ids
            <4>2. QED
                BY <3>1, <4>1, FS_Subset
        <3>3. /\ Cardinality(old) \in Nat /\ Cardinality(old \cap marked) \in Nat
              /\ Cardinality(old \cup marked)
                    = Cardinality(old) + Cardinality(marked) - Cardinality(old \cap marked)
            BY <2>3, <3>2, FS_Union, FS_CardinalityType
        <3>4. (faults + 1) * ChunkShare = faults * ChunkShare + ChunkShare
              /\ faults * ChunkShare \in Nat
            BY <2>2, Products
        <3>5. \A o, m, c, p, b \in Nat : o <= p /\ m <= b => o + m - c <= p + b
            OBVIOUS
        <3>6. Cardinality(old \cup marked) <= faults' * ChunkShare'
            BY <1>3, <1>6, <2>2, <2>3, <3>1, <3>3, <3>4, <3>5
        <3>7. old \cup marked \in SUBSET Ids /\ Own(i)' \subseteq old \cup marked
            BY <2>3, <2>4, <3>1 DEF Taken
        <3>8. QED
            BY <3>6, <3>7
    <2>6. Holding'
        BY <2>5 DEF Holding
    <2>7. HintsFew'
        <3>1. ASSUME NEW i \in Layers
              PROVE  (Cardinality(Hinted(i)) <= (faults + Fresh(i)) * PilotShare + Backlog)'
            <4>1. faults + Fresh(i) <= faults' + Fresh(i)' /\ faults' \in Nat
                BY <1>6 DEF Shaped, Fresh
            <4>2. QED
                BY <1>1, <2>4, <4>1, FewKept
        <3>2. QED
            BY <3>1 DEF HintsFew
    <2>8. HintsRight'
        <3>1. ASSUME NEW hint \in hints'
              PROVE  /\ tiered /\ hint \in Layers \X Ids
                     /\ Sparse(hint[1]) /\ hint[2] \in live'[hint[1]]
            <4>1. /\ hint \in hints /\ hint # <<l, e>> /\ tiered /\ hint \in Layers \X Ids
                  /\ Sparse(hint[1]) /\ hint[2] \in live[hint[1]]
                BY <1>6 DEF HintsRight
            <4>2. hint[1] = l => hint[2] # e
                BY <4>1
            <4>3. QED
                BY <1>2, <1>6, <4>1, <4>2 DEF Shaped
        <3>2. QED
            BY <1>1, <3>1 DEF HintsRight
    <2>9. QED
        BY <1>6, <2>1, <2>6, <2>7, <2>8 DEF Resolving
<1>7. QED
    <2>1. LET k == Min({i \in marked : views[i] = Null}) IN
            \/ /\ views' = [views EXCEPT ![k] = l]
               /\ UNCHANGED <<pc, ret, live, hints, faults>>
            \/ /\ faults < MaxFaults /\ faults' = faults + 1
               /\ live' = [live EXCEPT ![l] = @ \ {k}] /\ hints' = hints \ {<<l, k>>}
               /\ ret' = -1 /\ pc' = "failed"
               /\ UNCHANGED views
        BY DEF Resolve
    <2>2. QED
        BY <1>5, <1>6, <2>1 DEF e

LEMMA ChunkKeeps ==
    ASSUME ForwardInv, ForwardChunk
    PROVE  ForwardInv'
<1> USE DEF ForwardInv
<1>1. /\ pc = "resolve" /\ pc' \in {"mlp", "head", "attention"}
      /\ \/ pc' = "mlp" /\ UNCHANGED <<h, l>>
         \/ /\ l' = (IF l = L THEN l ELSE l + 1)
            /\ pc' = (IF l = L THEN "head" ELSE "attention") /\ DOMAIN h' = DOMAIN h
      /\ t0' \in {t0, t0 + ChunkSize}
      /\ UNCHANGED <<tiered, chunk, pilotK, ids, marked, views, faults>>
    BY DEF ForwardChunk, EndOfLayer, config, call, history
<1>2. PICK late \in SUBSET (live[l] \ marked) :
            /\ Cardinality(late \cap Hinted(l)) <= Backlog
            /\ live' = [live EXCEPT ![l] = late]
            /\ hints' = {p \in hints : p[1] = l => p[2] \in late}
    BY DEF ForwardChunk, LayerEnd
<1>3. l' \in Layers
    BY <1>1, LayersAre DEF Shaped
<1>4. ChunkSize \in Nat
    BY DEF Shaped, ChunkSize
<1>5. Shaped'
    BY <1>1, <1>2, <1>3, <1>4 DEF Shaped
<1>6. ASSUME NEW i \in Layers
      PROVE  /\ Own(i)' \subseteq Own(i) \ Taken(i) /\ Hinted(i)' \subseteq Hinted(i)
             /\ i = l => Hinted(i)' \subseteq late \cap Hinted(l)
    <2>1. live'[i] = IF i = l THEN late ELSE live[i]
        BY <1>2 DEF Shaped
    <2>2. \A d : <<i, d>> \in hints' <=> <<i, d>> \in hints /\ (i = l => d \in late)
        BY <1>2
    <2>3. late \subseteq live[l] /\ late \cap marked = {}
        BY <1>2
    <2>4. QED
        BY <1>1, <2>1, <2>2, <2>3 DEF Own, Hinted, Taken
<1>7. Holding'
    BY <1>1, <1>6, HoldingKept
<1>8. HintsRight'
    BY <1>1, <1>2 DEF HintsRight, Shaped
<1>9. HintsFew'
    <2>1. ASSUME NEW i \in Layers
          PROVE  (Cardinality(Hinted(i)) <= (faults + Fresh(i)) * PilotShare + Backlog)'
        <3>1. CASE i # l
            <4>1. Fresh(i) <= Fresh(i)'
                BY <1>1, <3>1, LayersAre DEF Fresh, Shaped
            <4>2. faults + Fresh(i) <= faults' + Fresh(i)' /\ faults' \in Nat
                BY <1>1, <4>1 DEF Shaped, Fresh
            <4>3. QED
                BY <1>1, <1>6, <4>2, FewKept
        <3>2. CASE i = l
            <4>1. /\ IsFiniteSet(late \cap Hinted(l)) /\ Cardinality(late \cap Hinted(l)) \in Nat
                  /\ Cardinality(Hinted(i)') <= Cardinality(late \cap Hinted(l))
                  /\ Cardinality(Hinted(i)') \in Nat
                <5>1. IsFiniteSet(Hinted(l))
                    BY HintedIs DEF Shaped
                <5>2. QED
                    BY <1>6, <3>2, <5>1, FS_Subset, FS_CardinalityType
            <4>2. /\ PilotShare' = PilotShare /\ PilotShare \in Nat /\ Backlog \in Nat
                  /\ faults' + Fresh(i)' \in Nat
                BY <1>1, DepthIs, ForwardAssumption
                   DEF Shaped, ForwardAssumption, PilotShare, PilotDepth, Fresh
            <4>3. Backlog <= (faults' + Fresh(i)') * PilotShare' + Backlog
                <5>1. \A f, p, b \in Nat : b <= f * p + b /\ f * p + b \in Nat
                    BY Products
                <5>2. QED
                    BY <4>2, <5>1
            <4>4. (faults' + Fresh(i)') * PilotShare' + Backlog \in Nat
                BY <4>2, Products
            <4>5. Cardinality(Hinted(i)') <= (faults' + Fresh(i)') * PilotShare' + Backlog
                BY <1>2, <4>1, <4>2, <4>3, <4>4
            <4>6. QED
                BY <4>5
        <3>3. QED
            BY <3>1, <3>2
    <2>2. QED
        BY <2>1 DEF HintsFew
<1>10. QED
    BY <1>1, <1>5, <1>7, <1>8, <1>9 DEF Resolving

\* The steps that neither route nor resolve.
LEMMA OthersKeep ==
    ASSUME ForwardInv, Finish \/ Rollback \/ NextRequest \/ UNCHANGED vars
    PROVE  ForwardInv'
<1> USE DEF ForwardInv
<1>1. CASE Finish \/ Rollback \/ NextRequest
    <2>1. /\ pc \in {"head", "idle", "failed"} /\ pc' = "idle" /\ ids' \in {ids, <<>>}
          /\ UNCHANGED <<tiered, chunk, pilotK, l, t0, marked, views, live, hints, faults>>
        BY <1>1 DEF Finish, Rollback, NextRequest, config, call, experts, pilot
    <2>2. Shaped'
        <3>1. <<>> \in Seq(Tokens) /\ Len(<<>>) = 0 /\ MaxBatch \in Nat
            BY BoundIs
        <3>2. ids' \in Seq(Tokens) /\ Len(ids') <= MaxBatch
            <4>1. CASE ids' = ids
                BY <4>1 DEF Shaped
            <4>2. CASE ids' = <<>>
                <5>1. 0 <= MaxBatch
                    BY <3>1
                <5>2. QED
                    BY <3>1, <4>2, <5>1
            <4>3. QED
                BY <2>1, <4>1, <4>2
        <3>3. QED
            BY <2>1, <3>2 DEF Shaped
    <2>3. \A i \in Layers : Fresh(i) <= Fresh(i)'
        BY <2>1 DEF Fresh
    <2>4. HintsRight' /\ Holding' /\ HintsFew'
        BY <2>1, <2>3, QuietKeeps
    <2>5. QED
        BY <2>1, <2>2, <2>4 DEF Resolving
<1>2. CASE UNCHANGED vars
    <2>1. UNCHANGED <<tiered, chunk, pilotK, l, t0, marked, views, live, hints, faults, ids, h, x, pc>>
        BY <1>2 DEF vars, config, call, experts, pilot, streams, history
    <2>2. ChunkTokens' = ChunkTokens /\ ChunkShare' = ChunkShare /\ PilotShare' = PilotShare
        BY <2>1 DEF ChunkTokens, ChunkSize, ChunkShare, PilotShare, PilotDepth
    <2>3. ChunkUnion(l, {x[t] : t \in ChunkTokens})'
            = ChunkUnion(l, {x[t] : t \in ChunkTokens})
        BY <2>1, <2>2 DEF ChunkUnion
    <2>4. \A i : /\ Own(i)' = Own(i) /\ Taken(i)' = Taken(i) /\ Hinted(i)' = Hinted(i)
                 /\ Fresh(i)' = Fresh(i)
        BY <2>1 DEF Own, Taken, Hinted, Fresh
    <2>5. Shaped' /\ Resolving' /\ HintsRight'
        BY <2>1, <2>2, <2>3 DEF Shaped, Resolving, HintsRight
    <2>6. Holding' /\ HintsFew'
        BY <2>1, <2>2, <2>4 DEF Holding, HintsFew
    <2>7. QED
        BY <2>5, <2>6
<1>3. QED
    BY <1>1, <1>2

LEMMA ForwardNext ==
    ASSUME Scores, ForwardInv, [Next]_vars
    PROVE  ForwardInv'
<1>1. ASSUME NEW s \in 1 .. MaxBatch, NEW dec \in BOOLEAN,
             NEW toks \in [1 .. s -> Tokens], Begin(toks, dec)
      PROVE  ForwardInv'
    BY <1>1, BeginKeeps
<1>2. QED
    BY <1>1, AttentionKeeps, ResidentKeeps, RouteKeeps, ResolveKeeps,
       ChunkKeeps, OthersKeep DEF Next

\* The invariant that the two properties follow from.
THEOREM ForwardInvariant ==
    ASSUME Scores
    PROVE  Spec => []ForwardInv
<1>1. Init => ForwardInv
    BY InitForward
<1>2. ForwardInv /\ [Next]_vars => ForwardInv'
    BY ForwardNext
<1>3. QED
    BY <1>1, <1>2, PTL DEF Spec

\* When a chunk is computed, every expert that one of its tokens takes (those
\* with fewer than TopK better ones) has a view of this layer, and the cache
\* still holds it; and the pilot hints experts of sparse layers only.
THEOREM ViewsAreResolved ==
    ASSUME Scores
    PROVE  Spec => []ViewsResolved
<1>1. ForwardInv => ViewsResolved
    <2>1. SUFFICES ASSUME ForwardInv
                   PROVE  ViewsResolved
        OBVIOUS
    <2>2. ASSUME pc = "resolve", \A e \in marked : views[e] # Null,
                 NEW t \in ChunkTokens, NEW e \in RefExperts(l, x[t])
          PROVE  Usable(l, e)
        <3>1. e \in Range(Route(l, x[t])) /\ e \in Ids
            BY <2>1, <2>2, RouteIs DEF ForwardInv, Shaped
        <3>2. e \in ChunkUnion(l, {x[u] : u \in ChunkTokens})
            BY <2>2, <3>1 DEF ChunkUnion
        <3>3. e \in marked
            BY <2>1, <2>2, <3>2 DEF ForwardInv, Resolving
        <3>4. QED
            BY <2>1, <2>2, <3>1, <3>3 DEF ForwardInv, Resolving, Usable
    <2>3. HintsRight
        BY <2>1 DEF ForwardInv
    <2>4. QED
        BY <2>2, <2>3 DEF ViewsResolved, HintsRight
<1>2. QED
    BY <1>1, ForwardInvariant, PTL

\* Of a layer the cache never holds more experts without a hint than the
\* tokens of a chunk can take, and as many again for each call that failed in
\* the middle; nor more by hints than one call can give, as many again for
\* each failed one, and those whose loads are late.
THEOREM LiveUnionIsBounded ==
    ASSUME Scores
    PROVE  Spec => []LiveUnionBounded
<1>1. ASSUME ForwardInv, NEW i \in Layers
      PROVE  Cardinality(Own(i)) <= (faults + 1) * ChunkShare
    <2>1. ChunkShare \in Nat /\ faults \in Nat
        BY <1>1, BoundIs DEF ForwardInv, Shaped
    <2>2. (faults + 1) * ChunkShare = faults * ChunkShare + ChunkShare
          /\ faults * ChunkShare \in Nat
        BY <2>1, Products
    <2>3. PICK old \in SUBSET Ids : /\ Cardinality(old) <= faults * ChunkShare
                                   /\ Own(i) \subseteq old \cup Taken(i)
        BY <1>1 DEF ForwardInv, Holding
    <2>4. IsFiniteSet(old) /\ Cardinality(old) \in Nat
        BY <1>1, <2>3, HintedIs, FS_Subset, FS_CardinalityType DEF ForwardInv
    <2>5. IsFiniteSet(Taken(i)) /\ Cardinality(Taken(i)) \in Nat
          /\ Cardinality(Taken(i)) <= ChunkShare
        <3>1. CASE pc = "resolve" /\ i = l
            BY <1>1, <3>1, ChunkIsBounded DEF ForwardInv, Resolving, Taken
        <3>2. CASE ~(pc = "resolve" /\ i = l)
            <4>1. Taken(i) = {}
                BY <3>2 DEF Taken
            <4>2. IsFiniteSet({}) /\ Cardinality({}) = 0
                BY FS_EmptySet
            <4>3. QED
                BY <2>1, <4>1, <4>2
        <3>3. QED
            BY <3>1, <3>2
    <2>6. /\ IsFiniteSet(old \cup Taken(i)) /\ Cardinality(old \cap Taken(i)) \in Nat
          /\ Cardinality(old \cup Taken(i))
                = Cardinality(old) + Cardinality(Taken(i)) - Cardinality(old \cap Taken(i))
        BY <2>4, <2>5, FS_Union, FS_Intersection, FS_CardinalityType
    <2>7. Cardinality(Own(i)) <= Cardinality(old \cup Taken(i)) /\ Cardinality(Own(i)) \in Nat
        BY <2>3, <2>6, FS_Subset, FS_CardinalityType
    <2>8. \A o, k, c, p, b, d \in Nat : o <= p /\ k <= b /\ d <= o + k - c => d <= p + b
        OBVIOUS
    <2>9. QED
        BY <2>1, <2>2, <2>3, <2>4, <2>5, <2>6, <2>7, <2>8
<1>2. ASSUME ForwardInv, NEW i \in Layers
      PROVE  Cardinality(Hinted(i)) <= (faults + 1) * PilotShare + Backlog
    <2>1. PilotShare \in Nat /\ Backlog \in Nat /\ faults \in Nat /\ Fresh(i) \in {0, 1}
        BY <1>2, DepthIs, FreshIs, ForwardAssumption
           DEF ForwardInv, Shaped, ForwardAssumption
    <2>2. /\ faults + Fresh(i) \in Nat /\ faults + 1 \in Nat
          /\ faults + Fresh(i) <= faults + 1
        BY <2>1
    <2>3. /\ (faults + Fresh(i)) * PilotShare + Backlog \in Nat
          /\ (faults + Fresh(i)) * PilotShare + Backlog <= (faults + 1) * PilotShare + Backlog
          /\ (faults + 1) * PilotShare + Backlog \in Nat
        BY <2>1, <2>2, Shares
    <2>4. Cardinality(Hinted(i)) \in Nat
          /\ Cardinality(Hinted(i)) <= (faults + Fresh(i)) * PilotShare + Backlog
        BY <1>2, HintedIs DEF ForwardInv, HintsFew
    <2>5. QED
        BY <2>3, <2>4
<1>3. ForwardInv => LiveUnionBounded
    BY <1>1, <1>2 DEF LiveUnionBounded, Own
<1>4. QED
    BY <1>3, ForwardInvariant, PTL

----------------------------------------------------------------------------
(***************************************************************************)
(* Tuples: what joining, cutting and extending one does to its entries.    *)
(***************************************************************************)

\* f is a tuple of n entries, whatever they are.
Row(f, n) == n \in Nat /\ f = [i \in 1 .. n |-> f[i]]

\* Tuples can be joined, cut and extended.
LEMMA RowIs ==
    ASSUME NEW n \in Nat, NEW f, Row(f, n)
    PROVE  DOMAIN f = 1 .. n /\ Len(f) = n /\ f \in Seq({f[i] : i \in 1 .. n})
<1> DEFINE S == {f[i] : i \in 1 .. n}
<1>1. f = [i \in 1 .. n |-> f[i]]
    BY DEF Row
<1>2. DOMAIN f = 1 .. n /\ \A i \in 1 .. n : f[i] \in S
    BY <1>1
<1> HIDE DEF S
<1>3. f \in [1 .. n -> S]
    BY <1>1, <1>2
<1>4. f \in Seq(S) /\ Len(f) = n
    BY <1>3
<1>5. QED
    BY <1>2, <1>4 DEF S

\* A sequence is a tuple.
LEMMA RowOfSeq ==
    ASSUME NEW S, NEW f \in Seq(S)
    PROVE  Row(f, Len(f)) /\ Len(f) \in Nat
BY DEF Row

\* Two tuples of one length with the same entries are the same.
LEMMA SameRow ==
    ASSUME NEW n \in Nat, NEW f, NEW g, Row(f, n), Row(g, n), \A i \in 1 .. n : f[i] = g[i]
    PROVE  f = g
<1>1. f = [i \in 1 .. n |-> f[i]] /\ g = [i \in 1 .. n |-> g[i]]
    BY DEF Row
<1>2. [i \in 1 .. n |-> f[i]] = [i \in 1 .. n |-> g[i]]
    OBVIOUS
<1>3. QED
    BY <1>1, <1>2, Zenon

\* A name of its own for what the provers would take apart.
Join(f, g)   == f \o g
Extend(f, e) == Append(f, e)

\* What a joined tuple has where.
LEMMA Joined ==
    ASSUME NEW n \in Nat, NEW m \in Nat, NEW f, NEW g, Row(f, n), Row(g, m)
    PROVE  /\ Row(Join(f, g), n + m)
           /\ \A i \in 1 .. n : Join(f, g)[i] = f[i]
           /\ \A i \in 1 .. m : Join(f, g)[n + i] = g[i]
<1> DEFINE S == {f[i] : i \in 1 .. n} \cup {g[i] : i \in 1 .. m}
<1>1. f \in Seq(S) /\ Len(f) = n /\ g \in Seq(S) /\ Len(g) = m
    <2>1. f \in Seq({f[i] : i \in 1 .. n}) /\ Len(f) = n /\ DOMAIN f = 1 .. n
        BY RowIs
    <2>2. g \in Seq({g[i] : i \in 1 .. m}) /\ Len(g) = m /\ DOMAIN g = 1 .. m
        BY RowIs
    <2>3. \A i \in 1 .. n : f[i] \in S
        OBVIOUS
    <2>4. \A i \in 1 .. m : g[i] \in S
        OBVIOUS
    <2> HIDE DEF S
    <2>5. f \in [1 .. n -> S]
        BY <2>3 DEF Row
    <2>6. g \in [1 .. m -> S]
        BY <2>4 DEF Row
    <2>7. QED
        BY <2>1, <2>2, <2>5, <2>6
<1> HIDE DEF S
<1>2. /\ f \o g \in Seq(S) /\ Len(f \o g) = n + m
      /\ \A i \in 1 .. n + m : (f \o g)[i] = IF i <= n THEN f[i] ELSE g[i - n]
    BY <1>1
<1>3. Row(f \o g, n + m)
    BY <1>2, RowOfSeq
<1>4. QED
    BY <1>2, <1>3 DEF Join

\* What a cut of a tuple has where.
LEMMA CutRow ==
    ASSUME NEW n \in Nat, NEW f, Row(f, n), NEW a \in Nat, NEW b \in Nat,
           1 <= a, a <= b + 1, b <= n
    PROVE  /\ Row(SubSeq(f, a, b), b + 1 - a)
           /\ \A i \in 1 .. b + 1 - a : SubSeq(f, a, b)[i] = f[a + i - 1]
<1>1. SubSeq(f, a, b) = [i \in 1 .. b + 1 - a |-> f[a + i - 1]]
    <2>1. f \in Seq({f[i] : i \in 1 .. n}) /\ Len(f) = n
        BY RowIs
    <2> DEFINE S == {f[i] : i \in 1 .. n}
    <2> HIDE DEF S
    <2>2. SubSeq(f, a, b) = [i \in 1 .. (1 + b - a) |-> f[i + a - 1]]
        BY <2>1
    <2>3. QED
        BY <2>2
<1>2. QED
    BY <1>1 DEF Row

\* What an extended tuple has where.
LEMMA OneMore ==
    ASSUME NEW n \in Nat, NEW f, Row(f, n), NEW e
    PROVE  /\ Row(Extend(f, e), n + 1)
           /\ \A i \in 1 .. n : Extend(f, e)[i] = f[i]
           /\ Extend(f, e)[n + 1] = e
<1> DEFINE S == {f[i] : i \in 1 .. n} \cup {e}
<1>1. f \in Seq(S) /\ Len(f) = n /\ e \in S
    <2>1. f \in Seq({f[i] : i \in 1 .. n}) /\ Len(f) = n
        BY RowIs
    <2>2. \A i \in 1 .. n : f[i] \in S
        OBVIOUS
    <2>3. e \in S
        OBVIOUS
    <2> HIDE DEF S
    <2>4. f \in [1 .. n -> S]
        BY <2>2 DEF Row
    <2>5. QED
        BY <2>1, <2>3, <2>4
<1> HIDE DEF S
<1>2. /\ Append(f, e) \in Seq(S) /\ Len(Append(f, e)) = n + 1
      /\ \A i \in 1 .. n + 1 : Append(f, e)[i] = IF i = n + 1 THEN e ELSE f[i]
    BY <1>1
<1>3. Row(Append(f, e), n + 1)
    BY <1>2, RowOfSeq
<1>4. QED
    BY <1>2, <1>3 DEF Extend

----------------------------------------------------------------------------
(***************************************************************************)
(* The feed-forward of a token, and the model layer by layer.              *)
(***************************************************************************)

MoeAdds(c, y, i) == IF i - 1 \in c[3] THEN Add(y, Weighted(c[1], c[2], c[3], i - 1)) ELSE y
RefAdds(c, y, e) == IF e \in c[3] THEN Add(y, Weighted(c[1], c[2], c[3], e)) ELSE y
MoeLoop == INSTANCE FoldFacts WITH Op <- MoeAdds
RefSum  == INSTANCE FoldFacts WITH Op <- RefAdds

\* The sum over the experts in the order of their numbers is the loop's.
LEMMA SumIsTheLoop ==
    ASSUME NEW c, NEW m \in Nat
    PROVE  RefSum!Fold(c, 0, [i \in 1 .. m |-> i - 1]) = MoeLoop!Loop(c, 0, m)
<1> DEFINE Up(k) == [i \in 1 .. k |-> i - 1]
           P == {k \in Nat : RefSum!Fold(c, 0, Up(k)) = MoeLoop!Loop(c, 0, k)}
<1>1. 0 \in P
    <2>1. Up(0) = <<>>
        OBVIOUS
    <2>2. RefSum!Fold(c, 0, <<>>) = 0
        BY RefSum!FoldEmpty
    <2>3. MoeLoop!Loop(c, 0, 0) = 0
        BY MoeLoop!LoopEmpty
    <2>4. QED
        BY <2>1, <2>2, <2>3
<1>2. ASSUME NEW k \in Nat, k \in P
      PROVE  k + 1 \in P
    <2>1. DOMAIN Up(k) = 1 .. k /\ DOMAIN Up(k + 1) = 1 .. k + 1
          /\ (\A i \in 1 .. k : Up(k)[i] = Up(k + 1)[i])
          /\ Up(k + 1)[k + 1] = k /\ k + 1 \in Nat
        OBVIOUS
    <2>2. RefSum!Fold(c, 0, Up(k)) = MoeLoop!Loop(c, 0, k)
        BY <1>2
    <2> HIDE DEF Up
    <2>3. RefSum!Fold(c, 0, Up(k + 1)) = RefAdds(c, RefSum!Fold(c, 0, Up(k)), Up(k + 1)[k + 1])
        BY <2>1, RefSum!FoldStep
    <2>4. MoeLoop!Loop(c, 0, k + 1) = MoeAdds(c, MoeLoop!Loop(c, 0, k), k + 1)
        BY MoeLoop!LoopStep
    <2>5. MoeAdds(c, MoeLoop!Loop(c, 0, k), k + 1) = RefAdds(c, MoeLoop!Loop(c, 0, k), k)
        BY DEF MoeAdds, RefAdds
    <2>6. QED
        BY <2>1, <2>2, <2>3, <2>4, <2>5
<1>3. m \in P
    <2> HIDE DEF P
    <2>1. QED
        BY <1>1, <1>2, MoeLoop!NatSet
<1>4. QED
    BY <1>3

\* apus_gmoe_forward2 computes the model's sparse feed-forward.
LEMMA MoeIsTheModels ==
    ASSUME Scores, NEW lr \in Layers, Sparse(lr), NEW xt
    PROVE  MoeOf(lr, xt) = RefMlp(lr, xt)
<1> DEFINE sel == RefExperts(lr, xt)
           c == <<lr, xt, sel>>
<1>1. Range(Route(lr, xt)) = sel
    BY RouteIs
<1>2. c[1] = lr /\ c[2] = xt /\ c[3] = sel
    OBVIOUS
<1>3. E \in Nat
    BY ForwardAssumption DEF ForwardAssumption
<1> HIDE DEF sel, c
<1>4. MoeOf(lr, xt) = Add(MoeLoop!Loop(c, 0, E), Expert(lr, "shared", xt))
    BY <1>1, <1>2 DEF MoeOf, MoeLoop!Loop, MoeLoop!Looping, MoeAdds
<1>5. RefMlp(lr, xt) = Add(RefSum!Fold(c, 0, [i \in 1 .. E |-> i - 1]), Expert(lr, "shared", xt))
    BY <1>2 DEF sel, RefMlp, RefSum!Fold, RefAdds, FoldLeft, MapThenFoldSet, Max,
                RefSum!FoldLeft, RefSum!MapThenFoldSet, RefSum!Max
<1>6. QED
    BY <1>3, <1>4, <1>5, SumIsTheLoop

\* The rows of layer 0 .. L that the text has, and what a layer works on.
NextLayer(c, hs, lr) == RefLayer(hs, lr)
LayerFold == INSTANCE FoldFacts WITH Op <- NextLayer

Embedded(toks)    == [t \in DOMAIN toks |-> Embed(toks[t])]
Hidden(toks, k)   == LayerFold!Fold(0, Embedded(toks), [i \in 1 .. k |-> i])
Inputs(toks, lr)  == [t \in DOMAIN toks |-> In(lr, "attn", Hidden(toks, lr - 1)[t])]
Middles(toks, lr) == [t \in DOMAIN toks |->
    Out(lr, "attn", Hidden(toks, lr - 1)[t], RefAttention(lr, Inputs(toks, lr), t))]
Sites(toks, lr)   == [t \in DOMAIN toks |-> In(lr, "ffn", Middles(toks, lr)[t])]

\* A tuple, as a tuple, is itself.
LEMMA TupleIs ==
    ASSUME NEW n \in Nat, NEW f, Row(f, n)
    PROVE  Tuple(f) = f
<1>1. Len(f) = n
    BY RowIs
<1>2. Row(SubSeq(f, 1, n), n) /\ \A i \in 1 .. n : SubSeq(f, 1, n)[i] = f[i]
    <2>1. 1 \in Nat /\ 1 <= n + 1 /\ n <= n
        OBVIOUS
    <2>2. /\ Row(SubSeq(f, 1, n), n + 1 - 1)
          /\ \A i \in 1 .. n + 1 - 1 : SubSeq(f, 1, n)[i] = f[1 + i - 1]
        BY <2>1, CutRow
    <2>3. n + 1 - 1 = n /\ \A i \in 1 .. n : 1 + i - 1 = i
        OBVIOUS
    <2>4. QED
        BY <2>2, <2>3
<1>3. QED
    BY <1>1, <1>2, SameRow DEF Tuple

\* What the reference makes of the rows of a layer.
LEMMA LayerIs ==
    ASSUME NEW n \in Nat, NEW hs, Row(hs, n), NEW lr,
           NEW a, a = [t \in 1 .. n |-> In(lr, "attn", hs[t])],
           NEW m, m = [t \in 1 .. n |-> Out(lr, "attn", hs[t], RefAttention(lr, a, t))]
    PROVE  RefLayer(hs, lr) =
            [t \in 1 .. n |-> Out(lr, "ffn", m[t], RefMlp(lr, In(lr, "ffn", m[t])))]
<1> DEFINE y == [t \in 1 .. n |-> Out(lr, "ffn", m[t], RefMlp(lr, In(lr, "ffn", m[t])))]
<1>1. DOMAIN hs = 1 .. n
    BY RowIs
<1>2. Row(a, n) /\ Row(m, n) /\ Row(y, n)
    BY DEF Row
<1>3. Tuple(a) = a /\ Tuple(m) = m /\ Tuple(y) = y
    <2> HIDE DEF y
    <2>1. QED
        BY <1>2, TupleIs
<1> DEFINE A == Tuple([t \in DOMAIN hs |-> In(lr, "attn", hs[t])])
           M == Tuple([t \in DOMAIN hs |-> Out(lr, "attn", hs[t], RefAttention(lr, A, t))])
<1>4. RefLayer(hs, lr) =
        Tuple([t \in DOMAIN hs |-> Out(lr, "ffn", M[t], RefMlp(lr, In(lr, "ffn", M[t])))])
    BY DEF RefLayer
<1>5. A = a
    BY <1>1, <1>3
<1> HIDE DEF A
<1>6. M = m
    BY <1>1, <1>3, <1>5
<1> HIDE DEF M
<1>7. RefLayer(hs, lr) = Tuple(y)
    BY <1>1, <1>4, <1>6
<1>8. QED
    BY <1>3, <1>7

\* Before the first layer the rows are the embeddings.
LEMMA HiddenStarts ==
    ASSUME NEW toks
    PROVE  Hidden(toks, 0) = Embedded(toks)
<1>1. [i \in 1 .. 0 |-> i] = <<>>
    OBVIOUS
<1>2. LayerFold!Fold(0, Embedded(toks), <<>>) = Embedded(toks)
    BY LayerFold!FoldEmpty
<1>3. QED
    BY <1>1, <1>2 DEF Hidden

\* Each layer works on the rows of the one before it.
LEMMA HiddenStep ==
    ASSUME NEW toks, NEW k \in Nat
    PROVE  Hidden(toks, k + 1) = RefLayer(Hidden(toks, k), k + 1)
<1> DEFINE Up(m) == [i \in 1 .. m |-> i]
<1>1. /\ DOMAIN Up(k) = 1 .. k /\ DOMAIN Up(k + 1) = 1 .. k + 1
      /\ (\A i \in 1 .. k : Up(k)[i] = Up(k + 1)[i]) /\ Up(k + 1)[k + 1] = k + 1
    OBVIOUS
<1>2. Hidden(toks, k) = LayerFold!Fold(0, Embedded(toks), Up(k))
      /\ Hidden(toks, k + 1) = LayerFold!Fold(0, Embedded(toks), Up(k + 1))
    BY DEF Hidden
<1> HIDE DEF Up
<1>3. LayerFold!Fold(0, Embedded(toks), Up(k + 1))
        = NextLayer(0, LayerFold!Fold(0, Embedded(toks), Up(k)), Up(k + 1)[k + 1])
    BY <1>1, LayerFold!FoldStep
<1>4. QED
    BY <1>1, <1>2, <1>3 DEF NextLayer

\* Each layer has a row for each token, made of what the layer works on.
LEMMA HiddenIs ==
    ASSUME NEW toks, NEW n \in Nat, Row(toks, n), NEW k \in Nat
    PROVE  /\ Row(Hidden(toks, k), n)
           /\ Row(Inputs(toks, k + 1), n) /\ Row(Middles(toks, k + 1), n)
           /\ \A t \in 1 .. n :
                Hidden(toks, k + 1)[t] =
                    Out(k + 1, "ffn", Middles(toks, k + 1)[t], RefMlp(k + 1, Sites(toks, k + 1)[t]))
<1> DEFINE P == {m \in Nat : Row(Hidden(toks, m), n)}
<1>0. DOMAIN toks = 1 .. n
    BY RowIs
<1>1. 0 \in P
    <2>1. Row(Embedded(toks), n)
        BY <1>0 DEF Embedded, Row
    <2>2. QED
        BY <2>1, HiddenStarts
<1>2. ASSUME NEW m \in Nat, Row(Hidden(toks, m), n)
      PROVE  Hidden(toks, m + 1) = [t \in 1 .. n |->
                Out(m + 1, "ffn", Middles(toks, m + 1)[t], RefMlp(m + 1, Sites(toks, m + 1)[t]))]
    <2> DEFINE a == Inputs(toks, m + 1)
               b == Middles(toks, m + 1)
               hs == Hidden(toks, m)
    <2>1. (m + 1) - 1 = m
        OBVIOUS
    <2>2. a = [t \in 1 .. n |-> In(m + 1, "attn", hs[t])]
        BY <1>0, <2>1 DEF Inputs
    <2>3. b = [t \in 1 .. n |-> Out(m + 1, "attn", hs[t], RefAttention(m + 1, a, t))]
        BY <1>0, <2>1 DEF Middles
    <2>4. \A t \in 1 .. n : Sites(toks, m + 1)[t] = In(m + 1, "ffn", b[t])
        BY <1>0 DEF Sites
    <2> HIDE DEF a, b, hs
    <2>5. RefLayer(hs, m + 1) =
            [t \in 1 .. n |-> Out(m + 1, "ffn", b[t], RefMlp(m + 1, In(m + 1, "ffn", b[t])))]
        <3>1. Row(hs, n)
            BY <1>2 DEF hs
        <3>2. QED
            BY <2>2, <2>3, <3>1, LayerIs
    <2>6. QED
        BY <2>4, <2>5, HiddenStep DEF b, hs
<1>3. ASSUME NEW m \in Nat, m \in P
      PROVE  m + 1 \in P
    <2>1. Row(Hidden(toks, m + 1), n)
        BY <1>2, <1>3 DEF Row
    <2>2. QED
        BY <2>1
<1>4. k \in P
    <2> HIDE DEF P
    <2>1. QED
        BY <1>1, <1>3, NatSet
<1>5. Row(Inputs(toks, k + 1), n) /\ Row(Middles(toks, k + 1), n)
    BY <1>0 DEF Row, Inputs, Middles
<1>6. QED
    BY <1>2, <1>4, <1>5

----------------------------------------------------------------------------
(***************************************************************************)
(* The pools a token looks back on: those of the call, over all the rows   *)
(* of the cache, are those of the model, over the rows up to the token.    *)
(***************************************************************************)

\* A query at the end of t rows may use the pools that end before.
PassedPools(t) == {p \in Nat : PoolEnd(p) < t}

\* A pool has rows, and pools are attended to.
LEMMA PoolSize == KPool \in Nat /\ KPool > 0 /\ Pools \in Nat /\ Pools > 0
BY ForwardAssumption DEF ForwardAssumption

\* Where a pool ends.
LEMMA EndsAre ==
    /\ \A p \in Nat : p * KPool \in Nat /\ PoolEnd(p) \in Nat /\ p <= PoolEnd(p)
                      /\ PoolEnd(p) = p * KPool + KPool - 1 /\ PoolEnd(p) + 1 = (p + 1) * KPool
    /\ \A p, q \in Nat : p <= q => p * KPool <= q * KPool /\ PoolEnd(p) <= PoolEnd(q)
<1>1. ASSUME NEW p \in Nat
      PROVE  p * KPool \in Nat /\ p <= p * KPool /\ (p + 1) * KPool = p * KPool + KPool
    BY PoolSize
<1>2. ASSUME NEW p \in Nat, NEW q \in Nat, p <= q
      PROVE  p * KPool <= q * KPool
    BY <1>2, PoolSize
<1>3. QED
    BY <1>1, <1>2, PoolSize DEF PoolEnd

\* Every number of rows is so many full pools and a rest.
LEMMA Quotient ==
    ASSUME NEW n \in Nat
    PROVE  /\ n \div KPool \in Nat /\ n % KPool \in Nat /\ n % KPool < KPool
           /\ n = (n \div KPool) * KPool + (n % KPool)
BY PoolSize

\* The pool that a row is in.
LEMMA QuotientIs ==
    ASSUME NEW n \in Nat, NEW q \in Nat
    PROVE  (n \div KPool = q) <=> (q * KPool <= n /\ n < q * KPool + KPool)
<1> DEFINE d == n \div KPool
<1>1. d \in Nat /\ d * KPool <= n /\ n < d * KPool + KPool /\ d * KPool \in Nat
    BY PoolSize, Quotient
<1>2. q * KPool \in Nat
    BY PoolSize
<1> HIDE DEF d
<1>3. ASSUME q * KPool <= n, n < q * KPool + KPool
      PROVE  d = q
    <2>1. ~(d < q)
        <3>1. SUFFICES ASSUME d + 1 <= q
                       PROVE  FALSE
            BY <1>1
        <3>2. (d + 1) * KPool <= q * KPool
            BY <1>1, <3>1, EndsAre
        <3>3. (d + 1) * KPool = d * KPool + KPool
            BY <1>1, PoolSize
        <3>4. QED
            BY <1>1, <1>2, <1>3, <3>2, <3>3, PoolSize
    <2>2. ~(q < d)
        <3>1. SUFFICES ASSUME q + 1 <= d
                       PROVE  FALSE
            BY <1>1
        <3>2. (q + 1) * KPool <= d * KPool
            BY <1>1, <3>1, EndsAre
        <3>3. (q + 1) * KPool = q * KPool + KPool
            BY <1>1, PoolSize
        <3>4. QED
            BY <1>1, <1>2, <1>3, <3>2, <3>3, PoolSize
    <2>3. QED
        BY <1>1, <2>1, <2>2
<1>4. QED
    BY <1>1, <1>3 DEF d

\* The whole pools of n rows are those that end before them.
LEMMA WholePools ==
    ASSUME NEW n \in Nat
    PROVE  \A p \in Nat : p < n \div KPool <=> PoolEnd(p) < n
<1> DEFINE d == n \div KPool
<1>1. d \in Nat /\ d * KPool <= n /\ n < d * KPool + KPool /\ d * KPool \in Nat
    BY PoolSize, Quotient
<1> HIDE DEF d
<1>2. SUFFICES ASSUME NEW p \in Nat
               PROVE  p < d <=> PoolEnd(p) < n
    BY DEF d
<1>3. /\ p * KPool \in Nat /\ PoolEnd(p) \in Nat
      /\ PoolEnd(p) + 1 = (p + 1) * KPool /\ PoolEnd(p) = p * KPool + KPool - 1
    BY EndsAre
<1>4. CASE p < d
    <2>1. (p + 1) * KPool <= d * KPool
        BY <1>1, <1>4, EndsAre
    <2>2. QED
        BY <1>1, <1>3, <1>4, <2>1
<1>5. CASE d <= p
    <2>1. d * KPool <= p * KPool
        BY <1>1, <1>5, EndsAre
    <2>2. QED
        BY <1>1, <1>3, <1>5, <2>1, PoolSize
<1>6. QED
    BY <1>1, <1>4, <1>5

\* What the proofs assume of the indexer's scores: they can be compared, and
\* none is below that of a pool that may not be used (-FLT_MAX in the code).
PoolScores == \A lr \in Layers : \A xt, rows :
                PoolScore(lr, xt, rows) \in Int /\ PoolScore(lr, xt, rows) >= Unseen

\* The score of a pool for the last of t rows.
ScoreOf(lr, a, t, p) == PoolScore(lr, a[t], SubSeq(a, p * KPool + 1, PoolEnd(p) + 1))
BetterPools(lr, a, t, p) ==
    {q \in PassedPools(t) : \/ ScoreOf(lr, a, t, q) > ScoreOf(lr, a, t, p)
                            \/ ScoreOf(lr, a, t, q) = ScoreOf(lr, a, t, p) /\ q < p}
BestPools(lr, a, t) == {p \in PassedPools(t) : Cardinality(BetterPools(lr, a, t, p)) < Pools}

\* The reference's pools, over the rows up to the token or over all of them.
LEMMA RefPoolsAre ==
    ASSUME NEW lr, NEW n \in Nat, NEW a, Row(a, n), NEW t \in 1 .. n
    PROVE  RefPools(lr, a, t) = BestPools(lr, a, t)
<1> DEFINE passed == {p \in 0 .. Len(a) : PoolEnd(p) < t}
           score(p) == PoolScore(lr, a[t], SubSeq(a, p * KPool + 1, PoolEnd(p) + 1))
           better(p) == {q \in passed : score(q) > score(p) \/ (score(q) = score(p) /\ q < p)}
<1>1. Len(a) = n
    BY RowIs
<1>2. passed = PassedPools(t)
    <2>1. \A p \in Nat : PoolEnd(p) \in Nat /\ p <= PoolEnd(p)
        BY EndsAre
    <2>2. QED
        BY <1>1, <2>1 DEF PassedPools
<1>3. RefPools(lr, a, t) = {p \in passed : Cardinality(better(p)) < Pools}
    BY DEF RefPools
<1>4. \A p : score(p) = ScoreOf(lr, a, t, p)
    BY DEF ScoreOf
<1> HIDE DEF score
<1>5. \A p : better(p) = BetterPools(lr, a, t, p)
    BY <1>2, <1>4 DEF BetterPools
<1> HIDE DEF passed, better
<1>6. QED
    BY <1>2, <1>3, <1>5 DEF BestPools

\* What a query attends to, as the reference has it.
Chosen(lr, a, t) ==
    {i \in 0 .. t - 1 : i \div KPool = t \div KPool}
        \cup UNION {PoolRows(p) : p \in BestPools(lr, a, t)}

\* A token attends to no row behind it.
LEMMA ChosenAre ==
    ASSUME NEW lr, NEW a, NEW t \in Nat
    PROVE  Chosen(lr, a, t) \subseteq 0 .. t - 1
<1>1. SUFFICES ASSUME NEW p \in BestPools(lr, a, t)
               PROVE  PoolRows(p) \subseteq 0 .. t - 1
    BY DEF Chosen
<1>2. p \in Nat /\ PoolEnd(p) < t
    BY DEF BestPools, PassedPools
<1>3. p * KPool \in Nat /\ PoolEnd(p) \in Nat
    BY <1>2, EndsAre
<1>4. QED
    BY <1>2, <1>3 DEF PoolRows

\* A row's attention depends on the rows up to its own only.
LEMMA PoolsLookBack ==
    ASSUME NEW lr, NEW t \in Nat, NEW n \in Nat, NEW m \in Nat, t <= n, t <= m, t > 0,
           NEW a, Row(a, n), NEW b, Row(b, m), \A i \in 1 .. t : a[i] = b[i]
    PROVE  BestPools(lr, a, t) = BestPools(lr, b, t)
<1>1. ASSUME NEW p \in PassedPools(t)
      PROVE  ScoreOf(lr, a, t, p) = ScoreOf(lr, b, t, p)
    <2> DEFINE from == p * KPool + 1
               to   == PoolEnd(p) + 1
    <2>1. /\ p \in Nat /\ PoolEnd(p) < t /\ p * KPool \in Nat /\ PoolEnd(p) \in Nat
          /\ PoolEnd(p) = p * KPool + KPool - 1
        BY EndsAre DEF PassedPools
    <2>2. from \in Nat /\ to \in Nat /\ 1 <= from /\ from <= to + 1 /\ to <= t /\ to <= n /\ to <= m
        BY <2>1, PoolSize
    <2> HIDE DEF from, to
    <2>3. /\ Row(SubSeq(a, from, to), to + 1 - from)
          /\ \A i \in 1 .. to + 1 - from : SubSeq(a, from, to)[i] = a[from + i - 1]
        BY <2>2, CutRow
    <2>4. /\ Row(SubSeq(b, from, to), to + 1 - from)
          /\ \A i \in 1 .. to + 1 - from : SubSeq(b, from, to)[i] = b[from + i - 1]
        BY <2>2, CutRow
    <2>5. ASSUME NEW i \in 1 .. to + 1 - from
          PROVE  SubSeq(a, from, to)[i] = SubSeq(b, from, to)[i]
        <3>1. from + i - 1 \in 1 .. t
            BY <2>2
        <3>2. QED
            BY <2>3, <2>4, <3>1
    <2>6. SubSeq(a, from, to) = SubSeq(b, from, to)
        <3>1. to + 1 - from \in Nat
            BY <2>2
        <3>2. QED
            BY <2>3, <2>4, <2>5, <3>1, SameRow
    <2>7. a[t] = b[t]
        OBVIOUS
    <2>8. QED
        BY <2>6, <2>7 DEF ScoreOf, from, to
<1>2. ASSUME NEW p \in PassedPools(t)
      PROVE  BetterPools(lr, a, t, p) = BetterPools(lr, b, t, p)
    BY <1>1 DEF BetterPools
<1>3. QED
    BY <1>2 DEF BestPools

\* The rows of the pool that the next row is in.
LEMMA OwnPool ==
    ASSUME NEW t \in Nat
    PROVE  t - (t % KPool) .. t - 1 = {i \in 0 .. t - 1 : i \div KPool = t \div KPool}
<1> DEFINE q == t \div KPool
           d == t % KPool
<1>1. q \in Nat /\ d \in Nat /\ d < KPool /\ t = q * KPool + d /\ q * KPool \in Nat
    BY Quotient, PoolSize
<1>2. \A i \in Nat : (i \div KPool = q) <=> (q * KPool <= i /\ i < q * KPool + KPool)
    BY <1>1, QuotientIs
<1> HIDE DEF q, d
<1>3. ASSUME NEW i \in 0 .. t - 1
      PROVE  (i \div KPool = q) <=> (t - d <= i)
    <2>1. i \in Nat /\ i <= t - 1
        OBVIOUS
    <2>2. (i \div KPool = q) <=> (q * KPool <= i /\ i < q * KPool + KPool)
        BY <1>2, <2>1
    <2>3. (q * KPool <= i /\ i < q * KPool + KPool) <=> (t - d <= i)
        <3> DEFINE w == q * KPool
        <3>1. w \in Nat /\ t = w + d
            BY <1>1
        <3> HIDE DEF w
        <3>2. (w <= i /\ i < w + KPool) <=> (t - d <= i)
            BY <1>1, <2>1, <3>1, PoolSize
        <3>3. QED
            BY <3>2 DEF w
    <2>4. QED
        BY <2>2, <2>3
<1>4. t - d \in Nat
    BY <1>1
<1>5. t - d .. t - 1 = {i \in 0 .. t - 1 : i \div KPool = q}
    BY <1>3, <1>4
<1>6. QED
    BY <1>5 DEF q, d

\* The scores of the pools as apus_gdsa_indexer keeps them.
Scored(lr, rows, n, t) ==
    [p \in 0 .. (n \div KPool) - 1 |->
        IF PoolEnd(p) > t - 1 THEN Unseen ELSE ScoreOf(lr, rows, t, p)]

\* A pool that was passed loses to the same pools in a call's row of scores,
\* in which the ones not passed have Unseen.
LEMMA BetterScored ==
    ASSUME PoolScores, NEW lr \in Layers, NEW rows, NEW n \in Nat, NEW t \in 1 .. n,
           NEW p \in PassedPools(t)
    PROVE  Better(Scored(lr, rows, n, t), n \div KPool, p) = BetterPools(lr, rows, t, p)
<1> DEFINE full == n \div KPool
           row  == Scored(lr, rows, n, t)
<1>1. full \in Nat /\ t \in Nat /\ t <= n
    BY Quotient
<1>2. \A q \in Nat : PoolEnd(q) \in Nat /\ (q < full <=> PoolEnd(q) < n)
    BY WholePools, EndsAre
<1>3. \A q : ScoreOf(lr, rows, t, q) \in Int /\ ScoreOf(lr, rows, t, q) >= -1
    BY DEF PoolScores, ScoreOf, Unseen
<1>4. ASSUME NEW q \in PassedPools(t)
      PROVE  q \in 0 .. full - 1 /\ row[q] = ScoreOf(lr, rows, t, q)
    <2>1. q \in Nat /\ PoolEnd(q) < t /\ PoolEnd(q) \in Nat
        BY <1>2 DEF PassedPools
    <2>2. q \in 0 .. full - 1
        BY <1>1, <1>2, <2>1
    <2>3. ~(PoolEnd(q) > t - 1)
        BY <1>1, <2>1
    <2>4. QED
        BY <2>2, <2>3 DEF Scored
<1>5. ASSUME NEW q \in 0 .. full - 1, q \notin PassedPools(t)
      PROVE  row[q] = -1 /\ q > p
    <2>1. q \in Nat /\ PoolEnd(q) \in Nat /\ ~(PoolEnd(q) < t)
        BY <1>1, <1>2, <1>5 DEF PassedPools
    <2>2. row[q] = -1
        BY <1>1, <1>5, <2>1 DEF Scored, Unseen
    <2>3. p \in Nat /\ PoolEnd(p) < t /\ PoolEnd(p) \in Nat
        BY <1>2 DEF PassedPools
    <2>4. q <= p => PoolEnd(q) <= PoolEnd(p)
        BY <2>1, <2>3, EndsAre
    <2>5. QED
        BY <1>1, <2>1, <2>2, <2>3, <2>4
<1> HIDE DEF full, row
<1>6. Better(row, full, p) = BetterPools(lr, rows, t, p)
    <2>1. p \in 0 .. full - 1 /\ row[p] = ScoreOf(lr, rows, t, p) /\ row[p] >= -1 /\ row[p] \in Int
        BY <1>3, <1>4
    <2>2. ASSUME NEW q \in Better(row, full, p)
          PROVE  q \in BetterPools(lr, rows, t, p)
        <3>1. q \in 0 .. full - 1 /\ (row[q] > row[p] \/ (row[q] = row[p] /\ q < p))
            BY DEF Better
        <3>2. q \in PassedPools(t)
            <4>1. SUFFICES ASSUME q \notin PassedPools(t)
                           PROVE  FALSE
                OBVIOUS
            <4>2. row[q] = -1 /\ q > p
                BY <1>5, <3>1, <4>1
            <4>3. p \in Int /\ q \in Int
                BY <1>1, <2>1, <3>1
            <4>4. QED
                BY <2>1, <3>1, <4>2, <4>3
        <3>3. QED
            BY <1>4, <2>1, <3>1, <3>2 DEF BetterPools
    <2>3. ASSUME NEW q \in BetterPools(lr, rows, t, p)
          PROVE  q \in Better(row, full, p)
        BY <1>4, <2>1 DEF BetterPools, Better
    <2>4. QED
        BY <2>2, <2>3
<1>7. QED
    BY <1>6 DEF full, row

\* apus_gdsa_indexer selects what the reference has.
LEMMA SelectIs ==
    ASSUME PoolScores, NEW lr \in Layers, NEW rows, NEW n \in Nat, NEW t \in 1 .. n
    PROVE  Select(lr, rows[t], rows, n, t - 1) = Chosen(lr, rows, t)
<1> DEFINE full == n \div KPool
           row  == Scored(lr, rows, n, t)
           k    == Min({Pools, full})
           best == TopKStable(row, k)
<1>1. full \in Nat /\ t \in Nat /\ t <= n /\ t - 1 + 1 = t
    BY Quotient
<1>2. k \in 0 .. full /\ k <= Pools /\ (k = Pools \/ k = full)
    <2> HIDE DEF full
    <2>1. QED
        BY <1>1, PoolSize, MinOfTwo
<1>3. Select(lr, rows[t], rows, n, t - 1) =
        (t - (t % KPool) .. t - 1)
            \cup UNION {PoolRows(best[j]) : j \in {i \in DOMAIN best : PoolEnd(best[i]) <= t - 1}}
    <2>1. Select(lr, rows[t], rows, n, t - 1) =
            (t - 1 + 1 - ((t - 1 + 1) % KPool) .. t - 1)
                \cup UNION {PoolRows(best[j]) : j \in {i \in DOMAIN best : PoolEnd(best[i]) <= t - 1}}
        BY DEF Select, Scored, ScoreOf
    <2>2. t - 1 + 1 = t /\ t % KPool \in Nat
        BY <1>1, Quotient
    <2> DEFINE S == UNION {PoolRows(best[j]) : j \in {i \in DOMAIN best : PoolEnd(best[i]) <= t - 1}}
               w == t - 1 + 1
               lo == t - 1 + 1 - (w % KPool)
    <2>3. Select(lr, rows[t], rows, n, t - 1) = (lo .. t - 1) \cup S
        BY <2>1
    <2>4. lo = t - (t % KPool)
        <3>1. w = t
            BY <2>2
        <3> HIDE DEF w
        <3>2. QED
            BY <1>1, <2>2, <3>1
    <2> HIDE DEF S, lo
    <2>5. QED
        BY <2>3, <2>4 DEF S
<1>4. row \in [0 .. full - 1 -> Int]
    BY DEF PoolScores, ScoreOf, Scored, Unseen
<1>5. ASSUME NEW p \in PassedPools(t)
      PROVE  p \in 0 .. full - 1 /\ Better(row, full, p) = BetterPools(lr, rows, t, p)
    <2>1. p \in Nat /\ PoolEnd(p) < t /\ PoolEnd(p) \in Nat /\ (p < full <=> PoolEnd(p) < n)
        BY WholePools, EndsAre DEF PassedPools
    <2>2. Better(row, full, p) = BetterPools(lr, rows, t, p)
        BY BetterScored
    <2>3. QED
        BY <1>1, <2>1, <2>2
<1> HIDE DEF full, row, k
<1>6. Range(best) = BestOf(row, full, k) /\ best \in Seq(0 .. full - 1)
    BY <1>1, <1>2, <1>4, TheBest
<1> HIDE DEF best
<1>7. ASSUME NEW p \in PassedPools(t)
      PROVE  p \in BestOf(row, full, k) <=> p \in BestPools(lr, rows, t)
    <2>1. p \in 0 .. full - 1 /\ Better(row, full, p) = BetterPools(lr, rows, t, p)
        BY <1>5
    <2> DEFINE c == Cardinality(BetterPools(lr, rows, t, p))
    <2>2. c \in Nat /\ c < full
        <3>1. Better(row, full, p) \subseteq (0 .. full - 1) \ {p}
            BY <1>1, <1>4, <2>1 DEF Better
        <3>2. IsFiniteSet(0 .. full - 1) /\ Cardinality(0 .. full - 1) = full
            BY <1>1, FS_Interval
        <3>3. IsFiniteSet((0 .. full - 1) \ {p}) /\ Cardinality((0 .. full - 1) \ {p}) = full - 1
            BY <2>1, <3>2, FS_RemoveElement
        <3>4. Cardinality(Better(row, full, p)) <= full - 1
            BY <3>1, <3>3, FS_Subset
        <3>5. Cardinality(Better(row, full, p)) \in Nat
            BY <1>1, <2>1, BetterIs
        <3>6. QED
            BY <1>1, <2>1, <3>4, <3>5
    <2>3. p \in BestOf(row, full, k) <=> c < k
        BY <2>1 DEF BestOf
    <2>4. p \in BestPools(lr, rows, t) <=> c < Pools
        BY DEF BestPools
    <2> HIDE DEF c
    <2>5. QED
        BY <1>1, <1>2, <2>2, <2>3, <2>4, PoolSize
<1>8. ASSUME NEW i \in DOMAIN best
      PROVE  /\ best[i] \in 0 .. full - 1 /\ best[i] \in BestOf(row, full, k)
             /\ (PoolEnd(best[i]) <= t - 1) <=> best[i] \in PassedPools(t)
    <2>1. best[i] \in 0 .. full - 1 /\ best[i] \in Nat
        BY <1>1, <1>6
    <2>2. best[i] \in Range(best)
        BY DEF Range
    <2>3. PoolEnd(best[i]) \in Nat
        BY <2>1, EndsAre
    <2>4. QED
        BY <1>1, <1>6, <2>1, <2>2, <2>3 DEF PassedPools
<1>9. {best[j] : j \in {i \in DOMAIN best : PoolEnd(best[i]) <= t - 1}} = BestPools(lr, rows, t)
    <2>1. ASSUME NEW i \in DOMAIN best, PoolEnd(best[i]) <= t - 1
          PROVE  best[i] \in BestPools(lr, rows, t)
        BY <1>7, <1>8, <2>1
    <2>2. ASSUME NEW p \in BestPools(lr, rows, t)
          PROVE  \E i \in DOMAIN best : PoolEnd(best[i]) <= t - 1 /\ best[i] = p
        <3>1. p \in PassedPools(t)
            BY DEF BestPools
        <3>2. p \in Range(best)
            BY <1>6, <1>7, <3>1
        <3>3. PICK i \in DOMAIN best : best[i] = p
            BY <3>2 DEF Range
        <3>4. QED
            BY <1>8, <3>1, <3>3
    <2>3. QED
        BY <2>1, <2>2
<1>10. UNION {PoolRows(best[j]) : j \in {i \in DOMAIN best : PoolEnd(best[i]) <= t - 1}}
        = UNION {PoolRows(p) : p \in BestPools(lr, rows, t)}
    BY <1>9
<1>11. t - (t % KPool) .. t - 1 = {i \in 0 .. t - 1 : i \div KPool = t \div KPool}
    BY <1>1, OwnPool
<1>12. QED
    BY <1>3, <1>10, <1>11 DEF Chosen

----------------------------------------------------------------------------
(***************************************************************************)
(* The attention of a call: on top of a state that has taken a text it     *)
(* gives the rows the model has for the text and the tokens of the call,   *)
(* and leaves a state that has taken both.                                 *)
(***************************************************************************)

KdaFold == INSTANCE FoldFacts WITH Op <- KdaStep

\* A layer is of one of two kinds.
LEMMA KindsAre == \A lr \in Layers : Attention[lr] = "kda" \/ Attention[lr] = "dsa"
BY ForwardAssumption DEF ForwardAssumption, Layers

\* What a token attends to depends on the rows up to its own only.
LEMMA ChosenAgree ==
    ASSUME NEW lr, NEW t \in Nat, NEW n \in Nat, NEW m \in Nat, t <= n, t <= m, t > 0,
           NEW a, Row(a, n), NEW b, Row(b, m), \A i \in 1 .. t : a[i] = b[i]
    PROVE  Chosen(lr, a, t) = Chosen(lr, b, t)
BY PoolsLookBack DEF Chosen

\* The reference's attention, layer by layer kind.
LEMMA RefKda ==
    ASSUME NEW lr, Attention[lr] = "kda", NEW a, NEW t
    PROVE  RefAttention(lr, a, t) = KdaRead(lr, KdaFold!Fold(lr, KdaZero, SubSeq(a, 1, t)), a[t])
BY DEF RefAttention, KdaFold!Fold, FoldLeft, MapThenFoldSet, Max,
       KdaFold!FoldLeft, KdaFold!MapThenFoldSet, KdaFold!Max

\* The reference's attention over rows.
LEMMA RefDsa ==
    ASSUME NEW lr, Attention[lr] = "dsa", NEW n \in Nat, NEW a, Row(a, n), NEW t \in 1 .. n
    PROVE  RefAttention(lr, a, t) = Attend(lr, a[t], [i \in Chosen(lr, a, t) |-> a[i + 1]])
<1>1. RefPools(lr, a, t) = BestPools(lr, a, t)
    BY RefPoolsAre
<1>2. Attention[lr] # "kda"
    OBVIOUS
<1>3. QED
    BY <1>1, <1>2 DEF RefAttention, Chosen

\* Attention over a text is that over any longer one.
LEMMA LooksBack ==
    ASSUME NEW lr \in Layers, NEW t \in Nat, NEW n \in Nat, NEW m \in Nat, t <= n, t <= m, t > 0,
           NEW a, Row(a, n), NEW b, Row(b, m), \A i \in 1 .. t : a[i] = b[i]
    PROVE  RefAttention(lr, a, t) = RefAttention(lr, b, t)
<1>1. a[t] = b[t]
    OBVIOUS
<1>2. CASE Attention[lr] = "kda"
    <2>1. /\ Row(SubSeq(a, 1, t), t + 1 - 1) /\ Row(SubSeq(b, 1, t), t + 1 - 1)
          /\ \A i \in 1 .. t + 1 - 1 : SubSeq(a, 1, t)[i] = a[1 + i - 1]
          /\ \A i \in 1 .. t + 1 - 1 : SubSeq(b, 1, t)[i] = b[1 + i - 1]
        <3>1. 1 \in Nat /\ 1 <= t + 1
            OBVIOUS
        <3>2. QED
            BY <3>1, CutRow
    <2>2. t + 1 - 1 = t
        OBVIOUS
    <2>3. \A i \in 1 .. t : SubSeq(a, 1, t)[i] = SubSeq(b, 1, t)[i]
        <3>1. \A i \in 1 .. t : 1 + i - 1 = i
            OBVIOUS
        <3>2. QED
            BY <2>1, <2>2, <3>1
    <2>4. SubSeq(a, 1, t) = SubSeq(b, 1, t)
        BY <2>1, <2>2, <2>3, SameRow
    <2>5. QED
        BY <1>1, <1>2, <2>4, RefKda
<1>3. CASE Attention[lr] = "dsa"
    <2> DEFINE C == Chosen(lr, a, t)
    <2>1. Chosen(lr, b, t) = C
        BY ChosenAgree
    <2>2. C \subseteq 0 .. t - 1
        BY ChosenAre
    <2>3. t \in 1 .. n /\ t \in 1 .. m
        OBVIOUS
    <2> HIDE DEF C
    <2>4. [i \in C |-> a[i + 1]] = [i \in C |-> b[i + 1]]
        BY <2>2
    <2>5. RefAttention(lr, a, t) = Attend(lr, a[t], [i \in C |-> a[i + 1]])
        BY <1>3, <2>3, RefDsa DEF C
    <2>6. RefAttention(lr, b, t) = Attend(lr, b[t], [i \in C |-> b[i + 1]])
        <3>1. RefAttention(lr, b, t) = Attend(lr, b[t], [i \in Chosen(lr, b, t) |-> b[i + 1]])
            BY <1>3, <2>3, RefDsa
        <3>2. QED
            BY <2>1, <3>1
    <2>7. QED
        BY <1>1, <2>4, <2>5, <2>6
<1>4. QED
    BY <1>2, <1>3, KindsAre

\* apus_gdsa_attention over a cache that has the rows of b, and maybe more
\* behind them, is the reference's over b.
LEMMA AttendedIs ==
    ASSUME PoolScores, NEW lr \in Layers, Attention[lr] = "dsa",
           NEW n \in Nat, NEW b, Row(b, n), NEW m \in Nat, n <= m, NEW rows, Row(rows, m),
           \A i \in 1 .. n : rows[i] = b[i], NEW t \in 1 .. n
    PROVE  Attended(lr, b[t], rows, n, Select(lr, b[t], rows, n, t - 1)) = RefAttention(lr, b, t)
<1> DEFINE C == Chosen(lr, b, t)
<1>1. rows[t] = b[t] /\ t \in Nat /\ t > 0 /\ t <= n /\ t <= m /\ \A i \in 1 .. t : rows[i] = b[i]
    OBVIOUS
<1>2. Select(lr, rows[t], rows, n, t - 1) = Chosen(lr, rows, t)
    BY SelectIs
<1>3. Chosen(lr, rows, t) = C
    BY <1>1, ChosenAgree
<1>4. C \subseteq 0 .. t - 1
    BY <1>1, ChosenAre
<1>5. RefAttention(lr, b, t) = Attend(lr, b[t], [i \in C |-> b[i + 1]])
    BY RefDsa
<1> HIDE DEF C
<1>6. C \cap 0 .. n - 1 = C
    <2>1. ASSUME NEW i \in C
          PROVE  i \in 0 .. n - 1
        <3>1. i \in 0 .. t - 1
            BY <1>4
        <3>2. QED
            BY <1>1, <3>1
    <2>2. QED
        BY <2>1
<1>7. [i \in C |-> rows[i + 1]] = [i \in C |-> b[i + 1]]
    BY <1>1, <1>4
<1>8. QED
    BY <1>1, <1>2, <1>3, <1>5, <1>6, <1>7 DEF Attended

\* A state has something of each layer.
State(s) ==
    /\ s = [pos |-> s.pos, kda |-> s.kda, rows |-> s.rows, n |-> s.n]
    /\ s.kda = [i \in Layers |-> s.kda[i]]
    /\ s.rows = [i \in Layers |-> s.rows[i]]
    /\ s.n = [i \in Layers |-> s.n[i]]

\* A layer of a state has taken the inputs a: it has summed them up, or it
\* has their rows, and maybe those of an earlier, longer state behind them.
Holds(s, lr, a) ==
    /\ Attention[lr] = "kda" => s.kda[lr] = KdaFold!Fold(lr, KdaZero, a)
    /\ Attention[lr] = "dsa" =>
        /\ s.n[lr] = Len(a)
        /\ \E m \in Nat : /\ Len(a) <= m /\ Row(s.rows[lr], m)
                          /\ \A i \in 1 .. Len(a) : s.rows[lr][i] = a[i]

\* Only that layer differs.
Beside(s, r, lr) ==
    /\ State(r) /\ r.pos = s.pos
    /\ \A i \in Layers \ {lr} : r.kda[i] = s.kda[i] /\ r.rows[i] = s.rows[i] /\ r.n[i] = s.n[i]
    /\ Attention[lr] = "kda" => r.rows[lr] = s.rows[lr] /\ r.n[lr] = s.n[lr]
    /\ Attention[lr] = "dsa" => /\ r.kda[lr] = s.kda[lr]
                                /\ \A i \in 1 .. s.n[lr] : r.rows[lr][i] = s.rows[lr][i]

SetRows(s, lr, rows, n) == [s EXCEPT !.rows[lr] = rows, !.n[lr] = n]
SetKda(s, lr, k)        == [s EXCEPT !.kda[lr] = k]

\* Both fields of a state that an attention over rows assigns.
LEMMA TwoFields ==
    ASSUME NEW lr, NEW rows, NEW n, NEW p, NEW k, NEW rs, NEW ns
    PROVE  SetRows([pos |-> p, kda |-> k, rows |-> rs, n |-> ns], lr, rows, n)
            = [pos |-> p, kda |-> k, rows |-> [rs EXCEPT ![lr] = rows], n |-> [ns EXCEPT ![lr] = n]]
<1> DEFINE s == [pos |-> p, kda |-> k, rows |-> rs, n |-> ns]
           u == [s EXCEPT !.rows[lr] = rows]
           R == [rs EXCEPT ![lr] = rows]
<1>1. u = [pos |-> p, kda |-> k, rows |-> R, n |-> ns]
    OBVIOUS
<1>2. SetRows(s, lr, rows, n) = [u EXCEPT !.n[lr] = n]
    BY DEF SetRows
<1> HIDE DEF u, R
<1>3. [u EXCEPT !.n[lr] = n] = [pos |-> p, kda |-> k, rows |-> R, n |-> [ns EXCEPT ![lr] = n]]
    BY <1>1
<1>4. QED
    BY <1>2, <1>3 DEF R

\* A state with the rows of one layer replaced.
LEMMA WithRows ==
    ASSUME NEW lr \in Layers, NEW s, State(s), NEW rows, NEW n
    PROVE  LET r == SetRows(s, lr, rows, n) IN
             /\ State(r) /\ r.pos = s.pos /\ r.kda = s.kda /\ r.rows[lr] = rows /\ r.n[lr] = n
             /\ \A i \in Layers \ {lr} : r.rows[i] = s.rows[i] /\ r.n[i] = s.n[i]
<1> DEFINE R == [s.rows EXCEPT ![lr] = rows]
           N == [s.n EXCEPT ![lr] = n]
           r == SetRows(s, lr, rows, n)
<1>1. r = [pos |-> s.pos, kda |-> s.kda, rows |-> R, n |-> N]
    <2>1. PICK p, k, rs, ns : s = [pos |-> p, kda |-> k, rows |-> rs, n |-> ns]
        BY DEF State
    <2>2. r = [pos |-> p, kda |-> k, rows |-> [rs EXCEPT ![lr] = rows], n |-> [ns EXCEPT ![lr] = n]]
        BY <2>1, TwoFields
    <2>3. s.pos = p /\ s.kda = k /\ s.rows = rs /\ s.n = ns
        BY <2>1
    <2>4. QED
        BY <2>2, <2>3
<1>2. R = [i \in Layers |-> R[i]] /\ R[lr] = rows /\ \A i \in Layers \ {lr} : R[i] = s.rows[i]
    BY DEF State
<1>3. N = [i \in Layers |-> N[i]] /\ N[lr] = n /\ \A i \in Layers \ {lr} : N[i] = s.n[i]
    BY DEF State
<1>4. s.kda = [i \in Layers |-> s.kda[i]]
    BY DEF State
<1> HIDE DEF R, N, r
<1>5. r.pos = s.pos /\ r.kda = s.kda /\ r.rows = R /\ r.n = N
    BY <1>1
<1>6. State(r)
    BY <1>1, <1>2, <1>3, <1>4, <1>5 DEF State
<1>7. QED
    BY <1>2, <1>3, <1>5, <1>6 DEF r

\* A state with the recurrence of one layer replaced.
LEMMA WithKda ==
    ASSUME NEW lr \in Layers, NEW s, State(s), NEW k
    PROVE  LET r == SetKda(s, lr, k) IN
             /\ State(r) /\ r.pos = s.pos /\ r.rows = s.rows /\ r.n = s.n /\ r.kda[lr] = k
             /\ \A i \in Layers \ {lr} : r.kda[i] = s.kda[i]
<1> DEFINE K == [s.kda EXCEPT ![lr] = k]
           r == SetKda(s, lr, k)
<1>1. r = [pos |-> s.pos, kda |-> K, rows |-> s.rows, n |-> s.n]
    <2>1. PICK p, kd, rs, ns : s = [pos |-> p, kda |-> kd, rows |-> rs, n |-> ns]
        BY DEF State
    <2>2. [s EXCEPT !.kda[lr] = k] =
            [pos |-> p, kda |-> [kd EXCEPT ![lr] = k], rows |-> rs, n |-> ns]
        BY <2>1
    <2>3. s.pos = p /\ s.kda = kd /\ s.rows = rs /\ s.n = ns
        BY <2>1
    <2>4. QED
        BY <2>2, <2>3 DEF SetKda
<1>2. K = [i \in Layers |-> K[i]] /\ K[lr] = k /\ \A i \in Layers \ {lr} : K[i] = s.kda[i]
    BY DEF State
<1>3. s.rows = [i \in Layers |-> s.rows[i]] /\ s.n = [i \in Layers |-> s.n[i]]
    BY DEF State
<1> HIDE DEF K, r
<1>4. r.pos = s.pos /\ r.kda = K /\ r.rows = s.rows /\ r.n = s.n
    BY <1>1
<1>5. State(r)
    BY <1>1, <1>2, <1>3, <1>4 DEF State
<1>6. QED
    BY <1>2, <1>4, <1>5 DEF r

\* The end of a tuple, from any place on.
LEMMA EndOfRow ==
    ASSUME NEW n \in Nat, NEW f, Row(f, n), NEW a \in Nat, 1 <= a
    PROVE  \E q \in Nat : Row(SubSeq(f, a, n), q)
<1>1. CASE a <= n + 1
    <2>1. n + 1 - a \in Nat
        BY <1>1
    <2>2. Row(SubSeq(f, a, n), n + 1 - a)
        BY <1>1, CutRow
    <2>3. QED
        BY <2>1, <2>2
<1>2. CASE a > n + 1
    <2>1. f \in Seq({f[i] : i \in 1 .. n})
        BY RowIs
    <2> DEFINE S == {f[i] : i \in 1 .. n}
    <2> HIDE DEF S
    <2>2. SubSeq(f, a, n) = <<>>
        BY <1>2, <2>1
    <2>3. Row(<<>>, 0)
        BY DEF Row
    <2>4. QED
        BY <2>2, <2>3
<1>3. QED
    BY <1>1, <1>2

\* What an attention of the tokens xs, behind those that gave a, has done.
Attends(lr, s, a, xs, r) ==
    /\ Beside(s, r.s, lr) /\ Holds(r.s, lr, Join(a, xs))
    /\ Row(r.out, Len(xs))
    /\ \A t \in 1 .. Len(xs) : r.out[t] = RefAttention(lr, Join(a, xs), Len(a) + t)

\* A prefill, which appends all its rows before the first token selects.
LEMMA DsaForwardIs ==
    ASSUME PoolScores, NEW lr \in Layers, Attention[lr] = "dsa",
           NEW s, State(s), NEW k \in Nat, NEW a, Row(a, k), Holds(s, lr, a),
           NEW m \in Nat, NEW xs, Row(xs, m)
    PROVE  Attends(lr, s, a, xs, DsaForward(lr, s, xs))
<1> DEFINE all == Join(a, xs)
           f    == s.rows[lr]
           rows == SubSeq(f, 1, k) \o xs \o SubSeq(f, k + m + 1, Len(f))
           out  == [t \in 1 .. m |->
                    Attended(lr, xs[t], rows, k + m, Select(lr, xs[t], rows, k + m, k + t - 1))]
           r    == SetRows(s, lr, rows, k + m)
<1> HIDE DEF all, f, rows, out, r
<1>1. Len(a) = k /\ Len(xs) = m /\ DOMAIN xs = 1 .. m /\ k + m \in Nat /\ s.n[lr] = k
    <2>1. Len(a) = k /\ Len(xs) = m /\ DOMAIN xs = 1 .. m
        BY RowIs
    <2>2. QED
        BY <2>1 DEF Holds
<1>2. DsaForward(lr, s, xs) = [s |-> r, out |-> out]
    BY <1>1 DEF DsaForward, SetRows, f, rows, out, r
<1>3. PICK w \in Nat : k <= w /\ Row(f, w) /\ \A i \in 1 .. k : f[i] = a[i]
    BY <1>1 DEF Holds, f
<1>4. /\ Row(all, k + m)
      /\ \A i \in 1 .. k : all[i] = a[i]
      /\ \A i \in 1 .. m : all[k + i] = xs[i]
    BY Joined DEF all
<1>5. PICK z \in Nat : /\ Row(rows, z) /\ k + m <= z
                     /\ \A i \in 1 .. k + m : rows[i] = all[i]
    <2> DEFINE p == SubSeq(f, 1, k)
               e == SubSeq(f, k + m + 1, Len(f))
    <2> HIDE DEF p, e
    <2>1. Row(p, k) /\ \A i \in 1 .. k : p[i] = a[i]
        <3>1. 1 \in Nat /\ 1 <= k + 1 /\ k + 1 - 1 = k /\ \A i \in 1 .. k : 1 + i - 1 = i
            OBVIOUS
        <3>2. Row(p, k + 1 - 1) /\ \A i \in 1 .. k + 1 - 1 : p[i] = f[1 + i - 1]
            BY <1>3, <3>1, CutRow DEF p
        <3>3. QED
            BY <1>3, <3>1, <3>2
    <2>2. PICK q \in Nat : Row(e, q)
        <3>0. Len(f) = w
            BY <1>3, RowIs, Zenon
        <3>1. Len(f) = w /\ k + m + 1 \in Nat /\ 1 <= k + m + 1
            BY <3>0
        <3>2. QED
            BY <1>3, <3>1, EndOfRow DEF e
    <2> DEFINE b == Join(p, xs)
               c == k + m
    <2>3. /\ Row(b, k + m)
          /\ \A i \in 1 .. k : b[i] = p[i]
          /\ \A i \in 1 .. m : b[k + i] = xs[i]
        BY <2>1, Joined
    <2> HIDE DEF b, c
    <2>6. rows = Join(b, e)
        BY DEF b, p, e, rows, Join
    <2>4. Row(rows, k + m + q) /\ \A i \in 1 .. k + m : rows[i] = b[i]
        <3>1. c \in Nat /\ Row(b, c)
            BY <1>1, <2>3 DEF c
        <3>2. Row(rows, c + q) /\ \A i \in 1 .. c : rows[i] = b[i]
            BY <2>2, <2>6, <3>1, Joined
        <3>3. QED
            BY <3>2 DEF c
    <2>5. ASSUME NEW i \in 1 .. k + m
          PROVE  b[i] = all[i]
        <3>1. CASE i <= k
            <4>1. i \in 1 .. k
                BY <3>1
            <4>2. QED
                BY <1>4, <2>1, <2>3, <4>1
        <3>2. CASE ~(i <= k)
            <4>1. i - k \in 1 .. m /\ i = k + (i - k)
                BY <3>2
            <4>2. b[k + (i - k)] = xs[i - k] /\ all[k + (i - k)] = xs[i - k]
                BY <1>4, <2>3, <4>1
            <4>3. QED
                BY <4>1, <4>2
        <3>3. QED
            BY <3>1, <3>2
    <2>7. k + m + q \in Nat /\ k + m <= k + m + q
        OBVIOUS
    <2>8. QED
        BY <2>4, <2>5, <2>7
<1>6. ASSUME NEW t \in 1 .. m
      PROVE  out[t] = RefAttention(lr, all, k + t)
    <2>1. k + t \in 1 .. k + m /\ k + t - 1 = (k + t) - 1
        OBVIOUS
    <2>2. Attended(lr, all[k + t], rows, k + m, Select(lr, all[k + t], rows, k + m, (k + t) - 1))
            = RefAttention(lr, all, k + t)
        <3> DEFINE c == k + m
                   u == k + t
        <3>1. c \in Nat /\ u \in 1 .. c /\ Row(all, c) /\ c <= z /\ \A i \in 1 .. c : rows[i] = all[i]
            BY <1>1, <1>4, <1>5, <2>1
        <3> HIDE DEF c, u
        <3>2. Attended(lr, all[u], rows, c, Select(lr, all[u], rows, c, u - 1)) = RefAttention(lr, all, u)
            BY <1>5, <3>1, AttendedIs
        <3>3. QED
            BY <3>2 DEF c, u
    <2>3. all[k + t] = xs[t]
        BY <1>4
    <2>4. QED
        BY <2>1, <2>2, <2>3 DEF out
<1>7. Row(out, m)
    BY DEF Row, out
<1>8. /\ State(r) /\ r.pos = s.pos /\ r.kda = s.kda /\ r.rows[lr] = rows /\ r.n[lr] = k + m
      /\ \A i \in Layers \ {lr} : r.rows[i] = s.rows[i] /\ r.n[i] = s.n[i]
    BY WithRows DEF r
<1>9. Beside(s, r, lr)
    <2>1. ASSUME NEW i \in 1 .. s.n[lr]
          PROVE  rows[i] = s.rows[lr][i]
        <3>1. i \in 1 .. k /\ i \in 1 .. k + m
            BY <1>1
        <3>2. QED
            BY <1>3, <1>4, <1>5, <3>1 DEF f
    <2>2. QED
        BY <1>8, <2>1 DEF Beside
<1>10. Len(all) = k + m
    BY <1>1, <1>4, RowIs
<1>11. Holds(r, lr, all)
    <2>1. Attention[lr] # "kda"
        OBVIOUS
    <2>2. QED
        BY <1>5, <1>8, <1>10, <2>1 DEF Holds
<1>12. QED
    BY <1>1, <1>2, <1>6, <1>7, <1>9, <1>11 DEF Attends, all

\* Joining is associative.
LEMMA JoinAgain ==
    ASSUME NEW k \in Nat, NEW a, Row(a, k), NEW m \in Nat, NEW xs, Row(xs, m),
           NEW q \in Nat, NEW ys, Row(ys, q)
    PROVE  Join(Join(a, xs), ys) = Join(a, Join(xs, ys))
<1> DEFINE u == Join(a, xs)
           v == Join(xs, ys)
           c == Join(u, ys)
           d == Join(a, v)
<1>1. Row(u, k + m) /\ (\A i \in 1 .. k : u[i] = a[i]) /\ (\A i \in 1 .. m : u[k + i] = xs[i])
    BY Joined
<1>2. Row(v, m + q) /\ (\A i \in 1 .. m : v[i] = xs[i]) /\ (\A i \in 1 .. q : v[m + i] = ys[i])
    BY Joined
<1>3. k + m \in Nat /\ m + q \in Nat
    OBVIOUS
<1> HIDE DEF u, v
<1>4. Row(c, (k + m) + q) /\ (\A i \in 1 .. k + m : c[i] = u[i]) /\ (\A i \in 1 .. q : c[(k + m) + i] = ys[i])
    <2> DEFINE w == k + m
    <2>1. w \in Nat /\ Row(u, w)
        BY <1>1, <1>3
    <2> HIDE DEF w
    <2>2. Row(c, w + q) /\ (\A i \in 1 .. w : c[i] = u[i]) /\ (\A i \in 1 .. q : c[w + i] = ys[i])
        BY <2>1, Joined
    <2>3. QED
        BY <2>2 DEF w
<1>5. Row(d, k + (m + q)) /\ (\A i \in 1 .. k : d[i] = a[i]) /\ (\A i \in 1 .. m + q : d[k + i] = v[i])
    <2> DEFINE w == m + q
    <2>1. w \in Nat /\ Row(v, w)
        BY <1>2, <1>3
    <2> HIDE DEF w
    <2>2. Row(d, k + w) /\ (\A i \in 1 .. k : d[i] = a[i]) /\ (\A i \in 1 .. w : d[k + i] = v[i])
        BY <2>1, Joined
    <2>3. QED
        BY <2>2 DEF w
<1> HIDE DEF c, d
<1>6. ASSUME NEW i \in 1 .. k + m + q
      PROVE  c[i] = d[i]
    <2>1. CASE i <= k
        <3>1. i \in 1 .. k /\ i \in 1 .. k + m
            BY <2>1
        <3>2. QED
            BY <1>1, <1>4, <1>5, <3>1
    <2>2. CASE k < i /\ i <= k + m
        <3>1. i - k \in 1 .. m /\ i - k \in 1 .. m + q /\ i \in 1 .. k + m /\ k + (i - k) = i
            BY <2>2
        <3>2. u[k + (i - k)] = xs[i - k] /\ d[k + (i - k)] = v[i - k] /\ v[i - k] = xs[i - k] /\ c[i] = u[i]
            BY <1>1, <1>2, <1>4, <1>5, <3>1
        <3>3. QED
            BY <3>1, <3>2
    <2>3. CASE k + m < i
        <3>1. /\ i - k \in 1 .. m + q /\ i - k - m \in 1 .. q
              /\ k + (i - k) = i /\ (k + m) + (i - k - m) = i /\ m + (i - k - m) = i - k
            BY <2>3
        <3>2. c[(k + m) + (i - k - m)] = ys[i - k - m] /\ d[k + (i - k)] = v[i - k]
              /\ v[m + (i - k - m)] = ys[i - k - m]
            BY <1>2, <1>4, <1>5, <3>1
        <3>3. QED
            BY <3>1, <3>2
    <2>4. QED
        BY <2>1, <2>2, <2>3
<1>7. k + m + q \in Nat /\ (k + m) + q = k + m + q /\ k + (m + q) = k + m + q
    OBVIOUS
<1>8. c = d
    BY <1>4, <1>5, <1>6, <1>7, SameRow
<1>9. QED
    BY <1>8 DEF c, d, u, v

\* First these tokens, then those.
LEMMA AttendsOn ==
    ASSUME NEW lr \in Layers, NEW s, State(s), NEW k \in Nat, NEW a, Row(a, k), Holds(s, lr, a),
           NEW m \in Nat, NEW xs, Row(xs, m), NEW q \in Nat, NEW ys, Row(ys, q),
           NEW r1, Attends(lr, s, a, xs, r1), NEW r2, Attends(lr, r1.s, Join(a, xs), ys, r2)
    PROVE  Attends(lr, s, a, Join(xs, ys), [s |-> r2.s, out |-> Join(r1.out, r2.out)])
<1> DEFINE u   == Join(a, xs)
           v   == Join(xs, ys)
           all == Join(a, v)
           out == Join(r1.out, r2.out)
<1>1. /\ Row(u, k + m) /\ (\A i \in 1 .. k : u[i] = a[i])
      /\ Row(v, m + q)
      /\ Join(u, ys) = all
    BY Joined, JoinAgain
<1>2. /\ Len(a) = k /\ Len(xs) = m /\ Len(ys) = q /\ Len(u) = k + m /\ Len(v) = m + q
      /\ k + m \in Nat /\ m + q \in Nat
    <2>1. Len(a) = k /\ Len(xs) = m /\ Len(ys) = q
        BY RowIs
    <2>2. k + m \in Nat /\ m + q \in Nat
        OBVIOUS
    <2> HIDE DEF u, v
    <2>3. Len(u) = k + m /\ Len(v) = m + q
        BY <1>1, <2>2, RowIs
    <2>4. QED
        BY <2>1, <2>2, <2>3
<1> HIDE DEF u, v, all, out
<1>3. /\ Beside(s, r1.s, lr) /\ Holds(r1.s, lr, u) /\ Row(r1.out, m)
      /\ \A t \in 1 .. m : r1.out[t] = RefAttention(lr, u, k + t)
    BY <1>2 DEF Attends, u
<1>4. /\ Beside(r1.s, r2.s, lr) /\ Holds(r2.s, lr, all) /\ Row(r2.out, q)
      /\ \A t \in 1 .. q : r2.out[t] = RefAttention(lr, all, k + m + t)
    BY <1>1, <1>2 DEF Attends, u
<1>5. Row(out, m + q) /\ (\A i \in 1 .. m : out[i] = r1.out[i]) /\ (\A i \in 1 .. q : out[m + i] = r2.out[i])
    BY <1>3, <1>4, Joined DEF out
<1>6. Row(all, k + m + q) /\ \A i \in 1 .. k + m : all[i] = u[i]
    <2> DEFINE w == k + m
    <2>1. w \in Nat /\ Row(u, w)
        BY <1>1, <1>2
    <2> HIDE DEF w
    <2>2. Row(Join(u, ys), w + q) /\ \A i \in 1 .. w : Join(u, ys)[i] = u[i]
        BY <2>1, Joined
    <2>3. QED
        BY <1>1, <2>2 DEF w
<1>7. ASSUME NEW t \in 1 .. m + q
      PROVE  out[t] = RefAttention(lr, all, k + t)
    <2>1. CASE t <= m
        <3>1. t \in 1 .. m
            BY <2>1
        <3>2. out[t] = RefAttention(lr, u, k + t)
            BY <1>3, <1>5, <3>1
        <3> DEFINE c == k + t
                   w == k + m
                   z == k + m + q
        <3>3. c \in Nat /\ w \in Nat /\ z \in Nat /\ c <= w /\ c <= z /\ c > 0
              /\ Row(u, w) /\ Row(all, z) /\ \A i \in 1 .. c : u[i] = all[i]
            BY <1>1, <1>6, <3>1
        <3> HIDE DEF c, w, z
        <3>4. RefAttention(lr, u, c) = RefAttention(lr, all, c)
            BY <3>3, LooksBack
        <3>5. QED
            BY <3>2, <3>4 DEF c
    <2>2. CASE ~(t <= m)
        <3>1. t - m \in 1 .. q /\ m + (t - m) = t /\ k + m + (t - m) = k + t
            BY <2>2
        <3>2. out[m + (t - m)] = r2.out[t - m] /\ r2.out[t - m] = RefAttention(lr, all, k + m + (t - m))
            BY <1>4, <1>5, <3>1
        <3>3. QED
            BY <3>1, <3>2
    <2>3. QED
        BY <2>1, <2>2
<1>8. Beside(s, r2.s, lr)
    <2>1. /\ State(r2.s) /\ r2.s.pos = s.pos
          /\ \A i \in Layers \ {lr} : r2.s.kda[i] = s.kda[i] /\ r2.s.rows[i] = s.rows[i] /\ r2.s.n[i] = s.n[i]
          /\ Attention[lr] = "kda" => r2.s.rows[lr] = s.rows[lr] /\ r2.s.n[lr] = s.n[lr]
        BY <1>3, <1>4 DEF Beside
    <2>2. ASSUME Attention[lr] = "dsa"
          PROVE  r2.s.kda[lr] = s.kda[lr] /\ \A i \in 1 .. s.n[lr] : r2.s.rows[lr][i] = s.rows[lr][i]
        <3>1. s.n[lr] = k /\ r1.s.n[lr] = k + m
            BY <1>2, <1>3, <2>2 DEF Holds
        <3>2. \A i \in 1 .. s.n[lr] : i \in 1 .. r1.s.n[lr]
            BY <3>1
        <3>3. QED
            BY <1>3, <1>4, <2>2, <3>2 DEF Beside
    <2>3. QED
        BY <2>1, <2>2 DEF Beside
<1>9. Attends(lr, s, a, v, [s |-> r2.s, out |-> out])
    BY <1>2, <1>4, <1>5, <1>7, <1>8 DEF Attends, all
<1>10. QED
    BY <1>9 DEF v, out

\* The tuple of one entry.
LEMMA Single == ASSUME NEW e PROVE Row(<<e>>, 1) /\ Len(<<e>>) = 1 /\ <<e>>[1] = e
BY DEF Row

\* The empty tuple.
LEMMA Nothing == Row(<<>>, 0) /\ Len(<<>>) = 0
BY DEF Row

\* Joining nothing changes nothing.
LEMMA JoinNothing ==
    ASSUME NEW k \in Nat, NEW a, Row(a, k)
    PROVE  Join(a, <<>>) = a
<1>1. Row(Join(a, <<>>), k + 0) /\ \A i \in 1 .. k : Join(a, <<>>)[i] = a[i]
    BY Nothing, Joined
<1>2. k + 0 = k
    OBVIOUS
<1>3. QED
    BY <1>1, <1>2, SameRow

\* The first j of a tuple.
FirstOf(f, j) == [i \in 1 .. j |-> f[i]]

\* The first entries of a tuple, and one more of them.
LEMMA FirstOfIs ==
    ASSUME NEW f, NEW j \in Nat
    PROVE  /\ Row(FirstOf(f, j), j) /\ Len(FirstOf(f, j)) = j /\ DOMAIN FirstOf(f, j) = 1 .. j
           /\ FirstOf(f, 0) = <<>>
           /\ \A i \in 1 .. j : FirstOf(f, j)[i] = f[i]
           /\ Join(FirstOf(f, j), <<f[j + 1]>>) = FirstOf(f, j + 1)
<1>1. Row(FirstOf(f, j), j) /\ \A i \in 1 .. j : FirstOf(f, j)[i] = f[i]
    BY DEF Row, FirstOf
<1>2. Len(FirstOf(f, j)) = j /\ DOMAIN FirstOf(f, j) = 1 .. j
    BY <1>1, RowIs
<1>3. FirstOf(f, 0) = <<>>
    BY DEF FirstOf
<1> DEFINE g == FirstOf(f, j + 1)
           c == Join(FirstOf(f, j), <<f[j + 1]>>)
<1>4. Row(g, j + 1) /\ \A i \in 1 .. j + 1 : g[i] = f[i]
    BY DEF Row, FirstOf
<1>5. Row(c, j + 1) /\ (\A i \in 1 .. j : c[i] = f[i]) /\ c[j + 1] = f[j + 1]
    <2>1. /\ \A i \in 1 .. j : c[i] = FirstOf(f, j)[i]
          /\ \A i \in 1 .. 1 : c[j + i] = <<f[j + 1]>>[i]
          /\ Row(c, j + 1)
        BY <1>1, Single, Joined
    <2>2. 1 \in 1 .. 1 /\ <<f[j + 1]>>[1] = f[j + 1]
        OBVIOUS
    <2> HIDE DEF c
    <2>3. c[j + 1] = f[j + 1]
        BY <2>1, <2>2
    <2>4. QED
        BY <1>1, <2>1, <2>3
<1> HIDE DEF g, c
<1>6. ASSUME NEW i \in 1 .. j + 1
      PROVE  c[i] = g[i]
    <2>1. CASE i = j + 1
        BY <1>4, <1>5, <2>1
    <2>2. CASE i # j + 1
        <3>1. i \in 1 .. j
            BY <2>2
        <3>2. QED
            BY <1>4, <1>5, <3>1
    <2>3. QED
        BY <2>1, <2>2
<1>7. c = g
    <2>1. j + 1 \in Nat
        OBVIOUS
    <2>2. QED
        BY <1>4, <1>5, <1>6, <2>1, SameRow
<1>8. QED
    BY <1>1, <1>2, <1>3, <1>7 DEF c, g

\* An attention that takes its tokens one after the other has done what it
\* should, if each of its steps does.
LEMMA OneByOne ==
    ASSUME NEW lr \in Layers, NEW s, State(s), NEW k \in Nat, NEW a, Row(a, k), Holds(s, lr, a),
           NEW m \in Nat, NEW xs, Row(xs, m),
           NEW f, f[0] = [s |-> s, out |-> <<>>],
           \A j \in 0 .. m - 1 :
                Attends(lr, s, a, FirstOf(xs, j), f[j]) =>
                    \E r : /\ Attends(lr, f[j].s, Join(a, FirstOf(xs, j)), <<xs[j + 1]>>, r)
                           /\ f[j + 1] = [s |-> r.s, out |-> Join(f[j].out, r.out)]
    PROVE  Attends(lr, s, a, xs, f[m])
<1> DEFINE P == {j \in Nat : j <= m => Attends(lr, s, a, FirstOf(xs, j), f[j])}
<1>1. 0 \in P
    <2>1. FirstOf(xs, 0) = <<>> /\ Join(a, <<>>) = a
        BY FirstOfIs, JoinNothing
    <2>2. f[0].s = s /\ f[0].out = <<>>
        OBVIOUS
    <2>3. Beside(s, s, lr)
        BY DEF Beside
    <2>4. Attends(lr, s, a, <<>>, f[0])
        BY <2>1, <2>2, <2>3, Nothing DEF Attends
    <2>5. QED
        BY <2>1, <2>4
<1>2. ASSUME NEW j \in Nat, j \in P
      PROVE  j + 1 \in P
    <2>1. SUFFICES ASSUME j + 1 <= m
                   PROVE  Attends(lr, s, a, FirstOf(xs, j + 1), f[j + 1])
        OBVIOUS
    <2>2. j \in 0 .. m - 1 /\ Attends(lr, s, a, FirstOf(xs, j), f[j])
        BY <1>2, <2>1
    <2>3. PICK r : /\ Attends(lr, f[j].s, Join(a, FirstOf(xs, j)), <<xs[j + 1]>>, r)
                   /\ f[j + 1] = [s |-> r.s, out |-> Join(f[j].out, r.out)]
        BY <2>2
    <2>4. Row(FirstOf(xs, j), j) /\ Row(<<xs[j + 1]>>, 1) /\ 1 \in Nat
        BY FirstOfIs, Single
    <2>5. Attends(lr, s, a, Join(FirstOf(xs, j), <<xs[j + 1]>>), [s |-> r.s, out |-> Join(f[j].out, r.out)])
        BY <2>2, <2>3, <2>4, AttendsOn
    <2>6. QED
        BY <2>3, <2>5, FirstOfIs
<1>3. m \in P
    <2> HIDE DEF P
    <2>1. QED
        BY <1>1, <1>2, NatSet
<1>4. FirstOf(xs, m) = xs
    BY DEF FirstOf, Row
<1>5. QED
    BY <1>3, <1>4

\* apus_gdsa_decode_batch2.
DsaTakes(lr, acc, xt) ==
    LET r == DsaForward(lr, acc.s, <<xt>>)
    IN  [s |-> r.s, out |-> acc.out \o r.out]
DsaFold == INSTANCE FoldFacts WITH Op <- DsaTakes

\* A decode batch, which takes one token after the other.
LEMMA DsaDecodeIs ==
    ASSUME PoolScores, NEW lr \in Layers, Attention[lr] = "dsa",
           NEW s, State(s), NEW k \in Nat, NEW a, Row(a, k), Holds(s, lr, a),
           NEW m \in Nat, NEW xs, Row(xs, m)
    PROVE  Attends(lr, s, a, xs, DsaDecodeBatch(lr, s, xs))
<1> DEFINE b == [s |-> s, out |-> <<>>]
           f == [j \in 0 .. m |-> DsaFold!Fold(lr, b, FirstOf(xs, j))]
<1>1. DsaDecodeBatch(lr, s, xs) = DsaFold!Fold(lr, b, xs)
    BY DEF DsaDecodeBatch, DsaFold!Fold, DsaTakes, FoldLeft, MapThenFoldSet, Max,
           DsaFold!FoldLeft, DsaFold!MapThenFoldSet, DsaFold!Max
<1>2. FirstOf(xs, m) = xs
    BY DEF FirstOf, Row
<1>3. \A j \in 0 .. m : f[j] = DsaFold!Fold(lr, b, FirstOf(xs, j))
    OBVIOUS
<1> HIDE DEF b, f
<1>4. f[0] = b
    <2>1. FirstOf(xs, 0) = <<>> /\ 0 \in 0 .. m
        BY DEF FirstOf
    <2>2. DsaFold!Fold(lr, b, <<>>) = b
        BY DsaFold!FoldEmpty
    <2>3. QED
        BY <1>3, <2>1, <2>2
<1>5. ASSUME NEW j \in 0 .. m - 1, Attends(lr, s, a, FirstOf(xs, j), f[j])
      PROVE  \E r : /\ Attends(lr, f[j].s, Join(a, FirstOf(xs, j)), <<xs[j + 1]>>, r)
                    /\ f[j + 1] = [s |-> r.s, out |-> Join(f[j].out, r.out)]
    <2> DEFINE p == FirstOf(xs, j)
               q == FirstOf(xs, j + 1)
               e == xs[j + 1]
               r == DsaForward(lr, f[j].s, <<e>>)
    <2>1. j \in Nat /\ j \in 0 .. m /\ j + 1 \in 0 .. m /\ j + 1 \in Nat
        OBVIOUS
    <2>2. /\ Row(p, j) /\ DOMAIN p = 1 .. j /\ DOMAIN q = 1 .. j + 1
          /\ (\A i \in 1 .. j : p[i] = xs[i]) /\ (\A i \in 1 .. j + 1 : q[i] = xs[i])
        BY <2>1, FirstOfIs
    <2>3. f[j] = DsaFold!Fold(lr, b, p) /\ f[j + 1] = DsaFold!Fold(lr, b, q)
        BY <1>3, <2>1
    <2> HIDE DEF p, q
    <2>4. f[j + 1] = DsaTakes(lr, f[j], e)
        <3>1. (\A i \in 1 .. j : p[i] = q[i]) /\ q[j + 1] = e
            BY <2>1, <2>2
        <3>2. DsaFold!Fold(lr, b, q) = DsaTakes(lr, DsaFold!Fold(lr, b, p), q[j + 1])
            BY <2>1, <2>2, <3>1, DsaFold!FoldStep
        <3>3. QED
            BY <2>3, <3>1, <3>2
    <2>5. f[j + 1] = [s |-> r.s, out |-> Join(f[j].out, r.out)]
        BY <2>4 DEF DsaTakes, Join
    <2>6. State(f[j].s) /\ Holds(f[j].s, lr, Join(a, p))
        BY <1>5 DEF Attends, Beside, p
    <2>7. Row(Join(a, p), k + j) /\ k + j \in Nat
        BY <2>1, <2>2, Joined
    <2>8. Row(<<e>>, 1) /\ 1 \in Nat
        BY Single
    <2>9. Attends(lr, f[j].s, Join(a, p), <<e>>, r)
        <3> DEFINE c == k + j
        <3>1. c \in Nat /\ Row(Join(a, p), c)
            BY <2>7
        <3> HIDE DEF c, e, r
        <3>2. Attends(lr, f[j].s, Join(a, p), <<e>>, DsaForward(lr, f[j].s, <<e>>))
            BY <2>6, <2>8, <3>1, DsaForwardIs
        <3>3. QED
            BY <3>2 DEF r
    <2>10. QED
        BY <2>5, <2>9 DEF p
<1>6. Attends(lr, s, a, xs, f[m])
    BY <1>4, <1>5, OneByOne DEF b
<1>7. m \in 0 .. m
    OBVIOUS
<1>8. QED
    BY <1>1, <1>2, <1>3, <1>6, <1>7

\* All of a tuple is the tuple.
LEMMA WholeRow ==
    ASSUME NEW n \in Nat, NEW f, Row(f, n)
    PROVE  SubSeq(f, 1, n) = f
BY TupleIs, RowIs DEF Tuple

\* To extend is to join one entry.
LEMMA ExtendIsJoin ==
    ASSUME NEW n \in Nat, NEW f, Row(f, n), NEW e
    PROVE  Extend(f, e) = Join(f, <<e>>)
<1> DEFINE c == Extend(f, e)
           d == Join(f, <<e>>)
<1>1. Row(c, n + 1) /\ (\A i \in 1 .. n : c[i] = f[i]) /\ c[n + 1] = e
    BY OneMore
<1>2. Row(d, n + 1) /\ (\A i \in 1 .. n : d[i] = f[i]) /\ \A i \in 1 .. 1 : d[n + i] = <<e>>[i]
    BY Single, Joined
<1> HIDE DEF c, d
<1>3. d[n + 1] = e
    <2>1. 1 \in 1 .. 1 /\ <<e>>[1] = e
        OBVIOUS
    <2>2. QED
        BY <1>2, <2>1
<1>4. \A i \in 1 .. n + 1 : i \in 1 .. n \/ i = n + 1
    OBVIOUS
<1>5. \A i \in 1 .. n + 1 : c[i] = d[i]
    BY <1>1, <1>2, <1>3, <1>4
<1>6. n + 1 \in Nat
    OBVIOUS
<1>7. c = d
    BY <1>1, <1>2, <1>5, <1>6, SameRow
<1>8. QED
    BY <1>7 DEF c, d

\* One token of apus_gkda_forward.
KdaTakes(lr, acc, xt) ==
    LET k == KdaStep(lr, acc.s.kda[lr], xt)
    IN  [s   |-> [acc.s EXCEPT !.kda[lr] = k],
         out |-> Append(acc.out, KdaRead(lr, k, xt))]
KdaRun == INSTANCE FoldFacts WITH Op <- KdaTakes

\* One token of the recurrence.
LEMMA KdaTokenIs ==
    ASSUME NEW lr \in Layers, Attention[lr] = "kda",
           NEW s, State(s), NEW n \in Nat, NEW a, Row(a, n), Holds(s, lr, a), NEW e,
           NEW k, k = KdaStep(lr, s.kda[lr], e)
    PROVE  Attends(lr, s, a, <<e>>, [s |-> SetKda(s, lr, k), out |-> <<KdaRead(lr, k, e)>>])
<1> DEFINE b == Join(a, <<e>>)
           r == SetKda(s, lr, k)
<1>1. /\ Row(b, n + 1) /\ (\A i \in 1 .. n : b[i] = a[i])
      /\ b[n + 1] = e
    <2>1. Row(b, n + 1) /\ (\A i \in 1 .. n : b[i] = a[i]) /\ \A i \in 1 .. 1 : b[n + i] = <<e>>[i]
        BY Single, Joined
    <2>2. 1 \in 1 .. 1 /\ <<e>>[1] = e
        OBVIOUS
    <2> HIDE DEF b
    <2>3. QED
        BY <2>1, <2>2
<1>2. /\ State(r) /\ r.pos = s.pos /\ r.rows = s.rows /\ r.n = s.n /\ r.kda[lr] = k
      /\ \A i \in Layers \ {lr} : r.kda[i] = s.kda[i]
    BY WithKda
<1> HIDE DEF b, r
<1>3. n + 1 \in Nat /\ DOMAIN a = 1 .. n /\ DOMAIN b = 1 .. n + 1 /\ Len(a) = n
    <2>1. n + 1 \in Nat
        OBVIOUS
    <2>2. QED
        BY <1>1, <2>1, RowIs
<1>4. KdaFold!Fold(lr, KdaZero, b) = k
    <2>1. KdaFold!Fold(lr, KdaZero, b) = KdaStep(lr, KdaFold!Fold(lr, KdaZero, a), b[n + 1])
        BY <1>1, <1>3, KdaFold!FoldStep
    <2>2. s.kda[lr] = KdaFold!Fold(lr, KdaZero, a)
        BY DEF Holds
    <2>3. QED
        BY <1>1, <2>1, <2>2
<1>5. Beside(s, r, lr)
    BY <1>2 DEF Beside
<1>6. Holds(r, lr, b)
    <2>1. Attention[lr] # "dsa"
        OBVIOUS
    <2>2. QED
        BY <1>2, <1>4, <2>1 DEF Holds
<1>7. RefAttention(lr, b, n + 1) = KdaRead(lr, k, e)
    <2>1. SubSeq(b, 1, n + 1) = b
        BY <1>1, <1>3, WholeRow
    <2>2. QED
        BY <1>1, <1>4, <2>1, RefKda
<1>8. \A t \in 1 .. 1 : <<KdaRead(lr, k, e)>>[t] = RefAttention(lr, b, n + t)
    <2>1. \A t \in 1 .. 1 : t = 1
        OBVIOUS
    <2>2. <<KdaRead(lr, k, e)>>[1] = RefAttention(lr, b, n + 1)
        BY <1>7
    <2>3. QED
        BY <2>1, <2>2
<1>9. Row(<<KdaRead(lr, k, e)>>, 1) /\ Len(<<e>>) = 1
    BY Single
<1>10. QED
    BY <1>3, <1>5, <1>6, <1>8, <1>9 DEF Attends, b, r

\* The recurrence over the tokens of a call.
LEMMA KdaForwardIs ==
    ASSUME NEW lr \in Layers, Attention[lr] = "kda",
           NEW s, State(s), NEW k \in Nat, NEW a, Row(a, k), Holds(s, lr, a),
           NEW m \in Nat, NEW xs, Row(xs, m)
    PROVE  Attends(lr, s, a, xs, KdaForward(lr, s, xs))
<1> DEFINE b == [s |-> s, out |-> <<>>]
           f == [j \in 0 .. m |-> KdaRun!Fold(lr, b, FirstOf(xs, j))]
<1>1. KdaForward(lr, s, xs) = KdaRun!Fold(lr, b, xs)
    BY DEF KdaForward, KdaRun!Fold, KdaTakes, FoldLeft, MapThenFoldSet, Max,
           KdaRun!FoldLeft, KdaRun!MapThenFoldSet, KdaRun!Max
<1>2. FirstOf(xs, m) = xs
    BY DEF FirstOf, Row
<1>3. \A j \in 0 .. m : f[j] = KdaRun!Fold(lr, b, FirstOf(xs, j))
    OBVIOUS
<1> HIDE DEF b, f
<1>4. f[0] = b
    <2>1. FirstOf(xs, 0) = <<>> /\ 0 \in 0 .. m
        BY DEF FirstOf
    <2>2. KdaRun!Fold(lr, b, <<>>) = b
        BY KdaRun!FoldEmpty
    <2>3. QED
        BY <1>3, <2>1, <2>2
<1>5. ASSUME NEW j \in 0 .. m - 1, Attends(lr, s, a, FirstOf(xs, j), f[j])
      PROVE  \E r : /\ Attends(lr, f[j].s, Join(a, FirstOf(xs, j)), <<xs[j + 1]>>, r)
                    /\ f[j + 1] = [s |-> r.s, out |-> Join(f[j].out, r.out)]
    <2> DEFINE p == FirstOf(xs, j)
               q == FirstOf(xs, j + 1)
               e == xs[j + 1]
               c == KdaStep(lr, f[j].s.kda[lr], e)
               r == [s |-> SetKda(f[j].s, lr, c), out |-> <<KdaRead(lr, c, e)>>]
    <2>1. j \in Nat /\ j \in 0 .. m /\ j + 1 \in 0 .. m /\ j + 1 \in Nat
        OBVIOUS
    <2>2. /\ Row(p, j) /\ DOMAIN p = 1 .. j /\ DOMAIN q = 1 .. j + 1
          /\ (\A i \in 1 .. j : p[i] = xs[i]) /\ (\A i \in 1 .. j + 1 : q[i] = xs[i])
        BY <2>1, FirstOfIs
    <2>3. f[j] = KdaRun!Fold(lr, b, p) /\ f[j + 1] = KdaRun!Fold(lr, b, q)
        BY <1>3, <2>1
    <2> HIDE DEF p, q
    <2>4. f[j + 1] = KdaTakes(lr, f[j], e)
        <3>1. (\A i \in 1 .. j : p[i] = q[i]) /\ q[j + 1] = e
            BY <2>1, <2>2
        <3>2. KdaRun!Fold(lr, b, q) = KdaTakes(lr, KdaRun!Fold(lr, b, p), q[j + 1])
            BY <2>1, <2>2, <3>1, KdaRun!FoldStep
        <3>3. QED
            BY <2>3, <3>1, <3>2
    <2>5. f[j + 1] = [s |-> r.s, out |-> Join(f[j].out, r.out)]
        <3>1. Row(f[j].out, j)
            BY <1>5, <2>1, FirstOfIs DEF Attends
        <3>2. Append(f[j].out, KdaRead(lr, c, e)) = Join(f[j].out, <<KdaRead(lr, c, e)>>)
            <4> DEFINE o == f[j].out
                       v == KdaRead(lr, c, e)
            <4> HIDE DEF o, v
            <4>1. Extend(o, v) = Join(o, <<v>>)
                BY <2>1, <3>1, ExtendIsJoin DEF o
            <4>2. QED
                BY <4>1 DEF Extend, o, v
        <3>3. f[j + 1] = [s |-> [f[j].s EXCEPT !.kda[lr] = c], out |-> Append(f[j].out, KdaRead(lr, c, e))]
            BY <2>4 DEF KdaTakes
        <3>4. QED
            BY <3>2, <3>3 DEF SetKda
    <2>6. State(f[j].s) /\ Holds(f[j].s, lr, Join(a, p))
        BY <1>5 DEF Attends, Beside, p
    <2>7. Row(Join(a, p), k + j) /\ k + j \in Nat
        BY <2>1, <2>2, Joined
    <2>8. Attends(lr, f[j].s, Join(a, p), <<e>>, r)
        <3> DEFINE w == k + j
        <3>1. w \in Nat /\ Row(Join(a, p), w)
            BY <2>7
        <3> HIDE DEF w, e
        <3>2. QED
            BY <2>6, <3>1, KdaTokenIs
    <2>9. QED
        BY <2>5, <2>8 DEF p
<1>6. Attends(lr, s, a, xs, f[m])
    BY <1>4, <1>5, OneByOne DEF b
<1>7. m \in 0 .. m
    OBVIOUS
<1>8. QED
    BY <1>1, <1>2, <1>3, <1>6, <1>7

\* The attention of a layer, whichever it is and however it is called.
LEMMA AttentionIs ==
    ASSUME PoolScores, NEW lr \in Layers,
           NEW s, State(s), NEW k \in Nat, NEW a, Row(a, k), Holds(s, lr, a),
           NEW m \in Nat, NEW xs, Row(xs, m)
    PROVE  Attends(lr, s, a, xs, AttentionOf(lr, s, xs))
<1>1. CASE Attention[lr] = "kda"
    BY <1>1, KdaForwardIs DEF AttentionOf
<1>2. CASE Attention[lr] = "dsa" /\ decode
    BY <1>2, DsaDecodeIs DEF AttentionOf
<1>3. CASE Attention[lr] = "dsa" /\ ~decode
    BY <1>3, DsaForwardIs DEF AttentionOf
<1>4. QED
    BY <1>1, <1>2, <1>3, KindsAre

\* What the layers make of a text they make of the beginning of any longer one.
LEMMA Causal ==
    ASSUME NEW n \in Nat, NEW a, Row(a, n), NEW m \in Nat, NEW b, Row(b, m), n <= m,
           \A t \in 1 .. n : a[t] = b[t], NEW k \in Nat, k <= L
    PROVE  /\ \A t \in 1 .. n : Hidden(a, k)[t] = Hidden(b, k)[t]
           /\ k < L => \A t \in 1 .. n : /\ Inputs(a, k + 1)[t] = Inputs(b, k + 1)[t]
                                         /\ Middles(a, k + 1)[t] = Middles(b, k + 1)[t]
<1> DEFINE Same(j) == \A t \in 1 .. n : Hidden(a, j)[t] = Hidden(b, j)[t]
           P == {j \in Nat : j <= L => Same(j)}
<1>0. DOMAIN a = 1 .. n /\ DOMAIN b = 1 .. m /\ \A t \in 1 .. n : t \in 1 .. m
    <2>1. DOMAIN a = 1 .. n /\ DOMAIN b = 1 .. m
        BY RowIs
    <2>2. QED
        BY <2>1
<1>1. 0 \in P
    <2>1. Hidden(a, 0) = Embedded(a) /\ Hidden(b, 0) = Embedded(b)
        BY HiddenStarts
    <2>2. ASSUME NEW t \in 1 .. n
          PROVE  Embedded(a)[t] = Embedded(b)[t]
        BY <1>0 DEF Embedded
    <2>3. QED
        BY <2>1, <2>2
<1>2. ASSUME NEW j \in Nat, j < L, Same(j)
      PROVE  \A t \in 1 .. n : /\ Inputs(a, j + 1)[t] = Inputs(b, j + 1)[t]
                               /\ Middles(a, j + 1)[t] = Middles(b, j + 1)[t]
    <2>1. (j + 1) - 1 = j /\ j + 1 \in Layers
        BY <1>2, LayersAre
    <2> DEFINE p == Inputs(a, j + 1)
               q == Inputs(b, j + 1)
    <2>2. \A t \in 1 .. n : p[t] = q[t]
        BY <1>0, <1>2, <2>1 DEF Inputs
    <2>3. Row(p, n) /\ Row(q, m)
        BY HiddenIs
    <2>4. ASSUME NEW t \in 1 .. n
          PROVE  Middles(a, j + 1)[t] = Middles(b, j + 1)[t]
        <3> HIDE DEF p, q
        <3>1. t \in Nat /\ t > 0 /\ t <= n /\ t <= m /\ \A i \in 1 .. t : p[i] = q[i]
            BY <2>2
        <3>2. RefAttention(j + 1, p, t) = RefAttention(j + 1, q, t)
            BY <2>1, <2>3, <3>1, LooksBack
        <3>3. Middles(a, j + 1)[t] = Out(j + 1, "attn", Hidden(a, j)[t], RefAttention(j + 1, p, t))
            BY <1>0, <2>1 DEF Middles, p
        <3>4. Middles(b, j + 1)[t] = Out(j + 1, "attn", Hidden(b, j)[t], RefAttention(j + 1, q, t))
            BY <1>0, <2>1 DEF Middles, q
        <3>5. QED
            BY <1>2, <3>2, <3>3, <3>4
    <2>5. QED
        BY <2>2, <2>4
<1>3. ASSUME NEW j \in Nat, j \in P
      PROVE  j + 1 \in P
    <2>1. SUFFICES ASSUME j + 1 <= L
                   PROVE  Same(j + 1)
        OBVIOUS
    <2>2. L \in Nat
        BY LayersAre
    <2>3. j < L /\ Same(j)
        BY <1>3, <2>1, <2>2
    <2>4. \A t \in 1 .. n : Middles(a, j + 1)[t] = Middles(b, j + 1)[t]
        BY <1>2, <2>3
    <2>5. \A t \in 1 .. n : Sites(a, j + 1)[t] = Sites(b, j + 1)[t]
        BY <1>0, <2>4 DEF Sites
    <2>6. \A t \in 1 .. n : Hidden(a, j + 1)[t] =
                Out(j + 1, "ffn", Middles(a, j + 1)[t], RefMlp(j + 1, Sites(a, j + 1)[t]))
        BY HiddenIs
    <2>7. \A t \in 1 .. m : Hidden(b, j + 1)[t] =
                Out(j + 1, "ffn", Middles(b, j + 1)[t], RefMlp(j + 1, Sites(b, j + 1)[t]))
        BY HiddenIs
    <2>8. QED
        BY <1>0, <2>4, <2>5, <2>6, <2>7
<1>4. k \in P
    <2> HIDE DEF P
    <2>1. QED
        BY <1>1, <1>3, NatSet
<1>5. Same(k)
    BY <1>4
<1>6. QED
    BY <1>2, <1>5

----------------------------------------------------------------------------
(***************************************************************************)
(* The rows that a call returns are the model's, whatever the calls before *)
(* it were. The inductive invariant says what each layer of the state has  *)
(* taken, how far the streams are, and that what is kept for a rollback is *)
(* still there.                                                            *)
(***************************************************************************)

\* A layer of a state has taken the tokens.
Took(s, lr, toks) == Holds(s, lr, Inputs(toks, lr))

\* What a state is after it has been rolled back to an earlier one.
Restored(u, s) == [pos |-> u.pos, kda |-> u.kda, rows |-> s.rows, n |-> u.n]

\* The text with the call's tokens.
All == Join(fed, ids)

\* The layers that have taken the call's tokens already.
Behind(i) == i < l \/ (i = l /\ pc # "attention")

Texts == fed \in Seq(Tokens) /\ ids \in Seq(Tokens) /\ State(st)

\* Between two calls all layers have taken the text, and the rows that the
\* last call returned are its last ones.
Resting ==
    pc = "idle" =>
        /\ st.pos = Len(fed) /\ \A i \in Layers : Took(st, i, fed)
        /\ Row(logits, Len(logits)) /\ Len(logits) <= Len(fed)
        /\ \A t \in 1 .. Len(logits) : logits[t] = Unembed(Hidden(fed, L)[Len(fed) - Len(logits) + t])

\* In a call the layers behind have taken its tokens too.
Taking ==
    pc \in {"attention", "mlp", "resolve", "head"} =>
        /\ st.pos = Len(fed) /\ Len(ids) > 0
        /\ \A i \in Layers : Took(st, i, IF Behind(i) THEN All ELSE fed)

\* The streams are the model's, up to where the call is.
Streaming ==
    /\ pc \in {"attention", "mlp", "resolve", "head"} => Row(h, Len(ids))
    /\ pc = "attention" => \A t \in 1 .. Len(ids) : h[t] = Hidden(All, l - 1)[Len(fed) + t]
    /\ pc = "head" => l = L /\ \A t \in 1 .. Len(ids) : h[t] = Hidden(All, L)[Len(fed) + t]
    /\ pc \in {"mlp", "resolve"} =>
        /\ Row(x, Len(ids)) /\ Row(sub, t0) /\ t0 < Len(ids)
        /\ \A t \in 1 .. Len(ids) : /\ h[t] = Middles(All, l)[Len(fed) + t]
                                    /\ x[t] = Sites(All, l)[Len(fed) + t]
        /\ \A t \in 1 .. t0 : sub[t] = RefMlp(l, x[t])

\* The state can be rolled back to what was kept.
Keeping ==
    snap # Null /\ pc # "failed" =>
        /\ State(snap) /\ snap.pos \in Nat /\ snap.pos <= Len(fed)
        /\ \A i \in Layers : Took(Restored(snap, st), i, SubSeq(fed, 1, snap.pos))

ModelInv == Texts /\ Resting /\ Taking /\ Streaming /\ Keeping

\* The two texts of a call, and their join.
LEMMA TextsAre ==
    ASSUME NEW a \in Seq(Tokens), NEW b \in Seq(Tokens)
    PROVE  /\ Row(a, Len(a)) /\ Len(a) \in Nat /\ Row(b, Len(b)) /\ Len(b) \in Nat
           /\ Join(a, b) = a \o b /\ Join(a, b) \in Seq(Tokens)
           /\ Len(Join(a, b)) = Len(a) + Len(b) /\ Row(Join(a, b), Len(a) + Len(b))
           /\ \A i \in 1 .. Len(a) : Join(a, b)[i] = a[i]
           /\ \A i \in 1 .. Len(b) : Join(a, b)[Len(a) + i] = b[i]
<1>1. Row(a, Len(a)) /\ Len(a) \in Nat /\ Row(b, Len(b)) /\ Len(b) \in Nat
    BY RowOfSeq
<1>2. /\ Row(Join(a, b), Len(a) + Len(b))
      /\ \A i \in 1 .. Len(a) : Join(a, b)[i] = a[i]
      /\ \A i \in 1 .. Len(b) : Join(a, b)[Len(a) + i] = b[i]
    <2> DEFINE n == Len(a)
               m == Len(b)
    <2>1. n \in Nat /\ m \in Nat /\ Row(a, n) /\ Row(b, m)
        BY <1>1
    <2> HIDE DEF n, m
    <2>2. /\ Row(Join(a, b), n + m)
          /\ \A i \in 1 .. n : Join(a, b)[i] = a[i]
          /\ \A i \in 1 .. m : Join(a, b)[n + i] = b[i]
        BY <2>1, Joined
    <2>3. QED
        BY <2>2 DEF n, m
<1>3. Join(a, b) = a \o b
    BY DEF Join
<1>4. a \o b \in Seq(Tokens) /\ Len(a \o b) = Len(a) + Len(b)
    OBVIOUS
<1>5. QED
    BY <1>1, <1>2, <1>3, <1>4

\* What a layer has depends on what the state has of that layer.
LEMMA HoldsBeside ==
    ASSUME NEW s, NEW r, NEW i, NEW a, Holds(s, i, a),
           r.kda[i] = s.kda[i], r.rows[i] = s.rows[i], r.n[i] = s.n[i]
    PROVE  Holds(r, i, a)
BY DEF Holds

\* A new state has taken nothing.
LEMMA NothingTaken ==
    ASSUME NEW i \in Layers
    PROVE  Took(NewState, i, <<>>)
<1>1. Inputs(<<>>, i) = <<>>
    BY DEF Inputs
<1>2. NewState.kda[i] = KdaZero /\ NewState.rows[i] = <<>> /\ NewState.n[i] = 0
    BY DEF NewState
<1>3. KdaFold!Fold(i, KdaZero, <<>>) = KdaZero
    BY KdaFold!FoldEmpty
<1>4. Row(<<>>, 0) /\ Len(<<>>) = 0 /\ 0 \in Nat
    BY Nothing
<1>5. QED
    BY <1>1, <1>2, <1>3, <1>4 DEF Took, Holds

\* A new state is a state.
LEMMA NewStateIs == State(NewState) /\ NewState.pos = 0
BY DEF State, NewState

\* The three fields that a rollback assigns.
LEMMA ThreeFields ==
    ASSUME NEW p, NEW k, NEW rs, NEW ns, NEW a, NEW b, NEW c
    PROVE  [[pos |-> p, kda |-> k, rows |-> rs, n |-> ns] EXCEPT !.pos = a, !.kda = b, !.n = c]
            = [pos |-> a, kda |-> b, rows |-> rs, n |-> c]
<1> DEFINE s == [pos |-> p, kda |-> k, rows |-> rs, n |-> ns]
           u == [s EXCEPT !.pos = a]
           v == [u EXCEPT !.kda = b]
<1>1. u = [pos |-> a, kda |-> k, rows |-> rs, n |-> ns]
    OBVIOUS
<1>2. [s EXCEPT !.pos = a, !.kda = b, !.n = c] = [v EXCEPT !.n = c]
    OBVIOUS
<1> HIDE DEF u
<1>3. v = [pos |-> a, kda |-> b, rows |-> rs, n |-> ns]
    BY <1>1
<1> HIDE DEF v
<1>4. [v EXCEPT !.n = c] = [pos |-> a, kda |-> b, rows |-> rs, n |-> c]
    BY <1>3
<1>5. QED
    BY <1>2, <1>4

\* A rollback copies position, recurrences and counts, and leaves the rows.
LEMMA RestoredIs ==
    ASSUME State(st), State(snap)
    PROVE  /\ Undone = Restored(snap, st) /\ State(Restored(snap, st))
           /\ Restored(snap, st).pos = snap.pos
<1>1. PICK p, k, rs, ns : st = [pos |-> p, kda |-> k, rows |-> rs, n |-> ns]
    BY DEF State
<1>2. st.rows = rs
    BY <1>1
<1>3. Undone = [pos |-> snap.pos, kda |-> snap.kda, rows |-> rs, n |-> snap.n]
    <2>1. Undone = [[pos |-> p, kda |-> k, rows |-> rs, n |-> ns]
                        EXCEPT !.pos = snap.pos, !.kda = snap.kda, !.n = snap.n]
        BY <1>1 DEF Undone
    <2>2. QED
        BY <2>1, ThreeFields
<1>4. State(Restored(snap, st))
    BY DEF State, Restored
<1>5. QED
    BY <1>2, <1>3, <1>4 DEF Restored

\* The invariant holds at the start, and every step keeps it.
LEMMA InitModel ==
    ASSUME Init
    PROVE  ModelInv
<1> USE DEF Init
<1>1. <<>> \in Seq(Tokens) /\ Len(<<>>) = 0
    OBVIOUS
<1>2. Texts
    BY <1>1, NewStateIs DEF Texts
<1>3. Resting
    <2>1. \A i \in Layers : Took(NewState, i, <<>>)
        BY NothingTaken
    <2>2. QED
        BY <1>1, <2>1, NewStateIs, Nothing DEF Resting
<1>4. QED
    BY <1>2, <1>3 DEF ModelInv, Taking, Streaming, Keeping

LEMMA NextRequestModel ==
    ASSUME NextRequest
    PROVE  ModelInv'
<1>0. /\ st' = NewState /\ snap' = Null /\ ids' = <<>> /\ logits' = <<>>
      /\ pc' = "idle" /\ fed' = <<>>
    BY DEF NextRequest
<1>1. <<>> \in Seq(Tokens) /\ Len(<<>>) = 0
    OBVIOUS
<1>2. Texts'
    BY <1>0, <1>1, NewStateIs DEF Texts
<1>3. Resting'
    <2>1. \A i \in Layers : Took(NewState, i, <<>>)
        BY NothingTaken
    <2>2. QED
        BY <1>0, <1>1, <2>1, NewStateIs, Nothing DEF Resting
<1>4. QED
    BY <1>0, <1>2, <1>3 DEF ModelInv, Taking, Streaming, Keeping

\* Steps that change nothing the model's rows are made of.
LEMMA SameModel ==
    ASSUME ModelInv, UNCHANGED <<st, snap, ids, l, t0, h, x, sub, logits, fed>>,
           pc' = pc \/ pc' = "failed" \/ (pc = "mlp" /\ pc' = "resolve")
    PROVE  ModelInv'
<1>1. All' = All /\ Restored(snap, st)' = Restored(snap, st)
    BY DEF All
<1>2. Texts'
    BY DEF ModelInv, Texts
<1>3. Resting'
    BY DEF ModelInv, Resting
<1>4. Taking'
    <2>1. CASE pc' = "failed"
        BY <2>1 DEF Taking
    <2>2. CASE pc' # "failed"
        <3>1. \A i \in Layers : Behind(i)' <=> Behind(i)
            BY <2>2 DEF Behind
        <3>2. QED
            BY <1>1, <2>2, <3>1 DEF ModelInv, Taking
    <2>3. QED
        BY <2>1, <2>2
<1>5. Streaming'
    <2>1. CASE pc' = "failed"
        BY <2>1 DEF Streaming
    <2>2. CASE pc' # "failed"
        BY <1>1, <2>2 DEF ModelInv, Streaming
    <2>3. QED
        BY <2>1, <2>2
<1>6. Keeping'
    BY <1>1 DEF ModelInv, Keeping
<1>7. QED
    BY <1>2, <1>3, <1>4, <1>5, <1>6 DEF ModelInv

LEMMA BeginModel ==
    ASSUME ModelInv, NEW s \in 1 .. MaxBatch, NEW toks \in [1 .. s -> Tokens],
           NEW dec \in BOOLEAN, Begin(toks, dec)
    PROVE  ModelInv'
<1>1. CASE st.pos + Len(toks) > Cap
    <2>1. UNCHANGED <<st, snap, ids, pc, l, t0, h, x, sub, logits, fed>>
        BY <1>1 DEF Begin, call, streams, history
    <2>2. QED
        BY <2>1, SameModel
<1>2. CASE ~(st.pos + Len(toks) > Cap)
    <2>1. /\ pc = "idle" /\ UNCHANGED <<st, fed, logits>>
          /\ ids' = toks /\ snap' \in {st, Null}
          /\ h' = [t \in DOMAIN toks |-> Embed(toks[t])]
          /\ pc' = "attention" /\ l' = 1
        BY <1>2 DEF Begin, history
    <2>2. toks \in Seq(Tokens) /\ Len(toks) = s /\ DOMAIN toks = 1 .. s /\ s \in Nat /\ s > 0
        BY BoundIs
    <2> DEFINE n == Len(fed)
    <2>3. fed \in Seq(Tokens) /\ State(st) /\ st.pos = n /\ \A i \in Layers : Took(st, i, fed)
        BY <2>1 DEF ModelInv, Texts, Resting
    <2>4. /\ n \in Nat /\ Row(fed, n) /\ Row(All', n + s)
          /\ \A i \in 1 .. s : All'[n + i] = toks[i]
        BY <2>1, <2>2, <2>3, TextsAre DEF All
    <2> HIDE DEF n
    <2>5. Texts'
        BY <2>1, <2>2, <2>3 DEF Texts
    <2>6. Resting'
        BY <2>1 DEF Resting
    <2>7. Taking'
        <3>1. \A i \in Layers : ~Behind(i)'
            BY <2>1, LayersAre DEF Behind
        <3>2. QED
            BY <2>1, <2>2, <2>3, <3>1 DEF Taking, n
    <2>8. Streaming'
        <3>1. Row(h', s)
            BY <2>1, <2>2 DEF Row
        <3>2. l' - 1 = 0 /\ Hidden(All', 0) = Embedded(All')
            BY <2>1, HiddenStarts
        <3>3. ASSUME NEW t \in 1 .. s
              PROVE  h'[t] = Embedded(All')[n + t]
            <4>1. n + t \in DOMAIN All'
                <5>1. n + s \in Nat /\ n + t \in 1 .. n + s
                    BY <2>2, <2>4
                <5>2. DOMAIN All' = 1 .. n + s
                    BY <2>4, <5>1, RowIs
                <5>3. QED
                    BY <5>1, <5>2
            <4>2. QED
                BY <2>1, <2>2, <2>4, <4>1 DEF Embedded
        <3>4. \A t \in 1 .. Len(ids') : h'[t] = Hidden(All', l' - 1)[Len(fed') + t]
            BY <2>1, <2>2, <3>2, <3>3 DEF n
        <3>5. QED
            BY <2>1, <2>2, <3>1, <3>4 DEF Streaming
    <2>9. Keeping'
        <3>1. SUFFICES ASSUME snap' = st
                       PROVE  Keeping'
            BY <2>1 DEF Keeping
        <3>2. SubSeq(fed, 1, n) = fed
            BY <2>4, WholeRow
        <3>3. \A i \in Layers : Took(Restored(st, st), i, fed)
            BY <2>3, HoldsBeside DEF Took, Restored
        <3>4. /\ State(snap') /\ snap'.pos = n /\ n \in Nat /\ n <= Len(fed')
              /\ SubSeq(fed', 1, snap'.pos) = fed /\ Restored(snap', st') = Restored(st, st)
            BY <2>1, <2>3, <2>4, <3>1, <3>2 DEF n
        <3> HIDE DEF n
        <3>5. \A i \in Layers : Took(Restored(snap', st'), i, SubSeq(fed', 1, snap'.pos))
            BY <3>3, <3>4
        <3>6. QED
            BY <3>4, <3>5 DEF Keeping
    <2>10. QED
        BY <2>5, <2>6, <2>7, <2>8, <2>9 DEF ModelInv
<1>3. QED
    BY <1>1, <1>2

\* What can be rolled back to is untouched by an attention.
LEMMA KeepingBeside ==
    ASSUME NEW lr \in Layers, NEW s, NEW r, Beside(s, r, lr),
           NEW toks \in Seq(Tokens), NEW text \in Seq(Tokens), NEW more \in Seq(Tokens),
           Len(toks) <= Len(text), Len(text) <= Len(more), Took(s, lr, text), Took(r, lr, more),
           NEW u, NEW i \in Layers, Took(Restored(u, s), i, toks)
    PROVE  Took(Restored(u, r), i, toks)
<1>1. /\ Restored(u, r).kda = u.kda /\ Restored(u, s).kda = u.kda
      /\ Restored(u, r).n = u.n /\ Restored(u, s).n = u.n
      /\ Restored(u, r).rows = r.rows /\ Restored(u, s).rows = s.rows
    BY DEF Restored
<1>2. CASE i # lr \/ Attention[lr] = "kda"
    <2>1. r.rows[i] = s.rows[i]
        BY <1>2 DEF Beside
    <2>2. QED
        BY <1>1, <2>1, HoldsBeside DEF Took
<1>3. CASE i = lr /\ Attention[lr] = "dsa"
    <2> DEFINE a == Inputs(toks, lr)
               c == Inputs(text, lr)
               d == Inputs(more, lr)
    <2>1. /\ Len(a) = Len(toks) /\ Len(c) = Len(text) /\ Len(d) = Len(more)
          /\ Len(toks) \in Nat /\ Len(text) \in Nat /\ Len(more) \in Nat
        <3>1. /\ Row(a, Len(toks)) /\ Row(c, Len(text)) /\ Row(d, Len(more))
              /\ Len(toks) \in Nat /\ Len(text) \in Nat /\ Len(more) \in Nat
            BY DEF Inputs, Row
        <3> HIDE DEF a, c, d
        <3>2. QED
            BY <3>1, RowIs
    <2> HIDE DEF a, c, d
    <2>2. s.n[lr] = Len(c)
        BY <1>3 DEF Took, Holds, c
    <2>3. /\ u.n[lr] = Len(a)
          /\ \A t \in 1 .. Len(a) : s.rows[lr][t] = a[t]
        BY <1>1, <1>3 DEF Took, Holds, a
    <2>4. PICK m \in Nat : Len(d) <= m /\ Row(r.rows[lr], m)
        BY <1>3 DEF Took, Holds, d
    <2>5. \A t \in 1 .. s.n[lr] : r.rows[lr][t] = s.rows[lr][t]
        BY <1>3 DEF Beside
    <2>6. \A t \in 1 .. Len(a) : r.rows[lr][t] = a[t]
        BY <2>1, <2>2, <2>3, <2>5
    <2>7. Len(a) <= m
        BY <2>1, <2>4
    <2>8. Attention[lr] # "kda"
        BY <1>3
    <2>9. Holds(Restored(u, r), lr, a)
        BY <1>1, <2>3, <2>4, <2>6, <2>7, <2>8 DEF Holds
    <2>10. QED
        BY <1>3, <2>9 DEF Took, a
<1>4. QED
    BY <1>2, <1>3, KindsAre

LEMMA AttentionModel ==
    ASSUME PoolScores, ForwardInv, ModelInv, AttentionSite
    PROVE  ModelInv'
<1> DEFINE n   == Len(fed)
           m   == Len(ids)
           k   == l - 1
           xs  == [t \in DOMAIN h |-> In(l, "attn", h[t])]
           r   == AttentionOf(l, st, xs)
           a   == Inputs(fed, l)
           b   == Inputs(All, l)
<1>1. /\ pc = "attention" /\ pc' = "mlp" /\ st' = r.s /\ t0' = 0 /\ sub' = <<>>
      /\ h' = [t \in DOMAIN h |-> Out(l, "attn", h[t], r.out[t])]
      /\ x' = [t \in DOMAIN h |-> In(l, "ffn", h'[t])]
      /\ UNCHANGED <<snap, ids, l, fed, logits>>
    BY DEF AttentionSite, call, history
<1>2. /\ fed \in Seq(Tokens) /\ ids \in Seq(Tokens) /\ State(st) /\ st.pos = n /\ m > 0 /\ Row(h, m)
      /\ \A t \in 1 .. m : h[t] = Hidden(All, k)[n + t]
    BY <1>1 DEF ModelInv, Texts, Taking, Streaming
<1>3. l \in Layers /\ l \in Nat /\ k \in Nat /\ l = k + 1 /\ k < L /\ k <= L
    BY LayersAre DEF ForwardInv, Shaped
<1>4. /\ n \in Nat /\ m \in Nat /\ Row(fed, n) /\ Row(All, n + m) /\ All \in Seq(Tokens)
      /\ Len(All) = n + m /\ \A i \in 1 .. n : All[i] = fed[i]
    BY <1>2, TextsAre DEF All
<1>5. DOMAIN h = 1 .. m
    BY <1>2, <1>4, RowIs
<1>6. Row(xs, m) /\ Len(xs) = m /\ \A t \in 1 .. m : xs[t] = In(l, "attn", h[t])
    <2>1. Row(xs, m) /\ \A t \in 1 .. m : xs[t] = In(l, "attn", h[t])
        BY <1>4, <1>5 DEF Row
    <2> HIDE DEF xs, m
    <2>2. QED
        BY <1>4, <2>1, RowIs
<1> HIDE DEF n, m, k, xs, r, a, b
<1>7. n + m \in Nat /\ n <= n + m
    BY <1>4
<1>8. Row(a, n) /\ Row(b, n + m) /\ Len(a) = n
    <2>1. Row(Inputs(fed, k + 1), n) /\ Row(Inputs(All, k + 1), n + m)
        BY <1>3, <1>4, <1>7, HiddenIs
    <2>2. Row(a, n) /\ Row(b, n + m)
        BY <1>3, <2>1 DEF a, b
    <2>3. QED
        BY <1>4, <2>2, RowIs
<1>9. DOMAIN All = 1 .. n + m
    BY <1>4, <1>7, RowIs
<1>10. Join(a, xs) = b
    <2>1. /\ Row(Join(a, xs), n + m) /\ (\A i \in 1 .. n : Join(a, xs)[i] = a[i])
          /\ \A i \in 1 .. m : Join(a, xs)[n + i] = xs[i]
        BY <1>4, <1>6, <1>8, Joined
    <2>2. \A i \in 1 .. n : a[i] = b[i]
        <3> DEFINE w == n + m
        <3>1. w \in Nat /\ Row(All, w) /\ n <= w /\ \A i \in 1 .. n : fed[i] = All[i]
            BY <1>4, <1>7
        <3> HIDE DEF w
        <3>2. \A t \in 1 .. n : Inputs(fed, k + 1)[t] = Inputs(All, k + 1)[t]
            BY <1>3, <1>4, <3>1, Causal
        <3>3. QED
            BY <1>3, <3>2 DEF a, b
    <2>3. ASSUME NEW i \in 1 .. m
          PROVE  b[n + i] = xs[i]
        <3>1. n + i \in 1 .. n + m
            BY <1>4
        <3>2. b[n + i] = In(l, "attn", Hidden(All, k)[n + i])
            BY <1>9, <3>1 DEF b, k, Inputs
        <3>3. QED
            BY <1>2, <1>6, <3>2
    <2>4. ASSUME NEW i \in 1 .. n + m
          PROVE  Join(a, xs)[i] = b[i]
        <3>1. CASE i \in 1 .. n
            BY <2>1, <2>2, <3>1
        <3>2. CASE i \notin 1 .. n
            <4>1. i - n \in 1 .. m /\ n + (i - n) = i
                BY <1>4, <3>2
            <4>2. Join(a, xs)[n + (i - n)] = xs[i - n] /\ b[n + (i - n)] = xs[i - n]
                BY <2>1, <2>3, <4>1
            <4>3. QED
                BY <4>1, <4>2
        <3>3. QED
            BY <3>1, <3>2
    <2>5. QED
        BY <1>7, <1>8, <2>1, <2>4, SameRow
<1>11. /\ ~Behind(l)
       /\ \A i \in Layers \ {l} : Behind(i)' <=> Behind(i)
       /\ Behind(l)'
    BY <1>1, <1>3, LayersAre DEF Behind
<1>12. \A i \in Layers : Took(st, i, IF Behind(i) THEN All ELSE fed)
    BY <1>1 DEF ModelInv, Taking
<1>13. Attends(l, st, a, xs, r)
    <2>1. Holds(st, l, a)
        BY <1>3, <1>11, <1>12 DEF Took, a
    <2>2. QED
        BY <1>2, <1>3, <1>4, <1>6, <1>8, <2>1, AttentionIs DEF r
<1>14. /\ Beside(st, r.s, l) /\ Holds(r.s, l, b)
       /\ \A t \in 1 .. m : r.out[t] = RefAttention(l, b, n + t)
    BY <1>6, <1>8, <1>10, <1>13 DEF Attends
<1>15. Texts'
    BY <1>1, <1>2, <1>14 DEF Texts, Beside
<1>16. Resting'
    BY <1>1 DEF Resting
<1>17. Taking'
    <2>1. All' = All /\ fed' = fed
        BY <1>1 DEF All
    <2>2. ASSUME NEW i \in Layers
          PROVE  Took(st', i, IF Behind(i)' THEN All' ELSE fed')
        <3>1. CASE i = l
            BY <1>1, <1>11, <1>14, <2>1, <3>1 DEF Took, b
        <3>2. CASE i # l
            <4>1. Took(st, i, IF Behind(i)' THEN All' ELSE fed')
                BY <1>11, <1>12, <2>1, <3>2
            <4>2. r.s.kda[i] = st.kda[i] /\ r.s.rows[i] = st.rows[i] /\ r.s.n[i] = st.n[i]
                BY <1>14, <3>2 DEF Beside
            <4>3. QED
                BY <1>1, <4>1, <4>2, HoldsBeside DEF Took
        <3>3. QED
            BY <3>1, <3>2
    <2>3. st'.pos = Len(fed') /\ Len(ids') > 0
        BY <1>1, <1>2, <1>14 DEF Beside, n, m
    <2>4. QED
        BY <2>2, <2>3 DEF Taking
<1>18. Streaming'
    <2>1. All' = All /\ fed' = fed /\ Len(fed') = n /\ Len(ids') = m /\ l' = l
        BY <1>1 DEF All, n, m
    <2>2. Row(h', m) /\ Row(x', m)
        BY <1>1, <1>4, <1>5 DEF Row
    <2>3. ASSUME NEW t \in 1 .. m
          PROVE  h'[t] = Middles(All, l)[n + t] /\ x'[t] = Sites(All, l)[n + t]
        <3>1. n + t \in DOMAIN All
            BY <1>4, <1>9
        <3>2. h'[t] = Out(l, "attn", h[t], r.out[t])
            BY <1>1, <1>5
        <3>3. Middles(All, l)[n + t] = Out(l, "attn", Hidden(All, k)[n + t], RefAttention(l, b, n + t))
            BY <3>1 DEF Middles, b, k
        <3>4. h'[t] = Middles(All, l)[n + t]
            BY <1>2, <1>14, <3>2, <3>3
        <3>5. x'[t] = In(l, "ffn", h'[t])
            BY <1>1, <1>5
        <3>6. QED
            BY <3>1, <3>4, <3>5 DEF Sites
    <2>4. Row(sub', t0') /\ t0' < Len(ids') /\ \A t \in 1 .. t0' : FALSE
        BY <1>1, <1>2, <2>1, Nothing
    <2>5. QED
        BY <1>1, <2>1, <2>2, <2>3, <2>4 DEF Streaming
<1>19. Keeping'
    <2>1. SUFFICES ASSUME snap # Null
                   PROVE  Keeping'
        BY <1>1 DEF Keeping
    <2>2. /\ State(snap) /\ snap.pos \in Nat /\ snap.pos <= Len(fed)
          /\ \A i \in Layers : Took(Restored(snap, st), i, SubSeq(fed, 1, snap.pos))
        BY <1>1, <2>1 DEF ModelInv, Keeping
    <2> DEFINE toks == SubSeq(fed, 1, snap.pos)
    <2>3. toks \in Seq(Tokens) /\ Len(toks) = snap.pos
        BY <1>2, <2>2
    <2> HIDE DEF toks
    <2>4. Took(st, l, fed) /\ Took(r.s, l, All)
        BY <1>3, <1>11, <1>12, <1>14 DEF Took, b
    <2>5. Len(toks) <= Len(fed) /\ Len(fed) <= Len(All)
        BY <1>4, <1>7, <2>2, <2>3 DEF n
    <2>6. ASSUME NEW i \in Layers
          PROVE  Took(Restored(snap, r.s), i, toks)
        <3>1. Took(Restored(snap, st), i, toks)
            BY <2>2 DEF toks
        <3>2. QED
            BY <1>2, <1>3, <1>4, <1>14, <2>3, <2>4, <2>5, <3>1, KeepingBeside
    <2>7. QED
        BY <1>1, <2>2, <2>6 DEF Keeping, toks
<1>20. QED
    BY <1>15, <1>16, <1>17, <1>18, <1>19 DEF ModelInv

\* The feed-forward of a token, as the call computes it.
LEMMA MlpIs ==
    ASSUME Scores, NEW lr \in Layers, NEW xt
    PROVE  (IF Sparse(lr) THEN MoeOf(lr, xt) ELSE Expert(lr, "dense", xt)) = RefMlp(lr, xt)
<1>1. CASE Sparse(lr)
    BY <1>1, MoeIsTheModels
<1>2. CASE ~Sparse(lr)
    BY <1>2 DEF RefMlp
<1>3. QED
    BY <1>1, <1>2

\* The end of a layer: its rows are the model's, and the next layer's inputs.
LEMMA EndOfLayerModel ==
    ASSUME ForwardInv, ModelInv, pc \in {"mlp", "resolve"}, NEW ys, EndOfLayer(ys),
           \A t \in 1 .. Len(ids) : ys[t] = RefMlp(l, x[t]),
           UNCHANGED <<st, snap, ids, logits, fed>>
    PROVE  ModelInv'
<1> DEFINE n == Len(fed)
           m == Len(ids)
           k == l - 1
<1>1. /\ h' = [t \in DOMAIN h |-> Out(l, "ffn", h[t], ys[t])]
      /\ l' = (IF l = L THEN l ELSE l + 1)
      /\ pc' = (IF l = L THEN "head" ELSE "attention")
    BY DEF EndOfLayer
<1>2. /\ fed \in Seq(Tokens) /\ ids \in Seq(Tokens) /\ State(st) /\ st.pos = n /\ m > 0 /\ Row(h, m)
      /\ \A t \in 1 .. m : h[t] = Middles(All, l)[n + t] /\ x[t] = Sites(All, l)[n + t]
    BY DEF ModelInv, Texts, Taking, Streaming
<1>3. l \in Layers /\ l \in Nat /\ k \in Nat /\ l = k + 1 /\ l <= L /\ L \in Nat
    BY LayersAre DEF ForwardInv, Shaped
<1>4. n \in Nat /\ m \in Nat /\ Row(All, n + m) /\ n + m \in Nat
    BY <1>2, TextsAre DEF All
<1>5. DOMAIN h = 1 .. m
    BY <1>2, <1>4, RowIs
<1>6. All' = All /\ fed' = fed /\ ids' = ids /\ Len(fed') = n /\ Len(ids') = m
    BY DEF All
<1> HIDE DEF n, m, k
<1>7. ASSUME NEW t \in 1 .. m
      PROVE  h'[t] = Hidden(All, l)[n + t]
    <2>1. n + t \in 1 .. n + m
        BY <1>4
    <2>2. Hidden(All, k + 1)[n + t] =
            Out(k + 1, "ffn", Middles(All, k + 1)[n + t], RefMlp(k + 1, Sites(All, k + 1)[n + t]))
        <3> DEFINE w == n + m
                   u == n + t
        <3>1. w \in Nat /\ Row(All, w) /\ u \in 1 .. w
            BY <1>4, <2>1
        <3> HIDE DEF w, u
        <3>2. Hidden(All, k + 1)[u] =
                Out(k + 1, "ffn", Middles(All, k + 1)[u], RefMlp(k + 1, Sites(All, k + 1)[u]))
            BY <1>3, <3>1, HiddenIs
        <3>3. QED
            BY <3>2 DEF u
    <2>3. h'[t] = Out(l, "ffn", h[t], ys[t])
        BY <1>1, <1>5
    <2>4. ys[t] = RefMlp(l, x[t])
        BY DEF m
    <2>5. QED
        BY <1>2, <1>3, <2>2, <2>3, <2>4
<1>8. Row(h', m)
    BY <1>1, <1>4, <1>5 DEF Row
<1>9. Texts' /\ Resting'
    BY <1>1, <1>2 DEF Texts, Resting
<1>10. Taking'
    <2>1. \A i \in Layers : Behind(i)' <=> Behind(i)
        BY <1>1, <1>3, LayersAre DEF Behind
    <2>2. \A i \in Layers : Took(st, i, IF Behind(i) THEN All ELSE fed)
        BY DEF ModelInv, Taking
    <2>3. \A i \in Layers : Took(st', i, IF Behind(i)' THEN All' ELSE fed')
        BY <1>6, <2>1, <2>2
    <2>4. st'.pos = Len(fed') /\ Len(ids') > 0
        BY <1>2, <1>6
    <2>5. QED
        BY <2>3, <2>4 DEF Taking
<1>11. Streaming'
    <2>1. CASE l = L
        <3>1. pc' = "head" /\ l' = L
            BY <1>1, <2>1
        <3>2. \A t \in 1 .. m : h'[t] = Hidden(All', L)[n + t]
            BY <1>6, <1>7, <2>1
        <3>3. QED
            BY <1>6, <1>8, <3>1, <3>2 DEF Streaming
    <2>2. CASE l # L
        <3>1. pc' = "attention" /\ l' = l + 1 /\ l' - 1 = l
            BY <1>1, <1>3, <2>2
        <3>2. \A t \in 1 .. m : h'[t] = Hidden(All', l' - 1)[n + t]
            BY <1>6, <1>7, <3>1
        <3>3. QED
            BY <1>6, <1>8, <3>1, <3>2 DEF Streaming
    <2>3. QED
        BY <2>1, <2>2
<1>12. Keeping'
    BY <1>6 DEF ModelInv, Keeping
<1>13. QED
    BY <1>9, <1>10, <1>11, <1>12 DEF ModelInv

LEMMA ResidentModel ==
    ASSUME Scores, ForwardInv, ModelInv, ResidentMlp
    PROVE  ModelInv'
<1>1. /\ pc = "mlp" /\ EndOfLayer(sub')
      /\ sub' = [t \in DOMAIN x |-> IF Sparse(l) THEN MoeOf(l, x[t]) ELSE Expert(l, "dense", x[t])]
      /\ UNCHANGED <<st, snap, ids, logits, fed>>
    BY DEF ResidentMlp, call, history
<1>2. Row(x, Len(ids)) /\ Len(ids) \in Nat
    BY <1>1 DEF ModelInv, Streaming, Row
<1>3. DOMAIN x = 1 .. Len(ids)
    BY <1>2, RowIs
<1>4. l \in Layers
    BY DEF ForwardInv, Shaped
<1>5. \A t \in 1 .. Len(ids) : sub'[t] = RefMlp(l, x[t])
    BY <1>1, <1>3, <1>4, MlpIs
<1>6. QED
    BY <1>1, <1>5, EndOfLayerModel

\* The chunk that starts behind t0 is not empty, and ends with the call's
\* tokens or before them.
LEMMA ChunkIs ==
    ASSUME Shaped, Len(ids) > 0, t0 < Len(ids)
    PROVE  /\ Cardinality(ChunkTokens) \in Nat
           /\ t0 + ChunkSize < Len(ids) => Cardinality(ChunkTokens) = ChunkSize
           /\ ~(t0 + ChunkSize < Len(ids)) => t0 + Cardinality(ChunkTokens) = Len(ids)
<1> DEFINE m == Len(ids)
           c == ChunkSize
<1>1. m \in Nat /\ t0 \in Nat /\ c \in Nat /\ c > 0 /\ t0 < m
    BY DEF Shaped, ChunkSize
<1>2. ChunkTokens = t0 + 1 .. Min({t0 + c, m})
    BY DEF ChunkTokens
<1> HIDE DEF m, c
<1>3. Min({t0 + c, m}) = IF t0 + c <= m THEN t0 + c ELSE m
    BY <1>1, MinOfTwo
<1>4. CASE t0 + c < m
    <2>1. ChunkTokens = t0 + 1 .. t0 + c
        BY <1>1, <1>2, <1>3, <1>4
    <2>2. Cardinality(t0 + 1 .. t0 + c) = c
        <3> DEFINE a == t0 + 1
                   b == t0 + c
        <3>1. a \in Int /\ b \in Int /\ ~(a > b) /\ b - a + 1 = c
            BY <1>1
        <3> HIDE DEF a, b
        <3>2. Cardinality(a .. b) = IF a > b THEN 0 ELSE b - a + 1
            BY <3>1, FS_Interval
        <3>3. QED
            BY <3>1, <3>2 DEF a, b
    <2>3. QED
        BY <1>1, <1>4, <2>1, <2>2 DEF m, c
<1>5. CASE ~(t0 + c < m)
    <2>1. ChunkTokens = t0 + 1 .. m
        BY <1>1, <1>2, <1>3, <1>5
    <2>2. Cardinality(t0 + 1 .. m) = m - t0
        <3> DEFINE a == t0 + 1
        <3>1. a \in Int /\ m \in Int /\ ~(a > m) /\ m - a + 1 = m - t0
            BY <1>1
        <3> HIDE DEF a
        <3>2. Cardinality(a .. m) = IF a > m THEN 0 ELSE m - a + 1
            BY <3>1, FS_Interval
        <3>3. QED
            BY <3>1, <3>2 DEF a
    <2>3. QED
        BY <1>1, <1>5, <2>1, <2>2 DEF m, c
<1>6. QED
    BY <1>4, <1>5

LEMMA ChunkModel ==
    ASSUME Scores, ForwardInv, ModelInv, ForwardChunk
    PROVE  ModelInv'
<1> DEFINE m == Len(ids)
           c == Cardinality(ChunkTokens)
           more == [i \in 1 .. c |-> MoeOf(l, x[t0 + i])]
<1>1. /\ pc = "resolve" /\ sub' = Join(sub, more)
      /\ IF t0 + ChunkSize < m
           THEN t0' = t0 + ChunkSize /\ pc' = "mlp" /\ UNCHANGED <<h, l>>
           ELSE UNCHANGED t0 /\ EndOfLayer(sub')
      /\ UNCHANGED <<st, snap, ids, x, logits, fed>>
    BY DEF ForwardChunk, Join, call, history
<1>2. /\ m > 0 /\ Row(x, m) /\ Row(sub, t0) /\ t0 < m
      /\ \A t \in 1 .. t0 : sub[t] = RefMlp(l, x[t])
    BY <1>1 DEF ModelInv, Taking, Streaming
<1>3. /\ m \in Nat /\ t0 \in Nat /\ c \in Nat
      /\ t0 + ChunkSize < m => c = ChunkSize
      /\ ~(t0 + ChunkSize < m) => t0 + c = m
    BY <1>2, ChunkIs DEF ForwardInv, Shaped
<1>4. l \in Layers /\ Sparse(l)
    BY <1>1 DEF ForwardInv, Shaped, Resolving
<1>5. \A i \in 1 .. c : more[i] = RefMlp(l, x[t0 + i])
    BY <1>4, MoeIsTheModels
<1>6. Row(more, c)
    BY <1>3 DEF Row
<1> HIDE DEF m, c, more
<1>7. /\ Row(sub', t0 + c)
      /\ \A t \in 1 .. t0 + c : sub'[t] = RefMlp(l, x[t])
    <2>1. /\ Row(sub', t0 + c) /\ (\A i \in 1 .. t0 : sub'[i] = sub[i])
          /\ \A i \in 1 .. c : sub'[t0 + i] = more[i]
        BY <1>1, <1>2, <1>3, <1>6, Joined
    <2>2. ASSUME NEW t \in 1 .. t0 + c
          PROVE  sub'[t] = RefMlp(l, x[t])
        <3>1. CASE t \in 1 .. t0
            BY <1>2, <2>1, <3>1
        <3>2. CASE t \notin 1 .. t0
            <4>1. t - t0 \in 1 .. c /\ t0 + (t - t0) = t
                BY <1>3, <3>2
            <4>2. sub'[t0 + (t - t0)] = RefMlp(l, x[t0 + (t - t0)])
                BY <1>5, <2>1, <4>1
            <4>3. QED
                BY <4>1, <4>2
        <3>3. QED
            BY <3>1, <3>2
    <2>3. QED
        BY <2>1, <2>2
<1>8. CASE t0 + ChunkSize < m
    <2>1. /\ t0' = t0 + c /\ pc' = "mlp" /\ t0' < m /\ UNCHANGED <<h, l>>
        BY <1>1, <1>3, <1>8
    <2>2. All' = All /\ Restored(snap, st)' = Restored(snap, st) /\ Len(ids') = m
        BY <1>1 DEF All, m
    <2>3. Texts' /\ Resting'
        BY <1>1, <2>1 DEF ModelInv, Texts, Resting
    <2>4. Taking'
        <3>1. \A i \in Layers : Behind(i)' <=> Behind(i)
            BY <1>1, <2>1 DEF Behind
        <3>2. QED
            BY <1>1, <2>1, <2>2, <3>1 DEF ModelInv, Taking
    <2>5. Streaming'
        <3>1. Row(sub', t0') /\ \A t \in 1 .. t0' : sub'[t] = RefMlp(l', x'[t])
            BY <1>1, <1>7, <2>1
        <3>2. QED
            BY <1>1, <2>1, <2>2, <3>1 DEF ModelInv, Streaming
    <2>6. Keeping'
        BY <1>1, <2>1, <2>2 DEF ModelInv, Keeping
    <2>7. QED
        BY <2>3, <2>4, <2>5, <2>6 DEF ModelInv
<1>9. CASE ~(t0 + ChunkSize < m)
    <2>1. EndOfLayer(sub')
        BY <1>1, <1>9
    <2>2. \A t \in 1 .. Len(ids) : sub'[t] = RefMlp(l, x[t])
        BY <1>3, <1>7, <1>9 DEF m
    <2>3. QED
        BY <1>1, <2>1, <2>2, EndOfLayerModel
<1>10. QED
    BY <1>8, <1>9

SetPos(s, p) == [s EXCEPT !.pos = p]

\* Another position is another state with the same layers.
LEMMA PositionIs ==
    ASSUME NEW s, State(s), NEW p
    PROVE  /\ State(SetPos(s, p)) /\ SetPos(s, p).pos = p /\ SetPos(s, p).kda = s.kda
           /\ SetPos(s, p).rows = s.rows /\ SetPos(s, p).n = s.n
<1>1. PICK q, k, rs, ns : s = [pos |-> q, kda |-> k, rows |-> rs, n |-> ns]
    BY DEF State
<1>2. SetPos(s, p) = [pos |-> p, kda |-> s.kda, rows |-> s.rows, n |-> s.n]
    BY <1>1 DEF SetPos
<1>3. State([pos |-> p, kda |-> s.kda, rows |-> s.rows, n |-> s.n])
    BY DEF State
<1>4. QED
    BY <1>2, <1>3

LEMMA FinishModel ==
    ASSUME ForwardInv, ModelInv, Finish
    PROVE  ModelInv'
<1> DEFINE n == Len(fed)
           m == Len(ids)
<1>1. /\ pc = "head" /\ pc' = "idle" /\ fed' = All
      /\ logits' = [t \in DOMAIN h |-> Unembed(h[t])]
      /\ st' = SetPos(st, st.pos + m)
      /\ UNCHANGED <<snap, ids, l>>
    BY DEF Finish, NewPos, SetPos, All, Join, call
<1>2. /\ fed \in Seq(Tokens) /\ ids \in Seq(Tokens) /\ State(st) /\ st.pos = n /\ m > 0
      /\ Row(h, m) /\ l = L /\ \A t \in 1 .. m : h[t] = Hidden(All, L)[n + t]
    BY <1>1 DEF ModelInv, Texts, Taking, Streaming
<1>3. /\ n \in Nat /\ m \in Nat /\ Row(fed, n) /\ Row(All, n + m) /\ All \in Seq(Tokens)
      /\ Len(All) = n + m /\ \A i \in 1 .. n : All[i] = fed[i]
    BY <1>2, TextsAre DEF All
<1>4. DOMAIN h = 1 .. m
    BY <1>2, <1>3, RowIs
<1>5. /\ State(st') /\ st'.pos = n + m
      /\ st'.kda = st.kda /\ st'.rows = st.rows /\ st'.n = st.n
    BY <1>1, <1>2, PositionIs
<1>6. \A i \in Layers : Took(st, i, All)
    <2>1. \A i \in Layers : Behind(i)
        BY <1>1, <1>2, LayersAre DEF Behind
    <2>2. QED
        BY <1>1, <2>1 DEF ModelInv, Taking
<1> HIDE DEF n, m
<1>7. n + m \in Nat /\ n <= n + m
    BY <1>3
<1>8. Texts'
    BY <1>1, <1>2, <1>3, <1>5 DEF Texts
<1>9. Resting'
    <2>1. \A i \in Layers : Took(st', i, All)
        BY <1>5, <1>6, HoldsBeside DEF Took
    <2>2. /\ Row(logits', m) /\ \A t \in 1 .. m : logits'[t] = Unembed(h[t])
        BY <1>1, <1>3, <1>4 DEF Row
    <2>3. Len(logits') = m
        BY <1>3, <2>2, RowIs
    <2>4. Len(fed') - m = n
        BY <1>1, <1>3
    <2>5. \A t \in 1 .. m : logits'[t] = Unembed(Hidden(fed', L)[Len(fed') - m + t])
        BY <1>1, <1>2, <2>2, <2>4
    <2>6. m <= Len(fed') /\ st'.pos = Len(fed')
        BY <1>1, <1>3, <1>5
    <2>7. QED
        BY <1>1, <2>1, <2>2, <2>3, <2>5, <2>6 DEF Resting
<1>10. Taking' /\ Streaming'
    BY <1>1 DEF Taking, Streaming
<1>11. Keeping'
    <2>1. SUFFICES ASSUME snap # Null
                   PROVE  Keeping'
        BY <1>1 DEF Keeping
    <2> DEFINE p == snap.pos
    <2>2. /\ State(snap) /\ p \in Nat /\ p <= n
          /\ \A i \in Layers : Took(Restored(snap, st), i, SubSeq(fed, 1, p))
        BY <1>1, <2>1 DEF ModelInv, Keeping, n
    <2>3. Restored(snap, st') = Restored(snap, st)
        BY <1>5 DEF Restored
    <2> HIDE DEF p
    <2>4. SubSeq(All, 1, p) = SubSeq(fed, 1, p)
        <3>1. /\ 1 \in Nat /\ 1 <= p + 1 /\ p + 1 - 1 = p /\ p <= n + m
              /\ \A i \in 1 .. p : 1 + i - 1 = i /\ i \in 1 .. n
            BY <1>3, <2>2
        <3>2. Row(SubSeq(fed, 1, p), p) /\ \A i \in 1 .. p : SubSeq(fed, 1, p)[i] = fed[i]
            <4>1. /\ Row(SubSeq(fed, 1, p), p + 1 - 1)
                  /\ \A i \in 1 .. p + 1 - 1 : SubSeq(fed, 1, p)[i] = fed[1 + i - 1]
                BY <1>3, <2>2, <3>1, CutRow
            <4>2. QED
                BY <3>1, <4>1
        <3>3. Row(SubSeq(All, 1, p), p) /\ \A i \in 1 .. p : SubSeq(All, 1, p)[i] = All[i]
            <4> DEFINE w == n + m
            <4>1. w \in Nat /\ Row(All, w) /\ p <= w
                BY <1>3, <1>7, <3>1
            <4> HIDE DEF w
            <4>2. /\ Row(SubSeq(All, 1, p), p + 1 - 1)
                  /\ \A i \in 1 .. p + 1 - 1 : SubSeq(All, 1, p)[i] = All[1 + i - 1]
                BY <2>2, <3>1, <4>1, CutRow
            <4>3. QED
                BY <3>1, <4>2
        <3>4. \A i \in 1 .. p : SubSeq(All, 1, p)[i] = SubSeq(fed, 1, p)[i]
            BY <1>3, <3>1, <3>2, <3>3
        <3>5. QED
            BY <2>2, <3>2, <3>3, <3>4, SameRow
    <2>5. p <= Len(fed')
        BY <1>1, <1>3, <2>2
    <2>6. QED
        BY <1>1, <2>2, <2>3, <2>4, <2>5 DEF Keeping, p
<1>12. QED
    BY <1>8, <1>9, <1>10, <1>11 DEF ModelInv

LEMMA RollbackModel ==
    ASSUME ModelInv, Rollback
    PROVE  ModelInv'
<1>1. /\ pc = "idle" /\ pc' = "idle" /\ snap # Null /\ snap' = Null
      /\ st' = Undone /\ fed' = SubSeq(fed, 1, snap.pos) /\ logits' = <<>>
      /\ UNCHANGED ids
    BY DEF Rollback, call
<1>2. /\ fed \in Seq(Tokens) /\ ids \in Seq(Tokens) /\ State(st) /\ State(snap)
      /\ snap.pos \in Nat /\ snap.pos <= Len(fed)
      /\ \A i \in Layers : Took(Restored(snap, st), i, SubSeq(fed, 1, snap.pos))
    BY <1>1 DEF ModelInv, Texts, Keeping
<1>3. st' = Restored(snap, st) /\ State(st') /\ st'.pos = snap.pos
    BY <1>1, <1>2, RestoredIs
<1>4. fed' \in Seq(Tokens) /\ Len(fed') = snap.pos
    BY <1>1, <1>2
<1>5. Texts'
    BY <1>1, <1>2, <1>3, <1>4 DEF Texts
<1>6. Resting'
    <2>1. Row(logits', 0) /\ Len(logits') = 0 /\ Len(logits') <= Len(fed')
        BY <1>1, <1>2, <1>4, Nothing
    <2>2. \A i \in Layers : Took(st', i, fed')
        BY <1>1, <1>2, <1>3
    <2>3. QED
        BY <1>3, <1>4, <2>1, <2>2 DEF Resting
<1>7. QED
    BY <1>1, <1>5, <1>6 DEF ModelInv, Taking, Streaming, Keeping

LEMMA ModelNext ==
    ASSUME Scores, PoolScores, ForwardInv, ModelInv, [Next]_vars
    PROVE  ModelInv'
<1>1. ASSUME NEW s \in 1 .. MaxBatch, NEW dec \in BOOLEAN,
             NEW toks \in [1 .. s -> Tokens], Begin(toks, dec)
      PROVE  ModelInv'
    BY <1>1, BeginModel
<1>2. CASE RouteChunk
    <2>1. /\ UNCHANGED <<st, snap, ids, l, t0, h, x, sub, logits, fed>>
          /\ pc = "mlp" /\ pc' = "resolve"
        BY <1>2 DEF RouteChunk, call, streams, history
    <2>2. QED
        BY <2>1, SameModel
<1>3. CASE Resolve
    <2>1. /\ UNCHANGED <<st, snap, ids, l, t0, h, x, sub, logits, fed>>
          /\ pc' = pc \/ pc' = "failed"
        BY <1>3 DEF Resolve, call, streams
    <2>2. QED
        BY <2>1, SameModel
<1>4. CASE UNCHANGED vars
    <2>1. /\ UNCHANGED <<st, snap, ids, l, t0, h, x, sub, logits, fed>>
          /\ pc' = pc
        BY <1>4 DEF vars, call, streams, history
    <2>2. QED
        BY <2>1, SameModel
<1>5. QED
    BY <1>1, <1>2, <1>3, <1>4, AttentionModel, ResidentModel, ChunkModel,
       FinishModel, RollbackModel, NextRequestModel DEF Next

\* What each layer of the state has taken and how far the streams are, in every
\* reachable state of every architecture (c/gmodel.h, apus_gm_run).
THEOREM ModelInvariant ==
    ASSUME Scores, PoolScores
    PROVE  Spec => []ModelInv
<1>1. Init => ModelInv
    BY InitModel
<1>2. ForwardInv /\ ModelInv /\ [Next]_vars => ModelInv'
    BY ModelNext
<1>3. Spec => []ForwardInv
    BY ForwardInvariant
<1>4. QED
    BY <1>1, <1>2, <1>3, PTL DEF Spec

\* The reference is what the last layer has of the text, unembedded.
LEMMA RefRowsAre ==
    ASSUME NEW n \in Nat, NEW toks, Row(toks, n)
    PROVE  RefRows(toks) = [t \in 1 .. n |-> Unembed(Hidden(toks, L)[t])]
<1>1. DOMAIN toks = 1 .. n
    BY RowIs
<1>2. FoldLeft(RefLayer, [t \in DOMAIN toks |-> Embed(toks[t])], [i \in 1 .. L |-> i]) = Hidden(toks, L)
    BY DEF LayerFold!Fold, NextLayer, FoldLeft, MapThenFoldSet, LayerFold!FoldLeft,
           LayerFold!MapThenFoldSet, Max, LayerFold!Max, Hidden, Embedded
<1>3. QED
    BY <1>1, <1>2 DEF RefRows

\* Between two calls the rows that the last one returned are the model's rows for
\* the text the state has taken: however it was cut into a prefill, decode steps and
\* batches and into chunks, and whatever was rolled back (c/gmodel.h, c/gmtp.h).
THEOREM RowsAreRight ==
    ASSUME Scores, PoolScores
    PROVE  Spec => []RowsAreTheModels
<1>1. ModelInv => RowsAreTheModels
    <2>1. SUFFICES ASSUME ModelInv, pc = "idle"
                   PROVE  RowsAreTheModels
        BY DEF RowsAreTheModels
    <2> DEFINE n == Len(fed)
               k == Len(logits)
               d == n - k
               f == RefRows(fed)
    <2>2. /\ st.pos = n /\ fed \in Seq(Tokens) /\ Row(logits, k) /\ k <= n
          /\ \A t \in 1 .. k : logits[t] = Unembed(Hidden(fed, L)[d + t])
        BY <2>1 DEF ModelInv, Texts, Resting
    <2>3. n \in Nat /\ Row(fed, n) /\ k \in Nat
        BY <2>2, RowOfSeq DEF Row
    <2> HIDE DEF n, k
    <2>4. /\ d \in Nat /\ d + k = n /\ d + 1 \in Nat
          /\ 1 <= d + 1 /\ d + 1 <= n + 1 /\ n + 1 - (d + 1) = k
        BY <2>2, <2>3
    <2>5. Row(f, n) /\ \A t \in 1 .. n : f[t] = Unembed(Hidden(fed, L)[t])
        BY <2>3, RefRowsAre DEF Row
    <2> HIDE DEF f
    <2>6. /\ Row(SubSeq(f, d + 1, n), k)
          /\ \A i \in 1 .. k : SubSeq(f, d + 1, n)[i] = f[(d + 1) + i - 1]
        <3> DEFINE a == d + 1
        <3>1. a \in Nat /\ 1 <= a /\ a <= n + 1 /\ n <= n /\ n + 1 - a = k
            BY <2>3, <2>4
        <3> HIDE DEF a
        <3>2. /\ Row(SubSeq(f, a, n), n + 1 - a)
              /\ \A i \in 1 .. n + 1 - a : SubSeq(f, a, n)[i] = f[a + i - 1]
            BY <2>3, <2>5, <3>1, CutRow
        <3>3. QED
            BY <3>1, <3>2 DEF a
    <2>7. ASSUME NEW i \in 1 .. k
          PROVE  SubSeq(f, d + 1, n)[i] = logits[i]
        <3>1. (d + 1) + i - 1 = d + i /\ d + i \in 1 .. n
            BY <2>2, <2>3
        <3>2. QED
            BY <2>2, <2>5, <2>6, <3>1
    <2>8. logits = SubSeq(f, d + 1, n)
        BY <2>2, <2>3, <2>6, <2>7, SameRow
    <2>9. QED
        BY <2>2, <2>8 DEF RowsAreTheModels, n, k, f
<1>2. Spec => []ModelInv
    BY ModelInvariant
<1>3. QED
    BY <1>1, <1>2, PTL
=============================================================================
