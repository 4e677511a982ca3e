------------------------------ MODULE FoldFacts ------------------------------
(***************************************************************************)
(* What FoldLeft computes, one element after the other, for any operator:  *)
(* the facts that proofs about the loops of a component rest on.  A module *)
(* takes them as an instance, with its own step in the place of Op.        *)
(***************************************************************************)
EXTENDS Integers, Sequences, SequencesExt, FiniteSetsExt, FiniteSetTheorems,
        WellFoundedInduction, TLAPS

CONSTANT
    Op(_, _, _)     \* in a context: what was made so far, and one element more

Fold(c, b, s) == FoldLeft(LAMBDA a, e : Op(c, a, e), b, s)

\* A set that has 0, and n + 1 with each n, has every natural number.
LEMMA NatSet ==
    ASSUME NEW T, 0 \in T, \A n \in Nat : n \in T => n + 1 \in T
    PROVE  Nat \subseteq T
<1>1. SUFFICES ASSUME Nat \ T # {}
               PROVE  FALSE
    OBVIOUS
<1>2. IsWellFoundedOn(OpToRel(<, Nat), Nat)
    BY NatLessThanWellFounded
<1>3. PICK m \in Nat \ T : \A y \in Nat \ T : ~(<<y, m>> \in OpToRel(<, Nat))
    BY <1>1, <1>2, WFMin
<1>4. \A y \in Nat \ T : ~(y < m)
    BY <1>3, Zenon DEF OpToRel
<1>5. m # 0
    OBVIOUS
<1>6. m - 1 \in Nat /\ m - 1 \notin Nat \ T
    BY <1>4, <1>5
<1>7. QED
    BY <1>6

\* A finite set of numbers has a greatest element.
LEMMA MaxIs ==
    ASSUME NEW T \in SUBSET Nat, IsFiniteSet(T), T # {}
    PROVE  Max(T) \in T /\ \A x \in T : x <= Max(T)
<1> DEFINE Bounded(n) == \A U \in SUBSET Nat :
               IsFiniteSet(U) /\ Cardinality(U) = n /\ U # {} => \E m \in U : \A x \in U : x <= m
           P == {n \in Nat : Bounded(n)}
<1>1. 0 \in P
    BY FS_EmptySet
<1>2. ASSUME NEW n \in Nat, n \in P
      PROVE  n + 1 \in P
    <2>1. SUFFICES ASSUME NEW U \in SUBSET Nat, IsFiniteSet(U), Cardinality(U) = n + 1, U # {}
                   PROVE  \E m \in U : \A x \in U : x <= m
        BY DEF P
    <2>2. PICK y \in U : TRUE
        BY <2>1
    <2>3. IsFiniteSet(U \ {y}) /\ Cardinality(U \ {y}) = n
        <3>1. Cardinality(U \ {y}) = Cardinality(U) - 1 /\ IsFiniteSet(U \ {y})
            BY <2>1, <2>2, FS_RemoveElement
        <3>2. QED
            BY <2>1, <3>1
    <2>4. CASE U \ {y} = {}
        BY <2>1, <2>2, <2>4
    <2>5. CASE U \ {y} # {}
        <3>1. PICK m \in U \ {y} : \A x \in U \ {y} : x <= m
            BY <1>2, <2>1, <2>3, <2>5
        <3>2. CASE y <= m
            BY <3>1, <3>2
        <3>3. CASE ~(y <= m)
            <4>1. \A x \in U : x <= y
                BY <2>1, <3>1, <3>3
            <4>2. QED
                BY <4>1
        <3>4. QED
            BY <3>2, <3>3
    <2>6. QED
        BY <2>4, <2>5
<1>3. Cardinality(T) \in Nat /\ Nat \subseteq P
    <2> HIDE DEF P
    <2>1. QED
        BY <1>1, <1>2, NatSet, FS_CardinalityType
<1>4. \E m \in T : \A x \in T : x <= m
    BY <1>3
<1>5. \E m \in T : \A x \in T : m >= x
    BY <1>4
<1>6. Max(T) \in T /\ \A x \in T : Max(T) >= x
    BY <1>5 DEF Max
<1>7. QED
    BY <1>6

\* The function that Fold(c, b, s) defines, over the sets of places
\* of s; it is defined on all those sets.
Folding(c, b, s, n, it) ==
    it = [d \in SUBSET (1 .. n) |->
             IF d = {} THEN b ELSE Op(c, it[d \ {Max(d)}], s[Max(d)])]

LEMMA FoldIs ==
    ASSUME NEW c, NEW b, NEW s, NEW n \in Nat, DOMAIN s = 1 .. n
    PROVE  Fold(c, b, s) = (CHOOSE it : Folding(c, b, s, n, it))[1 .. n]
BY DEF Fold, FoldLeft, MapThenFoldSet, Folding

\* The greatest place of a set of places.
LEMMA MaxPlace ==
    ASSUME NEW n \in Nat, NEW d \in SUBSET (1 .. n), d # {}
    PROVE  Max(d) \in d /\ \A x \in d : x <= Max(d)
<1>1. IsFiniteSet(1 .. n) /\ d \in SUBSET Nat
    BY FS_Interval
<1>2. QED
    BY <1>1, FS_Subset, MaxIs

LEMMA FoldingExists ==
    ASSUME NEW c, NEW b, NEW s, NEW n \in Nat
    PROVE  \E it : Folding(c, b, s, n, it)
<1> DEFINE P == {m \in Nat : \E it : Folding(c, b, s, m, it)}
<1>1. 0 \in P
    <2> DEFINE it == [d \in SUBSET (1 .. 0) |-> b]
    <2>1. \A d \in SUBSET (1 .. 0) : d = {}
        OBVIOUS
    <2>2. Folding(c, b, s, 0, it)
        BY <2>1 DEF Folding
    <2>3. QED
        BY <2>2
<1>2. ASSUME NEW m \in Nat, m \in P
      PROVE  m + 1 \in P
    <2>1. PICK f : Folding(c, b, s, m, f)
        BY <1>2
    <2> DEFINE Given(it, d) == IF d = {} THEN b ELSE Op(c, it[d \ {Max(d)}], s[Max(d)])
               it == [d \in SUBSET (1 .. m + 1) |-> Given(f, d)]
    <2>2. ASSUME NEW d \in SUBSET (1 .. m + 1), d # {}
          PROVE  d \ {Max(d)} \in SUBSET (1 .. m)
        <3>1. m + 1 \in Nat
            OBVIOUS
        <3>2. Max(d) \in d /\ \A x \in d : x <= Max(d)
            BY <2>2, <3>1, MaxPlace
        <3> HIDE DEF it
        <3>3. PICK k : k = Max(d)
            OBVIOUS
        <3>4. ASSUME NEW x \in d \ {k}
              PROVE  x \in 1 .. m
            <4>1. x \in 1 .. m + 1 /\ k \in 1 .. m + 1 /\ x <= k /\ x # k
                BY <3>2, <3>3, <3>4
            <4>2. QED
                BY <4>1
        <3>5. QED
            BY <3>3, <3>4
    <2>3. ASSUME NEW e \in SUBSET (1 .. m)
          PROVE  f[e] = Given(f, e) /\ e \in SUBSET (1 .. m + 1)
        <3> HIDE DEF it
        <3>1. f[e] = Given(f, e)
            BY <2>1 DEF Folding
        <3>2. 1 .. m \subseteq 1 .. m + 1
            OBVIOUS
        <3>3. QED
            BY <3>1, <3>2
    <2>4. \A d \in SUBSET (1 .. m + 1) : it[d] = Given(f, d)
        OBVIOUS
    <2>5. \A e \in SUBSET (1 .. m) : it[e] = f[e]
        BY <2>3, <2>4
    <2>6. it = [d \in SUBSET (1 .. m + 1) |-> it[d]]
        OBVIOUS
    <2> HIDE DEF it
    <2>7. \A d \in SUBSET (1 .. m + 1) : it[d] = Given(it, d)
        BY <2>2, <2>4, <2>5
    <2>8. it = [d \in SUBSET (1 .. m + 1) |-> Given(it, d)]
        BY <2>6, <2>7
    <2>9. Folding(c, b, s, m + 1, it)
        BY <2>8 DEF Folding
    <2>10. QED
        BY <2>9
<1>3. n \in P
    <2> HIDE DEF P
    <2>1. QED
        BY <1>1, <1>2, NatSet
<1>4. QED
    BY <1>3

\* At the first j places it only depends on the first j elements.
LEMMA FoldingAgrees ==
    ASSUME NEW c, NEW b, NEW r, NEW s, NEW m \in Nat, NEW n \in Nat, NEW f, NEW h,
           Folding(c, b, r, m, f), Folding(c, b, s, n, h), m <= n, \A i \in 1 .. m : r[i] = s[i]
    PROVE  f[1 .. m] = h[1 .. m]
<1> DEFINE P == {j \in Nat : j <= m => f[1 .. j] = h[1 .. j]}
<1>1. 0 \in P
    <2>1. 1 .. 0 = {}
        OBVIOUS
    <2>2. f[{}] = b /\ h[{}] = b
        BY DEF Folding
    <2>3. QED
        BY <2>1, <2>2
<1>2. ASSUME NEW j \in Nat, j \in P
      PROVE  j + 1 \in P
    <2>1. SUFFICES ASSUME j + 1 <= m
                   PROVE  f[1 .. j + 1] = h[1 .. j + 1]
        OBVIOUS
    <2> DEFINE d == 1 .. j + 1
    <2>2. d \in SUBSET (1 .. m) /\ d \in SUBSET (1 .. n) /\ d # {} /\ j + 1 \in d
        BY <2>1
    <2>3. Max(d) = j + 1
        <3>1. Max(d) \in d /\ \A x \in d : x <= Max(d)
            <4> HIDE DEF d
            <4>1. QED
                BY <2>2, MaxPlace
        <3>2. QED
            BY <2>2, <3>1
    <2>4. d \ {j + 1} = 1 .. j
        OBVIOUS
    <2>5. f[1 .. j] = h[1 .. j] /\ r[j + 1] = s[j + 1]
        BY <1>2, <2>1
    <2> HIDE DEF d
    <2>6. f[d] = Op(c, f[d \ {Max(d)}], r[Max(d)]) /\ h[d] = Op(c, h[d \ {Max(d)}], s[Max(d)])
        BY <2>2 DEF Folding
    <2>7. f[d] = h[d]
        BY <2>3, <2>4, <2>5, <2>6
    <2>8. QED
        BY <2>7 DEF d
<1>3. m \in P
    <2> HIDE DEF P
    <2>1. QED
        BY <1>1, <1>2, NatSet
<1>4. QED
    BY <1>3


LEMMA FoldEmpty == \A c, b : Fold(c, b, <<>>) = b
<1>1. ASSUME NEW c, NEW b
      PROVE  Fold(c, b, <<>>) = b
    <2>1. DOMAIN <<>> = 1 .. 0 /\ 1 .. 0 = {}
        OBVIOUS
    <2>2. PICK f : Folding(c, b, <<>>, 0, f) /\ Fold(c, b, <<>>) = f[1 .. 0]
        <3>1. \E f : Folding(c, b, <<>>, 0, f)
            BY FoldingExists
        <3>2. Fold(c, b, <<>>) = (CHOOSE f : Folding(c, b, <<>>, 0, f))[1 .. 0]
            BY <2>1, FoldIs
        <3>3. QED
            BY <3>1, <3>2
    <2>3. f[{}] = b
        BY <2>2 DEF Folding
    <2>4. QED
        BY <2>1, <2>2, <2>3
<1>2. QED
    BY <1>1

\* The fold of the first n + 1 elements is that of the first n, and a step.
LEMMA FoldStep ==
    ASSUME NEW c, NEW b, NEW s, NEW r, NEW n \in Nat,
           DOMAIN s = 1 .. n, DOMAIN r = 1 .. n + 1, \A i \in 1 .. n : s[i] = r[i]
    PROVE  Fold(c, b, r) = Op(c, Fold(c, b, s), r[n + 1])
<1>0. n + 1 \in Nat /\ n <= n + 1
    OBVIOUS
<1>2. PICK f : Folding(c, b, s, n, f) /\ Fold(c, b, s) = f[1 .. n]
    <2>1. \E f : Folding(c, b, s, n, f)
        BY FoldingExists
    <2>2. Fold(c, b, s) = (CHOOSE f : Folding(c, b, s, n, f))[1 .. n]
        BY FoldIs
    <2>3. QED
        BY <2>1, <2>2
<1>3. PICK h : Folding(c, b, r, n + 1, h) /\ Fold(c, b, r) = h[1 .. n + 1]
    <2>2. \E h : Folding(c, b, r, n + 1, h)
        BY <1>0, FoldingExists
    <2>3. Fold(c, b, r) = (CHOOSE h : Folding(c, b, r, n + 1, h))[1 .. n + 1]
        BY <1>0, FoldIs
    <2>4. QED
        BY <2>2, <2>3
<1>4. f[1 .. n] = h[1 .. n]
    BY <1>0, <1>2, <1>3, FoldingAgrees
<1>5. h[1 .. n + 1] = Op(c, h[1 .. n], r[n + 1])
    <2> DEFINE d == 1 .. n + 1
    <2>1. /\ d \in SUBSET (1 .. n + 1) /\ d # {}
          /\ n + 1 \in d /\ d \ {n + 1} = 1 .. n
        OBVIOUS
    <2>2. Max(d) = n + 1
        <3>1. Max(d) \in d /\ \A x \in d : x <= Max(d)
            <4> HIDE DEF d
            <4>1. QED
                BY <1>0, <2>1, MaxPlace
        <3>2. QED
            BY <2>1, <3>1
    <2> HIDE DEF d
    <2>3. h[d] = Op(c, h[d \ {Max(d)}], r[Max(d)])
        BY <1>3, <2>1 DEF Folding
    <2>4. QED
        BY <2>1, <2>2, <2>3 DEF d
<1>6. QED
    BY <1>2, <1>3, <1>4, <1>5

----------------------------------------------------------------------------
\* The same for a function that is defined from each place to the next.
Looping(c, b, n, f) == f = [i \in 0 .. n |-> IF i = 0 THEN b ELSE Op(c, f[i - 1], i)]
Loop(c, b, n) == (CHOOSE f : Looping(c, b, n, f))[n]

LEMMA LoopingExists ==
    ASSUME NEW c, NEW b, NEW n \in Nat
    PROVE  \E f : Looping(c, b, n, f)
<1> DEFINE P == {m \in Nat : \E f : Looping(c, b, m, f)}
<1>1. 0 \in P
    <2>1. Looping(c, b, 0, [i \in 0 .. 0 |-> b])
        BY DEF Looping
    <2>2. QED
        BY <2>1
<1>2. ASSUME NEW m \in Nat, m \in P
      PROVE  m + 1 \in P
    <2>1. PICK g : Looping(c, b, m, g)
        BY <1>2
    <2> DEFINE f == [i \in 0 .. m + 1 |-> IF i = m + 1 THEN Op(c, g[m], m + 1) ELSE g[i]]
    <2>2. ASSUME NEW i \in 0 .. m + 1
          PROVE  f[i] = IF i = 0 THEN b ELSE Op(c, f[i - 1], i)
        <3>1. CASE i = m + 1
            BY <3>1
        <3>2. CASE i = 0
            BY <2>1, <3>2 DEF Looping
        <3>3. CASE i # m + 1 /\ i # 0
            <4>1. i \in 0 .. m /\ i - 1 \in 0 .. m
                BY <3>3
            <4>2. g[i] = Op(c, g[i - 1], i)
                BY <2>1, <3>3, <4>1 DEF Looping
            <4>3. f[i] = g[i] /\ f[i - 1] = g[i - 1]
                BY <4>1
            <4>4. QED
                BY <3>3, <4>2, <4>3
        <3>4. QED
            BY <3>1, <3>2, <3>3
    <2>3. f = [i \in 0 .. m + 1 |-> f[i]]
        OBVIOUS
    <2> HIDE DEF f
    <2>4. Looping(c, b, m + 1, f)
        BY <2>2, <2>3 DEF Looping
    <2>5. QED
        BY <2>4
<1>3. n \in P
    <2> HIDE DEF P
    <2>1. QED
        BY <1>1, <1>2, NatSet
<1>4. QED
    BY <1>3

LEMMA LoopEmpty == \A c, b : Loop(c, b, 0) = b
<1>1. ASSUME NEW c, NEW b
      PROVE  Loop(c, b, 0) = b
    <2>1. \E f : Looping(c, b, 0, f)
        BY LoopingExists
    <2>2. Looping(c, b, 0, CHOOSE f : Looping(c, b, 0, f))
        BY <2>1
    <2>3. QED
        BY <2>2 DEF Loop, Looping
<1>2. QED
    BY <1>1

LEMMA LoopStep ==
    ASSUME NEW c, NEW b, NEW n \in Nat
    PROVE  Loop(c, b, n + 1) = Op(c, Loop(c, b, n), n + 1)
<1>0. n + 1 \in Nat
    OBVIOUS
<1>1. PICK f : Looping(c, b, n, f) /\ Loop(c, b, n) = f[n]
    <2>1. \E f : Looping(c, b, n, f)
        BY LoopingExists
    <2>2. QED
        BY <2>1 DEF Loop
<1>2. PICK g : Looping(c, b, n + 1, g) /\ Loop(c, b, n + 1) = g[n + 1]
    <2>1. \E g : Looping(c, b, n + 1, g)
        BY <1>0, LoopingExists
    <2>2. QED
        BY <2>1 DEF Loop
<1>3. /\ \A i \in 0 .. n : f[i] = IF i = 0 THEN b ELSE Op(c, f[i - 1], i)
      /\ \A i \in 0 .. n + 1 : g[i] = IF i = 0 THEN b ELSE Op(c, g[i - 1], i)
    BY <1>1, <1>2 DEF Looping
<1> DEFINE P == {m \in Nat : m <= n => f[m] = g[m]}
<1>4. 0 \in P
    BY <1>3
<1>5. ASSUME NEW m \in Nat, m \in P
      PROVE  m + 1 \in P
    <2>1. SUFFICES ASSUME m + 1 <= n
                   PROVE  f[m + 1] = g[m + 1]
        OBVIOUS
    <2>2. /\ m + 1 \in 0 .. n /\ m + 1 \in 0 .. n + 1 /\ m + 1 # 0
          /\ (m + 1) - 1 = m /\ f[m] = g[m]
        BY <1>5, <2>1
    <2>3. f[m + 1] = Op(c, f[(m + 1) - 1], m + 1) /\ g[m + 1] = Op(c, g[(m + 1) - 1], m + 1)
        BY <1>3, <2>2
    <2>4. QED
        BY <2>2, <2>3
<1>6. n \in P
    <2> HIDE DEF P
    <2>1. QED
        BY <1>4, <1>5, NatSet
<1>7. f[n] = g[n]
    BY <1>6
<1>8. g[n + 1] = Op(c, g[n], n + 1)
    <2>1. n + 1 \in 0 .. n + 1 /\ n + 1 # 0 /\ (n + 1) - 1 = n
        OBVIOUS
    <2>2. g[n + 1] = Op(c, g[(n + 1) - 1], n + 1)
        BY <1>3, <2>1
    <2>3. QED
        BY <2>1, <2>2
<1>9. QED
    BY <1>1, <1>2, <1>7, <1>8
=============================================================================
