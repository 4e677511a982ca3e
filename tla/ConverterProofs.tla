---------------------------- MODULE ConverterProofs ----------------------------
(***************************************************************************)
(* Proofs about the converter on its own, for every checkpoint, in every   *)
(* layout over any number of shards, for every size of output file, with   *)
(* any number of kills, at any step and in every window: the state file    *)
(* and the output files agree, a tensor is written once, a slab is in one  *)
(* file and in one piece, a restart is never refused (DiskIsSound), and a  *)
(* run that converts every shard leaves the files of a run without a kill  *)
(* (SameAsUninterrupted).                                                  *)
(***************************************************************************)
EXTENDS Converter, SequenceTheorems, FiniteSetTheorems, WellFoundedInduction, TLAPS

Names == Seq(Tensors)

\* The output files as the converter's state records them.
Filed ==
    /\ open \in [Groups -> [is : BOOLEAN, names : Names]]
    /\ \A g \in Groups : ~open[g].is => open[g].names = <<>>
    /\ sealed \in [Groups -> Seq(Names)]

\* A set of natural numbers has a least element.
LEMMA Least ==
    ASSUME NEW T \in SUBSET Nat, T # {}
    PROVE  \E x \in T : \A y \in T : x <= y
<1>1. IsWellFoundedOn(OpToRel(<, Nat), Nat)
    BY NatLessThanWellFounded
<1>2. PICK x \in T : \A y \in T : ~(<<y, x>> \in OpToRel(<, Nat))
    BY <1>1, WFMin
<1>3. \A y \in T : ~(y < x)
    BY <1>2, Zenon DEF OpToRel
<1>4. QED
    BY <1>3

\* Min of FiniteSetsExt is that element.
LEMMA MinIs ==
    ASSUME NEW T \in SUBSET Nat, T # {}
    PROVE  Min(T) \in T /\ \A y \in T : Min(T) <= y
BY Least DEF Min

\* A tensor has a place in the write order.
LEMMA Places ==
    ASSUME NEW t \in Tensors
    PROVE  \E i \in DOMAIN Order : Order[i] = t
BY DEF Tensors, ToSet

\* What is to be appended next is a tensor that is missing.
LEMMA NextMissing ==
    ASSUME Todo # {}
    PROVE  Upcoming \in Tensors /\ Missing(Upcoming)
<1>1. Todo \in SUBSET Nat
    BY ConverterAssumption DEF ConverterAssumption, Todo
<1>2. Min(Todo) \in Todo
    BY <1>1, MinIs
<1>3. QED
    BY <1>2, ConverterAssumption DEF ConverterAssumption, Todo, Upcoming

\* Its stream is one of the two.
LEMMA StreamIsOne ==
    ASSUME cpc = "seal" \/ Todo # {}
    PROVE  Stream \in Groups
<1>1. CASE cpc = "seal"
    BY <1>1 DEF Stream, Groups
<1>2. CASE cpc # "seal"
    <2>1. Upcoming \in Tensors
        BY <1>2, NextMissing
    <2> QED
        BY <1>2, <2>1, ConverterAssumption DEF ConverterAssumption, Stream
<1>3. QED
    BY <1>1, <1>2

\* The shards of a slab, and what shard s has a part of, only depend on the
\* checkpoint.
LEMMA LayoutFixed ==
    ASSUME UNCHANGED home
    PROVE  /\ \A k : ShardsOf(k)' = ShardsOf(k)
           /\ \A s : Split(s)' = Split(s)
BY DEF ShardsOf, Split

\* What is left to append only depends on the state and on where the
\* converter is.
LEMMA TodoFixed ==
    ASSUME UNCHANGED <<home, src, open, sealed, pending, done, cur, cpc, phase>>
    PROVE  Todo' = Todo /\ Upcoming' = Upcoming /\ Readable' = Readable
<1>1. Ready' = Ready
    BY LayoutFixed DEF Ready
<1>2. First' = First
    BY <1>1 DEF First
<1>3. Written' = Written
    BY DEF Written, Committed
<1>4. \A t : Missing(t)' = Missing(t)
    BY <1>2, <1>3, LayoutFixed DEF Missing, Planned
<1>5. Todo' = Todo
    BY <1>4 DEF Todo
<1>6. QED
    BY <1>1, <1>2, <1>5, LayoutFixed DEF Upcoming, Readable

\* The state files keep their shape.  An open file is recorded with the names
\* that were appended to it, and is sealed with them.
LEMMA SealKeepsShape ==
    ASSUME Filed, NEW g \in Groups, Seal(g)
    PROVE  /\ open' \in [Groups -> [is : BOOLEAN, names : Names]]
           /\ \A h \in Groups : ~open'[h].is => open'[h].names = <<>>
           /\ sealed' \in [Groups -> Seq(Names)]
<1>1. open[g].names \in Names
    BY DEF Filed
<1>2. sealed[g] \in Seq(Names)
    BY DEF Filed
<1>3. Append(sealed[g], open[g].names) \in Seq(Names)
    BY <1>1, <1>2
<1>4. NoFile \in [is : BOOLEAN, names : Names] /\ NoFile.names = <<>>
    BY DEF NoFile, Names
<1>5. QED
    BY <1>3, <1>4 DEF Filed, Seal

\* Written, name by name.
Recorded(t) ==
    \E g \in Groups :
        \/ t \in ToSet(open[g].names)
        \/ \E i \in DOMAIN sealed[g] : t \in ToSet(sealed[g][i])

LEMMA WrittenIs == \A name : name \in Written <=> Recorded(name)
<1> TAKE t
<1>1. ASSUME NEW g
      PROVE  t \in Committed(g) <=>
                 (\/ t \in ToSet(open[g].names)
                  \/ \E i \in DOMAIN sealed[g] : t \in ToSet(sealed[g][i]))
    BY DEF Committed
<1>2. t \in Written <=> \E g \in Groups : t \in Committed(g)
    BY DEF Written
<1>3. QED
    BY <1>1, <1>2 DEF Recorded

LEMMA WrittenNext == (\A name : name \in Written <=> Recorded(name))'
BY WrittenIs, PTL

LEMMA SealCommitsNothing ==
    ASSUME Filed, NEW g \in Groups, Seal(g)
    PROVE  Written' = Written
<1> DEFINE S == sealed[g]
           N == open[g].names
<1>1. S \in Seq(Names) /\ N \in Names
    BY DEF Filed
<1>2. /\ sealed' = [sealed EXCEPT ![g] = Append(S, N)]
      /\ open' = [open EXCEPT ![g] = NoFile]
    BY DEF Seal
<1>3. /\ DOMAIN Append(S, N) = DOMAIN S \cup {Len(S) + 1}
      /\ \A i \in DOMAIN S : Append(S, N)[i] = S[i]
      /\ Append(S, N)[Len(S) + 1] = N
    <2> HIDE DEF S, N
    <2>1. QED
        BY <1>1
<1>4. /\ sealed'[g] = Append(S, N) /\ open'[g].names = <<>>
      /\ \A h \in Groups \ {g} : sealed'[h] = sealed[h] /\ open'[h] = open[h]
    BY <1>2 DEF Filed, NoFile
<1>5. \A t : t \notin ToSet(<<>>)
    BY DEF ToSet
<1>6. ASSUME NEW t
      PROVE  t \in Written' <=> t \in Written
    <2>1. t \in Written' <=>
             \E h \in Groups :
                 \/ t \in ToSet(open'[h].names)
                 \/ \E i \in DOMAIN sealed'[h] : t \in ToSet(sealed'[h][i])
        BY WrittenNext DEF Recorded
    <2>2. \/ t \in ToSet(open'[g].names)
          \/ \E i \in DOMAIN sealed'[g] : t \in ToSet(sealed'[g][i])
          <=> \/ t \in ToSet(N)
              \/ \E i \in DOMAIN S : t \in ToSet(S[i])
        <3> HIDE DEF S, N
        <3>1. QED
            BY <1>3, <1>4, <1>5
    <2>3. QED
        BY <1>4, <2>1, <2>2, WrittenIs DEF Recorded
<1>7. QED
    BY <1>6

LEMMA AppendCommitsOne ==
    ASSUME Filed, NEW g \in Groups, NEW t \in Tensors,
           open' = [open EXCEPT ![g].names = Append(@, t)],
           UNCHANGED sealed
    PROVE  Written' = Written \cup {t}
<1> DEFINE N == open[g].names
<1>1. N \in Seq(Tensors)
    BY DEF Filed, Names
<1>2. ToSet(Append(N, t)) = ToSet(N) \cup {t}
    <2> HIDE DEF N
    <2>1. /\ DOMAIN Append(N, t) = DOMAIN N \cup {Len(N) + 1}
          /\ \A i \in DOMAIN N : Append(N, t)[i] = N[i]
          /\ Append(N, t)[Len(N) + 1] = t
        BY <1>1
    <2>2. QED
        BY <2>1 DEF ToSet
<1>3. /\ open'[g].names = Append(N, t)
      /\ \A h \in Groups \ {g} : open'[h] = open[h]
    BY DEF Filed
<1>4. ASSUME NEW u
      PROVE  u \in Written' <=> u \in Written \cup {t}
    <2>1. u \in Written' <=>
             \E h \in Groups :
                 \/ u \in ToSet(open'[h].names)
                 \/ \E i \in DOMAIN sealed'[h] : u \in ToSet(sealed'[h][i])
        BY WrittenNext DEF Recorded
    <2>2. u \in ToSet(open'[g].names) <=> u \in ToSet(N) \/ u = t
        BY <1>2, <1>3
    <2>3. QED
        BY <1>3, <2>1, <2>2, WrittenIs DEF Recorded
<1>5. QED
    BY <1>4

----------------------------------------------------------------------------
\* What FlattenSeq is, by induction over the length: the names of a stream are
\* those of its files, one file after the other.

\* A set that has 0, and n + 1 with each n, has every natural number.
LEMMA NatSet ==
    ASSUME NEW T, 0 \in T, \A n \in Nat : n \in T => n + 1 \in T
    PROVE  Nat \subseteq T
<1>1. SUFFICES ASSUME Nat \ T # {}
               PROVE  FALSE
    OBVIOUS
<1>2. PICK x \in Nat \ T : \A y \in Nat \ T : x <= y
    BY <1>1, Least
<1>3. x # 0
    OBVIOUS
<1>4. x - 1 \in Nat /\ x - 1 \notin Nat \ T
    BY <1>2, <1>3
<1>5. QED
    BY <1>4

\* The function that FlattenSeq defines.
Flat(ss, g, n) ==
    g = [i \in 1 .. n |-> IF i = 1 THEN ss[i] ELSE g[i - 1] \o ss[i]]

LEMMA FlatExists ==
    ASSUME NEW ss, NEW n \in Nat
    PROVE  \E g : Flat(ss, g, n)
<1> DEFINE P == {m \in Nat : \E g : Flat(ss, g, m)}
<1>1. 0 \in P
    <2>1. Flat(ss, [i \in 1 .. 0 |-> <<>>], 0)
        BY DEF Flat
    <2>2. QED
        BY <2>1
<1>2. ASSUME NEW m \in Nat, m \in P
      PROVE  m + 1 \in P
    <2>1. PICK g : Flat(ss, g, m)
        BY <1>2
    <2> DEFINE f == [i \in 1 .. m + 1 |-> IF i = m + 1
                        THEN IF i = 1 THEN ss[i] ELSE g[m] \o ss[i]
                        ELSE g[i]]
    <2>2. ASSUME NEW i \in 1 .. m + 1
          PROVE  f[i] = IF i = 1 THEN ss[i] ELSE f[i - 1] \o ss[i]
        <3>1. CASE i = m + 1
            BY <3>1
        <3>2. CASE i # m + 1
            <4>1. i \in 1 .. m /\ (i # 1 => i - 1 \in 1 .. m)
                BY <3>2
            <4>2. g[i] = IF i = 1 THEN ss[i] ELSE g[i - 1] \o ss[i]
                BY <2>1, <4>1 DEF Flat
            <4>3. f[i] = g[i] /\ (i # 1 => f[i - 1] = g[i - 1])
                BY <4>1
            <4>4. QED
                BY <4>2, <4>3
        <3>3. QED
            BY <3>1, <3>2
    <2>3. f = [i \in 1 .. m + 1 |-> f[i]]
        OBVIOUS
    <2> HIDE DEF f
    <2>4. Flat(ss, f, m + 1)
        BY <2>2, <2>3 DEF Flat
    <2>5. QED
        BY <2>4
<1>3. n \in P
    <2> HIDE DEF P
    <2>1. QED
        BY <1>1, <1>2, NatSet
<1>4. QED
    BY <1>3

\* One more sequence adds its elements at the end, and the result has the
\* elements of all of them.
LEMMA Flattening ==
    ASSUME NEW S, NEW ss \in Seq(Seq(S)), NEW s \in Seq(S)
    PROVE  /\ FlattenSeq(ss) \in Seq(S)
           /\ Range(FlattenSeq(ss)) = UNION {Range(ss[i]) : i \in DOMAIN ss}
           /\ FlattenSeq(Append(ss, s)) = FlattenSeq(ss) \o s
<1> DEFINE n  == Len(ss)
           tt == Append(ss, s)
<1>1. n \in Nat /\ tt \in Seq(Seq(S)) /\ Len(tt) = n + 1 /\ tt[n + 1] = s
      /\ DOMAIN ss = 1 .. n /\ \A i \in 1 .. n : tt[i] = ss[i] /\ ss[i] \in Seq(S)
    OBVIOUS
<1>2. PICK f : Flat(tt, f, n + 1) /\ FlattenSeq(tt) = f[n + 1]
    <2> HIDE DEF tt, n
    <2>1. Len(tt) \in Nat /\ Len(tt) # 0
        BY <1>1
    <2>2. \E f : Flat(tt, f, Len(tt))
        BY <2>1, FlatExists
    <2>3. \E f : Flat(tt, f, Len(tt)) /\ FlattenSeq(tt) = f[Len(tt)]
        BY <2>1, <2>2 DEF FlattenSeq, Flat
    <2>4. QED
        BY <1>1, <2>3
<1>3. CASE n = 0
    <2>1. FlattenSeq(ss) = <<>> /\ ss = <<>>
        BY <1>3 DEF FlattenSeq
    <2>2. f[1] = s
        BY <1>1, <1>2, <1>3 DEF Flat
    <2>3. Range(<<>>) = {}
        BY DEF Range
    <2>4. QED
        BY <1>2, <1>3, <2>1, <2>2, <2>3
<1>4. CASE n # 0
    <2>1. PICK g : Flat(ss, g, n) /\ FlattenSeq(ss) = g[n]
        <3>1. \E g : Flat(ss, g, n)
            BY <1>1, FlatExists
        <3>2. QED
            BY <1>4, <3>1 DEF FlattenSeq, Flat
    <2> DEFINE Same(j) == /\ f[j] = g[j] /\ g[j] \in Seq(S)
                          /\ Range(g[j]) = UNION {Range(ss[i]) : i \in 1 .. j}
               G == {j \in Nat : j + 1 <= n => Same(j + 1)}
    <2> HIDE DEF n, tt
    <2>2. 0 \in G
        <3>1. f[1] = tt[1] /\ g[1] = ss[1]
            BY <1>1, <1>2, <1>4, <2>1 DEF Flat
        <3>2. {Range(ss[i]) : i \in 1 .. 1} = {Range(ss[1])}
            OBVIOUS
        <3>3. QED
            BY <1>1, <1>4, <3>1, <3>2
    <2>3. ASSUME NEW j \in Nat, j \in G
          PROVE  j + 1 \in G
        <3>1. SUFFICES ASSUME (j + 1) + 1 <= n
                       PROVE  Same((j + 1) + 1)
            OBVIOUS
        <3> DEFINE m == j + 1
        <3>2. m \in 1 .. n /\ m + 1 \in 1 .. n /\ m + 1 # 1 /\ (m + 1) - 1 = m
              /\ m + 1 \in 1 .. n + 1
            BY <1>1, <3>1
        <3>3. Same(m)
            BY <2>3, <3>1, <1>1
        <3> HIDE DEF m
        <3>4. f[m + 1] = f[m] \o tt[m + 1] /\ g[m + 1] = g[m] \o ss[m + 1]
            BY <1>2, <2>1, <3>2 DEF Flat
        <3>5. g[m + 1] \in Seq(S) /\ Range(g[m + 1]) = Range(g[m]) \cup Range(ss[m + 1])
            <4>1. g[m] \in Seq(S) /\ ss[m + 1] \in Seq(S) /\ f[m] = g[m]
                BY <1>1, <3>2, <3>3
            <4>2. Range(g[m] \o ss[m + 1]) = Range(g[m]) \cup Range(ss[m + 1])
                BY <4>1, RangeConcatenation
            <4>3. QED
                BY <3>4, <4>1, <4>2
        <3>6. UNION {Range(ss[i]) : i \in 1 .. m + 1}
                = (UNION {Range(ss[i]) : i \in 1 .. m}) \cup Range(ss[m + 1])
            <4>1. m \in Nat /\ 1 .. m + 1 = (1 .. m) \cup {m + 1}
                BY <3>2, <1>1
            <4>2. QED
                BY <4>1
        <3>7. Same(m + 1)
            BY <1>1, <3>2, <3>3, <3>4, <3>5, <3>6
        <3>8. QED
            BY <3>7 DEF m
    <2>4. Same(n)
        <3>1. n - 1 \in Nat /\ (n - 1) + 1 = n
            BY <1>1, <1>4
        <3>2. n - 1 \in G
            <4> HIDE DEF G
            <4>1. QED
                BY <2>2, <2>3, <3>1, NatSet
        <3>3. QED
            BY <3>1, <3>2
    <2>5. f[n + 1] = f[n] \o s
        <3>1. n + 1 \in 1 .. n + 1 /\ n + 1 # 1 /\ (n + 1) - 1 = n
            BY <1>1, <1>4
        <3>2. f[n + 1] = f[n] \o tt[n + 1]
            BY <1>2, <3>1 DEF Flat
        <3>3. QED
            BY <1>1, <3>2
    <2>6. QED
        BY <1>1, <1>2, <2>1, <2>4, <2>5 DEF n, tt
<1>5. QED
    BY <1>3, <1>4

----------------------------------------------------------------------------
\* What the state file and the output files look like, and that they agree
\* (RecordedIsOnDisk): every step that writes one of them keeps OnDisk.

Stored ==
    /\ home \in [Tensors -> Shards] /\ src = Shards /\ done \subseteq Shards
    /\ pending \subseteq Slabs
    /\ \A k \in pending : Members(k) # {} /\ \A s : ShardsOf(k) # {s}
    /\ saved \in BOOLEAN /\ Filed
    /\ out \in [Groups -> Seq(Files)]
    /\ phase \in Groups /\ io \in {"none", "seal", "create"}
    /\ job.shards \subseteq Shards

\* Where the process may be.  Between the two halves of a seal or of a new
\* file, the stream that it is for is still the one that comes next.
Placed ==
    /\ cpc \in {"defer", "write", "resolve", "record"} => cur \in job.shards \ done
    /\ io # "none" => cpc \in {"write", "resolve", "seal"}
    /\ io = "seal" => (cpc = "seal" \/ Todo # {}) /\ open[Stream].is
    /\ io = "create" => cpc # "seal" /\ Todo # {} /\ ~open[Stream].is

\* Awaits the ready slabs, the one whose place comes first.
LEMMA FirstIs ==
    ASSUME Stored, Ready # {}
    PROVE  First \in Ready /\ \A j \in Ready : Place(First) <= Place(j)
<1>1. ASSUME NEW k \in Ready
      PROVE  Place(k) \in Nat
    <2> DEFINE P == {i \in DOMAIN Order : SlabOf[Order[i]] = k}
    <2>1. PICK t \in Tensors : SlabOf[t] = k
        BY DEF Stored, Ready, Members
    <2>2. P # {}
        BY <2>1, Places
    <2>3. P \in SUBSET Nat
        BY ConverterAssumption DEF ConverterAssumption
    <2> HIDE DEF P
    <2>4. Min(P) \in Nat
        BY <2>2, <2>3, MinIs
    <2>5. QED
        BY <2>4 DEF P, Place
<1> DEFINE Ps == {Place(k) : k \in Ready}
<1>2. Ps \in SUBSET Nat /\ Ps # {}
    BY <1>1
<1>3. PICK p \in Ps : \A q \in Ps : p <= q
    <2> HIDE DEF Ps
    <2>1. QED
        BY <1>2, Least
<1>4. \E k \in Ready : \A j \in Ready : Place(k) <= Place(j)
    BY <1>3
<1>5. QED
    BY <1>4 DEF First

LEMMA StreamFixed ==
    ASSUME UNCHANGED <<home, src, open, sealed, pending, done, cur, cpc, phase>>
    PROVE  Todo' = Todo /\ Upcoming' = Upcoming /\ Readable' = Readable /\ Stream' = Stream
BY TodoFixed DEF Stream

WithHeader(g, n, hd) == [out EXCEPT ![g][n].header = hd]
WithData(g, n, d)    == [out EXCEPT ![g][n].data = d]

\* One file is changed, the others stay.
LEMMA HeaderEdited ==
    ASSUME out \in [Groups -> Seq(Files)], NEW g \in Groups, NEW n \in DOMAIN out[g],
           NEW hd \in Headers, out' = WithHeader(g, n, hd)
    PROVE  /\ out' \in [Groups -> Seq(Files)]
           /\ \A i \in Groups : DOMAIN out'[i] = DOMAIN out[i]
           /\ \A i \in Groups \ {g} : out'[i] = out[i]
           /\ \A i \in DOMAIN out[g] \ {n} : out'[g][i] = out[g][i]
           /\ out'[g][n] = [header |-> hd, data |-> out[g][n].data]
<1>1. out[g] \in Seq(Files) /\ out[g][n] \in Files
    OBVIOUS
<1> DEFINE f == [out[g][n] EXCEPT !.header = hd]
<1>2. f = [header |-> hd, data |-> out[g][n].data] /\ f \in Files
    BY <1>1 DEF Files
<1>3. out' = [out EXCEPT ![g] = [out[g] EXCEPT ![n] = f]]
    BY DEF WithHeader, WithData
<1> HIDE DEF f
<1>4. [out[g] EXCEPT ![n] = f] \in Seq(Files)
    BY <1>1, <1>2, ExceptSeq
<1>5. QED
    BY <1>1, <1>2, <1>3, <1>4

LEMMA DataEdited ==
    ASSUME out \in [Groups -> Seq(Files)], NEW g \in Groups, NEW n \in DOMAIN out[g],
           NEW d \in Seq(Tensors \cup {Torn}), out' = WithData(g, n, d)
    PROVE  /\ out' \in [Groups -> Seq(Files)]
           /\ \A i \in Groups : DOMAIN out'[i] = DOMAIN out[i]
           /\ \A i \in Groups \ {g} : out'[i] = out[i]
           /\ \A i \in DOMAIN out[g] \ {n} : out'[g][i] = out[g][i]
           /\ out'[g][n] = [header |-> out[g][n].header, data |-> d]
<1>1. out[g] \in Seq(Files) /\ out[g][n] \in Files
    OBVIOUS
<1> DEFINE f == [out[g][n] EXCEPT !.data = d]
<1>2. f = [header |-> out[g][n].header, data |-> d] /\ f \in Files
    <2>1. PICK hd \in Headers, c \in Seq(Tensors \cup {Torn}) :
              out[g][n] = [header |-> hd, data |-> c]
        BY <1>1 DEF Files
    <2>2. f = [header |-> hd, data |-> d] /\ out[g][n].header = hd
        BY <2>1
    <2>3. QED
        BY <2>2 DEF Files
<1>3. out' = [out EXCEPT ![g] = [out[g] EXCEPT ![n] = f]]
    BY DEF WithHeader, WithData
<1> HIDE DEF f
<1>4. [out[g] EXCEPT ![n] = f] \in Seq(Files)
    BY <1>1, <1>2, ExceptSeq
<1>5. QED
    BY <1>1, <1>2, <1>3, <1>4

\* What a write at offset n leaves: the first n units, the new one, and the
\* tail that was there.
LEMMA WriteIs ==
    ASSUME NEW S, NEW data \in Seq(S), NEW n \in 0 .. Len(data), NEW e \in S
    PROVE  /\ WriteAt(data, n, e) \in Seq(S)
           /\ Len(WriteAt(data, n, e)) >= n + 1
           /\ \A i \in 1 .. n : WriteAt(data, n, e)[i] = data[i]
           /\ WriteAt(data, n, e)[n + 1] = e
           /\ n = Len(data) => WriteAt(data, n, e) = Append(data, e)
<1> DEFINE a == SubSeq(data, 1, n)
           b == SubSeq(data, n + 2, Len(data))
<1>1. a \in Seq(S) /\ Len(a) = n /\ \A i \in 1 .. n : a[i] = data[i]
    OBVIOUS
<1>2. b \in Seq(S) /\ Len(b) \in Nat /\ (n = Len(data) => b = <<>>)
    OBVIOUS
<1>3. n = Len(data) => a = data
    BY SubSeqFull
<1>4. WriteAt(data, n, e) = a \o <<e>> \o b
    BY DEF WriteAt
<1> HIDE DEF a, b
<1>5. a \o <<e>> \in Seq(S) /\ Len(a \o <<e>>) = n + 1 /\ a \o <<e>> = Append(a, e)
    BY <1>1
<1> DEFINE c == a \o <<e>>
<1>6. (\A i \in 1 .. n : c[i] = data[i]) /\ c[n + 1] = e
    BY <1>1
<1>7. c \in Seq(S) /\ Len(c) = n + 1
    BY <1>5
<1> HIDE DEF c
<1>8. c \o b \in Seq(S) /\ Len(c \o b) = n + 1 + Len(b)
      /\ \A i \in 1 .. n + 1 : (c \o b)[i] = c[i]
    BY <1>2, <1>7
<1>9. b = <<>> => c \o b = c
    BY <1>7
<1>10. QED
    BY <1>1, <1>2, <1>3, <1>4, <1>5, <1>6, <1>8, <1>9 DEF c

\* Stream g was validated in this run.
Past(g) ==
    \/ cpc = "validate" /\ phase = "mtp" /\ g = "main"
    \/ cpc \in {"next", "defer", "write", "resolve", "record", "seal",
                "publish", "index", "complete", "end", "waiting"}

OpenFile(g) == out[g][FileNo(g)]
HeaderNow(g) ==
    IF io = "seal" /\ g = Stream THEN SealedHeader(open[g].names) ELSE Placeholder

\* What the state says is in stream g is there.
Kept(g) ==
    /\ \A i \in DOMAIN sealed[g] :
          /\ i \in DOMAIN out[g]
          /\ out[g][i] = [header |-> SealedHeader(sealed[g][i]), data |-> sealed[g][i]]
    /\ open[g].is => /\ FileNo(g) \in DOMAIN out[g]
                     /\ IsPrefix(open[g].names, OpenFile(g).data)

\* And in a stream that was validated it is all there is.
Synced(g) ==
    Past(g) /\ open[g].is =>
        OpenFile(g) = [header |-> HeaderNow(g), data |-> open[g].names]

\* Only a kill inside the rewrite of a header leaves one that is refused.
Headed(g) ==
    open[g].is /\ "seal" \notin hit =>
        OpenFile(g).header \in {Placeholder, SealedHeader(open[g].names)}

\* The new file, before the state has it.
Made ==
    io = "create" =>
        /\ FileNo(Stream) \in DOMAIN out[Stream]
        /\ OpenFile(Stream) = [header |-> Placeholder, data |-> <<>>]

\* Before the first state file there is no output, but for the first file.
Begun ==
    ~saved => /\ \A g \in Groups : ~open[g].is /\ sealed[g] = <<>>
              /\ (\A g \in Groups : out[g] = <<>>) \/ io = "create" \/ "first" \in hit

OnDisk == Made /\ Begun /\ \A g \in Groups : Kept(g) /\ Synced(g) /\ Headed(g)

\* A stream that a step does not touch.
LEMMA OthersStay ==
    ASSUME NEW i, Kept(i), Synced(i), Headed(i),
           UNCHANGED <<out[i], open[i], sealed[i]>>, HeaderNow(i)' = HeaderNow(i),
           Past(i)' => Past(i), hit \subseteq hit'
    PROVE  Kept(i)' /\ Synced(i)' /\ Headed(i)'
<1>1. FileNo(i)' = FileNo(i) /\ OpenFile(i)' = OpenFile(i)
    BY DEF FileNo, OpenFile
<1>2. Kept(i)'
    BY <1>1 DEF Kept
<1>3. Synced(i)' /\ Headed(i)'
    BY <1>1 DEF Synced, Headed
<1>4. QED
    BY <1>2, <1>3

\* A step that touches no output file and no record of one.
LEMMA QuietKeepsDisk ==
    ASSUME OnDisk, UNCHANGED <<out, open, sealed>>, io = "none", io' = "none",
           saved => saved', hit \subseteq hit',
           \A g \in Groups : Past(g)' => Past(g)
    PROVE  OnDisk'
<1>1. UNCHANGED <<out, open, sealed>>
    OBVIOUS
<1>2. \A g \in Groups : HeaderNow(g) = Placeholder /\ HeaderNow(g)' = Placeholder
    BY DEF HeaderNow
<1>3. \A g \in Groups : Kept(g)' /\ Synced(g)' /\ Headed(g)'
    BY <1>1, <1>2, OthersStay DEF OnDisk
<1>4. QED
    BY <1>3 DEF OnDisk, Made, Begun

LEMMA SealHeaderKeepsDisk ==
    ASSUME Stored, Placed, OnDisk, SealHeader
    PROVE  OnDisk' /\ out' \in [Groups -> Seq(Files)]
<1>0. PICK g \in Groups : g = Stream
    BY StreamIsOne DEF SealHeader, Sealing, Appending
<1>1. Stream' = g
    BY <1>0, StreamFixed DEF SealHeader, state
<1>n. PICK n : n = FileNo(g)
    OBVIOUS
<1>2. open[g].is /\ io = "none" /\ io' = "seal" /\ cpc \in {"write", "resolve", "seal"}
    BY <1>0 DEF SealHeader, Sealing, Appending, Full, Stream, Groups
<1>3. UNCHANGED <<open, sealed, saved, cpc, phase, hit>>
    BY DEF SealHeader, state, history
<1>4. n \in DOMAIN out[g] /\ OpenFile(g) = [header |-> Placeholder, data |-> open[g].names]
    BY <1>2, <1>n DEF OnDisk, Kept, Synced, Past, HeaderNow
<1>5. SealedHeader(open[g].names) \in Headers
    BY DEF Stored, Filed, Names, SealedHeader, Headers
<1>6. out' = [out EXCEPT ![g][n].header = SealedHeader(open[g].names)]
    BY <1>0, <1>n DEF SealHeader
<1>7. /\ out' \in [Groups -> Seq(Files)]
      /\ \A i \in Groups : DOMAIN out'[i] = DOMAIN out[i]
      /\ \A i \in Groups \ {g} : out'[i] = out[i]
      /\ \A i \in DOMAIN out[g] \ {n} : out'[g][i] = out[g][i]
      /\ out'[g][n] = [header |-> SealedHeader(open[g].names), data |-> out[g][n].data]
    <2>1. out \in [Groups -> Seq(Files)]
        BY DEF Stored
    <2>2. PICK hd \in Headers : hd = SealedHeader(open[g].names)
        BY <1>5
    <2>3. n \in DOMAIN out[g] /\ out' = WithHeader(g, n, hd)
        BY <1>4, <1>6, <2>2 DEF WithHeader
    <2>4. QED
        BY <2>1, <2>2, <2>3, HeaderEdited
<1>8. \A i \in Groups : FileNo(i)' = FileNo(i) /\ FileNo(i) \notin DOMAIN sealed[i]
    BY <1>3 DEF FileNo, Stored, Filed, Names
<1>9. OpenFile(g)' = [header |-> SealedHeader(open[g].names), data |-> open[g].names]
    BY <1>4, <1>7, <1>8, <1>n DEF OpenFile
<1>10. Kept(g)' /\ Synced(g)' /\ Headed(g)'
    <2>1. \A i \in DOMAIN sealed[g] : i \in DOMAIN out'[g] /\ out'[g][i] = out[g][i]
        BY <1>7, <1>8, <1>n DEF OnDisk, Kept
    <2>2. IsPrefix(open[g].names, open[g].names)
        BY SubSeqFull DEF IsPrefix, Stored, Filed, Names
    <2>3. Kept(g)'
        <3>1. /\ sealed'[g] = sealed[g] /\ open'[g] = open[g]
              /\ FileNo(g)' \in DOMAIN out'[g]
            BY <1>3, <1>4, <1>7, <1>8, <1>n
        <3>2. OpenFile(g)'.data = open[g].names
            BY <1>9
        <3>3. \A i \in DOMAIN sealed[g] :
                 /\ i \in DOMAIN out'[g]
                 /\ out'[g][i] = [header |-> SealedHeader(sealed[g][i]), data |-> sealed[g][i]]
            BY <2>1 DEF OnDisk, Kept
        <3>4. QED
            BY <2>2, <3>1, <3>2, <3>3 DEF Kept
    <2>4. HeaderNow(g)' = SealedHeader(open[g].names)
        BY <1>1, <1>2, <1>3 DEF HeaderNow
    <2>5. QED
        BY <1>3, <1>9, <2>3, <2>4 DEF Synced, Headed
<1>11. ASSUME NEW i \in Groups, i # g
       PROVE  Kept(i)' /\ Synced(i)' /\ Headed(i)'
    <2>1. UNCHANGED <<out[i], open[i], sealed[i]>> /\ hit \subseteq hit'
        BY <1>3, <1>7, <1>11
    <2>2. HeaderNow(i)' = HeaderNow(i) /\ Past(i)' = Past(i)
        BY <1>0, <1>1, <1>2, <1>3, <1>11 DEF HeaderNow, Past
    <2>3. QED
        BY <2>1, <2>2, OthersStay DEF OnDisk
<1>12. Made' /\ Begun'
    BY <1>2, <1>3 DEF OnDisk, Made, Begun
<1>13. QED
    BY <1>7, <1>10, <1>11, <1>12 DEF OnDisk

\* The seal itself: the file is as the state will have it.
LEMMA SealKeepsDisk ==
    ASSUME Stored, OnDisk, NEW g \in Groups, Seal(g), open[g].is,
           io' = "none", hit' = hit, out' \in [Groups -> Seq(Files)],
           \A i \in Groups \ {g} : out'[i] = out[i] /\ HeaderNow(i) = Placeholder,
           \A i \in Groups : DOMAIN out'[i] = DOMAIN out[i],
           \A i \in DOMAIN sealed[g] : out'[g][i] = out[g][i],
           out'[g][FileNo(g)] =
               [header |-> SealedHeader(open[g].names), data |-> open[g].names],
           \A i \in Groups \ {g} : Past(i)' => Past(i)
    PROVE  OnDisk'
<1> DEFINE S == sealed[g]
           N == open[g].names
<1>1. S \in Seq(Names) /\ N \in Names
    BY DEF Stored, Filed
<1>2. /\ sealed' = [sealed EXCEPT ![g] = Append(S, N)]
      /\ open' = [open EXCEPT ![g] = NoFile] /\ saved'
    BY DEF Seal
<1>3. /\ DOMAIN Append(S, N) = DOMAIN S \cup {Len(S) + 1}
      /\ \A i \in DOMAIN S : Append(S, N)[i] = S[i]
      /\ Append(S, N)[Len(S) + 1] = N
    <2> HIDE DEF S, N
    <2>1. QED
        BY <1>1
<1>4. /\ sealed'[g] = Append(S, N) /\ ~open'[g].is
      /\ \A h \in Groups \ {g} : sealed'[h] = sealed[h] /\ open'[h] = open[h]
    BY <1>2 DEF Stored, Filed, NoFile
<1>5. FileNo(g) = Len(S) + 1 /\ FileNo(g) \in DOMAIN out[g]
    BY DEF FileNo, OnDisk, Kept
<1>6. Kept(g)' /\ Synced(g)' /\ Headed(g)'
    <2> HIDE DEF S, N
    <2>1. \A i \in DOMAIN S : i \in DOMAIN out'[g] /\ out'[g][i] = [header |-> SealedHeader(S[i]), data |-> S[i]]
        BY DEF OnDisk, Kept, S
    <2>2. out'[g][Len(S) + 1] = [header |-> SealedHeader(N), data |-> N]
        BY <1>5 DEF N
    <2>3. \A i \in DOMAIN sealed'[g] :
            /\ i \in DOMAIN out'[g]
            /\ out'[g][i] = [header |-> SealedHeader(sealed'[g][i]), data |-> sealed'[g][i]]
        BY <1>3, <1>4, <1>5, <2>1, <2>2
    <2>4. SealedHeader(<<>>)' = SealedHeader(<<>>)
        OBVIOUS
    <2>5. Kept(g)'
        BY <1>4, <2>3 DEF Kept, SealedHeader
    <2>6. QED
        BY <1>4, <2>5 DEF Synced, Headed
<1>7. ASSUME NEW i \in Groups, i # g
      PROVE  Kept(i)' /\ Synced(i)' /\ Headed(i)'
    <2>1. UNCHANGED <<out[i], open[i], sealed[i]>> /\ hit \subseteq hit'
        BY <1>4, <1>7
    <2>2. HeaderNow(i)' = HeaderNow(i)
        BY <1>7 DEF HeaderNow
    <2>3. QED
        BY <1>7, <2>1, <2>2, OthersStay DEF OnDisk
<1>8. QED
    BY <1>2, <1>6, <1>7 DEF OnDisk, Made, Begun

\* One more at the end.
LEMMA AppendIs ==
    ASSUME NEW S, NEW s \in Seq(S), NEW e \in S
    PROVE  /\ Append(s, e) \in Seq(S) /\ DOMAIN Append(s, e) = 1 .. Len(s) + 1
           /\ \A i \in 1 .. Len(s) : Append(s, e)[i] = s[i]
           /\ Append(s, e)[Len(s) + 1] = e
OBVIOUS

\* A new file takes the place of what an earlier attempt left there.
LEMMA CreatedIs ==
    ASSUME out \in [Groups -> Seq(Files)], NEW g \in Groups, Kept(g),
           sealed[g] \in Seq(Names), NEW hd \in Headers, out' = Created(g, hd)
    PROVE  /\ out' \in [Groups -> Seq(Files)]
           /\ \A i \in Groups \ {g} : out'[i] = out[i]
           /\ \A i \in DOMAIN sealed[g] : i \in DOMAIN out'[g] /\ out'[g][i] = out[g][i]
           /\ Len(sealed[g]) + 1 \in DOMAIN out'[g] /\ DOMAIN out'[g] = 1 .. Len(sealed[g]) + 1
           /\ out'[g][Len(sealed[g]) + 1] = [header |-> hd, data |-> <<>>]
<1> DEFINE m == Len(sealed[g])
           s == SubSeq(out[g], 1, m)
           f == [header |-> hd, data |-> <<>>]
<1>1. out[g] \in Seq(Files) /\ m \in Nat /\ DOMAIN sealed[g] = 1 .. m
      /\ DOMAIN out[g] = 1 .. Len(out[g])
    OBVIOUS
<1>2. \A i \in 1 .. m : i \in 1 .. Len(out[g])
    <2>1. \A i \in DOMAIN sealed[g] : i \in DOMAIN out[g]
        BY DEF Kept
    <2> HIDE DEF m
    <2>2. QED
        BY <1>1, <2>1
<1>3. s \in Seq(Files) /\ Len(s) = m /\ \A i \in 1 .. m : s[i] = out[g][i]
    <2> HIDE DEF m
    <2>1. \A i \in 1 .. m : out[g][i] \in Files
        BY <1>1, <1>2
    <2>2. QED
        BY <1>1, <2>1, SubSeqProperties
<1>4. f \in Files
    BY DEF Files
<1>5. out' = [out EXCEPT ![g] = Append(s, f)]
    BY DEF Created
<1> HIDE DEF s, f, m
<1>6. /\ Append(s, f) \in Seq(Files) /\ DOMAIN Append(s, f) = 1 .. m + 1
      /\ \A i \in 1 .. m : Append(s, f)[i] = out[g][i]
      /\ Append(s, f)[m + 1] = f
    <2>1. /\ Append(s, f) \in Seq(Files) /\ DOMAIN Append(s, f) = 1 .. Len(s) + 1
          /\ \A i \in 1 .. Len(s) : Append(s, f)[i] = s[i]
          /\ Append(s, f)[Len(s) + 1] = f
        BY <1>3, <1>4, AppendIs
    <2>2. QED
        BY <1>3, <2>1
<1>7. out'[g] = Append(s, f) /\ \A i \in Groups \ {g} : out'[i] = out[i]
    BY <1>5
<1>8. out' \in [Groups -> Seq(Files)]
    BY <1>5, <1>6
<1>9. QED
    BY <1>1, <1>6, <1>7, <1>8 DEF m, f

LEMMA CreateFileKeepsDisk ==
    ASSUME Stored, Placed, OnDisk, CreateFile
    PROVE  OnDisk' /\ out' \in [Groups -> Seq(Files)]
<1>0. PICK g \in Groups : g = Stream
    BY StreamIsOne DEF CreateFile, Creating, Appending
<1>1. Stream' = g
    BY <1>0, StreamFixed DEF CreateFile, state
<1>2. ~open[g].is /\ io = "none" /\ io' = "create" /\ cpc \in {"write", "resolve"}
    BY <1>0 DEF CreateFile, Creating, Appending
<1>3. UNCHANGED <<open, sealed, saved, cpc, phase, hit>>
    BY DEF CreateFile, state, history
<1>4. Placeholder \in Headers
    BY DEF Placeholder, Headers
<1>5. Kept(g) /\ sealed[g] \in Seq(Names) /\ out \in [Groups -> Seq(Files)]
    BY DEF OnDisk, Stored, Filed
<1>6. out' = Created(g, Placeholder)
    BY <1>0 DEF CreateFile
<1>7. /\ out' \in [Groups -> Seq(Files)]
      /\ \A i \in Groups \ {g} : out'[i] = out[i]
      /\ \A i \in DOMAIN sealed[g] : i \in DOMAIN out'[g] /\ out'[g][i] = out[g][i]
      /\ Len(sealed[g]) + 1 \in DOMAIN out'[g]
      /\ out'[g][Len(sealed[g]) + 1] = [header |-> Placeholder, data |-> <<>>]
    BY <1>4, <1>5, <1>6, CreatedIs
<1>8. Kept(g)' /\ Synced(g)' /\ Headed(g)'
    <2>1. \A i \in DOMAIN sealed[g] :
             /\ i \in DOMAIN out'[g]
             /\ out'[g][i] = [header |-> SealedHeader(sealed[g][i]), data |-> sealed[g][i]]
        BY <1>5, <1>7 DEF Kept
    <2>2. sealed'[g] = sealed[g] /\ ~open'[g].is
        BY <1>2, <1>3
    <2>3. QED
        BY <2>1, <2>2 DEF Kept, Synced, Headed
<1>9. ASSUME NEW i \in Groups, i # g
      PROVE  Kept(i)' /\ Synced(i)' /\ Headed(i)'
    <2>1. UNCHANGED <<out[i], open[i], sealed[i]>> /\ hit \subseteq hit'
        BY <1>3, <1>7, <1>9
    <2>2. HeaderNow(i)' = HeaderNow(i) /\ Past(i)' = Past(i)
        BY <1>2, <1>3 DEF HeaderNow, Past
    <2>3. QED
        BY <2>1, <2>2, OthersStay DEF OnDisk
<1>10. Made'
    <2>1. FileNo(g)' = Len(sealed[g]) + 1
        BY <1>3 DEF FileNo
    <2>2. QED
        BY <1>1, <1>7, <2>1 DEF Made, OpenFile, Placeholder
<1>11. Begun'
    BY <1>2, <1>3 DEF OnDisk, Begun
<1>12. QED
    BY <1>7, <1>8, <1>9, <1>10, <1>11 DEF OnDisk

LEMMA CreateSaveKeepsDisk ==
    ASSUME Stored, Placed, OnDisk, CreateSave
    PROVE  OnDisk'
<1>0. PICK g \in Groups : g = Stream
    BY StreamIsOne DEF CreateSave, Placed
<1>1. GroupOf[Upcoming] = g
    BY <1>0 DEF CreateSave, Placed, Stream
<1>2. /\ open' = [open EXCEPT ![g] = [is |-> TRUE, names |-> <<>>]]
      /\ io = "create" /\ io' = "none" /\ saved'
      /\ UNCHANGED <<out, sealed, cpc, phase, hit>>
    BY <1>1 DEF CreateSave, history
<1>3. FileNo(g) \in DOMAIN out[g] /\ OpenFile(g) = [header |-> Placeholder, data |-> <<>>]
    BY <1>0, <1>2 DEF OnDisk, Made
<1>4. open'[g] = [is |-> TRUE, names |-> <<>>]
      /\ \A i \in Groups \ {g} : open'[i] = open[i]
    BY <1>2 DEF Stored, Filed
<1>5. Kept(g)' /\ Synced(g)' /\ Headed(g)'
    <2>1. FileNo(g)' = FileNo(g) /\ OpenFile(g)' = OpenFile(g)
        BY <1>2 DEF FileNo, OpenFile
    <2>2. IsPrefix(<<>>, <<>>)
        BY DEF IsPrefix
    <2>3. Kept(g)'
        <3>1. sealed'[g] = sealed[g] /\ out'[g] = out[g] /\ open'[g].names = <<>>
              /\ FileNo(g)' \in DOMAIN out'[g] /\ OpenFile(g)'.data = <<>>
            BY <1>2, <1>3, <1>4, <2>1
        <3>2. \A i \in DOMAIN sealed[g] :
                 /\ i \in DOMAIN out[g]
                 /\ out[g][i] = [header |-> SealedHeader(sealed[g][i]), data |-> sealed[g][i]]
            BY DEF OnDisk, Kept
        <3>3. QED
            BY <2>2, <3>1, <3>2 DEF Kept
    <2>4. HeaderNow(g)' = Placeholder /\ open'[g].names = <<>>
        BY <1>2, <1>4 DEF HeaderNow
    <2>5. OpenFile(g)' = [header |-> HeaderNow(g)', data |-> open'[g].names]
        BY <1>3, <2>1, <2>4
    <2>6. QED
        BY <2>3, <2>4, <2>5 DEF Synced, Headed
<1>6. ASSUME NEW i \in Groups, i # g
      PROVE  Kept(i)' /\ Synced(i)' /\ Headed(i)'
    <2>1. UNCHANGED <<out[i], open[i], sealed[i]>> /\ hit \subseteq hit'
        BY <1>2, <1>4, <1>6
    <2>2. HeaderNow(i)' = HeaderNow(i) /\ Past(i)' = Past(i)
        BY <1>2 DEF HeaderNow, Past
    <2>3. QED
        BY <2>1, <2>2, OthersStay DEF OnDisk
<1>7. QED
    BY <1>2, <1>5, <1>6 DEF OnDisk, Made, Begun

LEMMA WriteEnd ==
    ASSUME NEW S, NEW data \in Seq(S), NEW e \in S
    PROVE  WriteAt(data, Len(data), e) = Append(data, e)
<1>1. SubSeq(data, 1, Len(data)) = data
    BY SubSeqFull
<1>2. SubSeq(data, Len(data) + 2, Len(data)) = <<>>
    OBVIOUS
<1>3. data \o <<e>> \o <<>> = Append(data, e)
    OBVIOUS
<1>4. QED
    BY <1>1, <1>2, <1>3 DEF WriteAt

LEMMA AppendKeepsDisk ==
    ASSUME Stored, Placed, OnDisk, AppendTensor
    PROVE  OnDisk' /\ out' \in [Groups -> Seq(Files)]
<1>0. PICK g \in Groups : g = Stream
    BY StreamIsOne DEF AppendTensor, Copying, Appending
<1>1. PICK t \in Tensors : t = Upcoming
    BY NextMissing DEF AppendTensor, Copying, Appending
<1>2. /\ open[g].is /\ io = "none" /\ cpc \in {"write", "resolve"}
      /\ UNCHANGED <<sealed, cpc, phase, io, hit>> /\ saved'
      /\ open' = [open EXCEPT ![g].names = Append(@, t)]
    BY <1>0, <1>1 DEF AppendTensor, Copying, Appending, process, history
<1> DEFINE N == open[g].names
<1>3. N \in Seq(Tensors) /\ N \in Seq(Tensors \cup {Torn}) /\ t \in Tensors \cup {Torn}
      /\ Append(N, t) \in Seq(Tensors)
    BY DEF Stored, Filed, Names
<1>4. PICK n : n = FileNo(g)
    OBVIOUS
<1>5. n \in DOMAIN out[g] /\ out[g][n] = [header |-> Placeholder, data |-> N]
    BY <1>2, <1>4 DEF OnDisk, Kept, Synced, Past, HeaderNow, OpenFile
<1>6. out' = WithData(g, n, WriteAt(N, Len(N), t))
    BY <1>0, <1>1, <1>4, <1>5 DEF AppendTensor, WithData
<1>7. WriteAt(N, Len(N), t) = Append(N, t)
    <2> HIDE DEF N
    <2>1. PICK S : S = Tensors \cup {Torn}
        OBVIOUS
    <2>2. N \in Seq(S) /\ t \in S /\ Len(N) \in 0 .. Len(N)
        BY <1>3, <2>1
    <2>3. QED
        BY <2>2, WriteEnd
<1> DEFINE d == Append(N, t)
<1>8. out \in [Groups -> Seq(Files)] /\ d \in Seq(Tensors \cup {Torn})
    BY <1>3 DEF Stored
<1>9. out' = WithData(g, n, d)
    BY <1>6, <1>7
<1>10. /\ open'[g].is /\ open'[g].names = d
       /\ \A i \in Groups \ {g} : open'[i] = open[i]
    BY <1>2 DEF Stored, Filed
<1> HIDE DEF d, N
<1>11. /\ out' \in [Groups -> Seq(Files)]
       /\ \A i \in Groups : DOMAIN out'[i] = DOMAIN out[i]
       /\ \A i \in Groups \ {g} : out'[i] = out[i]
       /\ \A i \in DOMAIN out[g] \ {n} : out'[g][i] = out[g][i]
       /\ out'[g][n] = [header |-> out[g][n].header, data |-> d]
    BY <1>5, <1>8, <1>9, DataEdited
<1>12. FileNo(g)' = n /\ n \notin DOMAIN sealed[g] /\ OpenFile(g)' = [header |-> Placeholder, data |-> d]
    BY <1>2, <1>4, <1>5, <1>11 DEF FileNo, OpenFile, Stored, Filed, Names
<1>13. Kept(g)' /\ Synced(g)' /\ Headed(g)'
    <2>1. \A i \in DOMAIN sealed[g] :
             /\ i \in DOMAIN out'[g]
             /\ out'[g][i] = [header |-> SealedHeader(sealed[g][i]), data |-> sealed[g][i]]
        BY <1>11, <1>12 DEF OnDisk, Kept
    <2>2. IsPrefix(d, d)
        BY <1>3, SubSeqFull DEF IsPrefix, d
    <2>3. sealed'[g] = sealed[g] /\ FileNo(g)' \in DOMAIN out'[g] /\ OpenFile(g)'.data = d
        BY <1>2, <1>5, <1>11, <1>12
    <2>4. Kept(g)'
        BY <1>10, <2>1, <2>2, <2>3 DEF Kept
    <2>5. HeaderNow(g)' = Placeholder
        BY <1>2 DEF HeaderNow
    <2>6. QED
        BY <1>10, <1>12, <2>4, <2>5 DEF Synced, Headed
<1>14. ASSUME NEW i \in Groups, i # g
       PROVE  Kept(i)' /\ Synced(i)' /\ Headed(i)'
    <2>1. UNCHANGED <<out[i], open[i], sealed[i]>> /\ hit \subseteq hit'
        BY <1>2, <1>10, <1>11, <1>14
    <2>2. HeaderNow(i)' = HeaderNow(i) /\ Past(i)' = Past(i)
        BY <1>2 DEF HeaderNow, Past
    <2>3. QED
        BY <2>1, <2>2, OthersStay DEF OnDisk
<1>15. Made' /\ Begun'
    BY <1>2 DEF Made, Begun
<1>16. QED
    BY <1>11, <1>13, <1>14, <1>15 DEF OnDisk

LEMMA FileIs ==
    ASSUME Stored, NEW g \in Groups, NEW n \in DOMAIN out[g]
    PROVE  out[g][n].header \in Headers /\ out[g][n].data \in Seq(Tensors \cup {Torn})
<1>1. out[g] \in Seq(Files)
    BY DEF Stored
<1>2. PICK f \in Files : f = out[g][n]
    BY <1>1
<1>3. f.header \in Headers /\ f.data \in Seq(Tensors \cup {Torn})
    BY DEF Files
<1>4. QED
    BY <1>2, <1>3

\* A stream whose records are on the disk passes the first two checks.
LEMMA KeptPasses ==
    ASSUME Stored, NEW g \in Groups, Kept(g)
    PROVE  SealedIntact(g) /\ (open[g].is => OpenPresent(g))
<1>1. SealedIntact(g)
    <2>1. ASSUME NEW i \in DOMAIN sealed[g]
          PROVE  /\ i \in DOMAIN out[g]
                 /\ out[g][i].header = SealedHeader(sealed[g][i])
                 /\ Len(out[g][i].data) = Len(sealed[g][i])
        <3>1. /\ i \in DOMAIN out[g]
              /\ out[g][i] = [header |-> SealedHeader(sealed[g][i]), data |-> sealed[g][i]]
            BY <2>1 DEF Kept
        <3>2. QED
            BY <3>1
    <2>2. QED
        BY <2>1 DEF SealedIntact
<1>2. ASSUME open[g].is
      PROVE  OpenPresent(g)
    <2>1. FileNo(g) \in DOMAIN out[g] /\ IsPrefix(open[g].names, out[g][FileNo(g)].data)
        BY <1>2 DEF Kept, OpenFile
    <2>2. out[g][FileNo(g)].data \in Seq(Tensors \cup {Torn}) /\ open[g].names \in Seq(Tensors)
        BY <2>1, FileIs DEF Stored, Filed, Names
    <2>3. QED
        BY <2>1, <2>2 DEF OpenPresent, IsPrefix
<1>3. QED
    BY <1>1, <1>2

\* The truncated file holds what the state records.
LEMMA TruncatedIs ==
    ASSUME Stored, NEW g \in Groups, Kept(g), open[g].is, out' = Truncated(g)
    PROVE  /\ out' \in [Groups -> Seq(Files)]
           /\ \A i \in Groups : DOMAIN out'[i] = DOMAIN out[i]
           /\ \A i \in Groups \ {g} : out'[i] = out[i]
           /\ \A i \in DOMAIN sealed[g] : out'[g][i] = out[g][i]
           /\ out'[g][FileNo(g)] = [header |-> OpenFile(g).header, data |-> open[g].names]
<1>1. PICK n : n = FileNo(g)
    OBVIOUS
<1>2. PICK d : d = open[g].names
    OBVIOUS
<1>3. n \in DOMAIN out[g] /\ IsPrefix(d, out[g][n].data) /\ d \in Seq(Tensors)
    BY <1>1, <1>2 DEF Kept, OpenFile, Stored, Filed, Names
<1>4. PICK e : e = out[g][n].data
    OBVIOUS
<1>5. e \in Seq(Tensors \cup {Torn})
    BY <1>3, <1>4, FileIs
<1>6. SubSeq(e, 1, Len(d)) = d
    BY <1>3, <1>4, <1>5 DEF IsPrefix
<1>7. out' = [out EXCEPT ![g][n].data = SubSeq(@, 1, Len(d))]
    BY <1>1, <1>2 DEF Truncated
<1>8. out' = WithData(g, n, d)
    BY <1>4, <1>6, <1>7 DEF WithData
<1>9. out \in [Groups -> Seq(Files)] /\ d \in Seq(Tensors \cup {Torn})
    BY <1>3 DEF Stored
<1>10. /\ out' \in [Groups -> Seq(Files)]
       /\ \A i \in Groups : DOMAIN out'[i] = DOMAIN out[i]
       /\ \A i \in Groups \ {g} : out'[i] = out[i]
       /\ \A i \in DOMAIN out[g] \ {n} : out'[g][i] = out[g][i]
       /\ out'[g][n] = [header |-> out[g][n].header, data |-> d]
    BY <1>3, <1>8, <1>9, DataEdited
<1>11. \A i \in DOMAIN sealed[g] : i \in DOMAIN out[g] \ {n}
    BY <1>1 DEF Kept, FileNo, Stored, Filed, Names
<1>12. QED
    BY <1>1, <1>2, <1>10, <1>11 DEF OpenFile

\* The file is there and is cut to what the state records.
LEMMA CutKeepsDisk ==
    ASSUME Stored, OnDisk, NEW g \in Groups, open[g].is, out' = Truncated(g),
           UNCHANGED <<open, sealed, saved, io, hit>>, io = "none",
           Past(g)' => OpenFile(g).header = Placeholder,
           \A i \in Groups \ {g} : Past(i)' => Past(i)
    PROVE  OnDisk'
<1>1. /\ out' \in [Groups -> Seq(Files)]
      /\ \A i \in Groups : DOMAIN out'[i] = DOMAIN out[i]
      /\ \A i \in Groups \ {g} : out'[i] = out[i]
      /\ \A i \in DOMAIN sealed[g] : out'[g][i] = out[g][i]
      /\ out'[g][FileNo(g)] = [header |-> OpenFile(g).header, data |-> open[g].names]
    BY TruncatedIs DEF OnDisk
<1>2. FileNo(g)' = FileNo(g)
    BY DEF FileNo
<1>3. OpenFile(g)' = [header |-> OpenFile(g).header, data |-> open[g].names]
    BY <1>1, <1>2 DEF OpenFile
<1>4. Kept(g)'
    <2>1. IsPrefix(open[g].names, open[g].names)
        BY SubSeqFull DEF IsPrefix, Stored, Filed, Names
    <2>2. sealed'[g] = sealed[g] /\ open'[g] = open[g] /\ FileNo(g)' \in DOMAIN out'[g]
        BY <1>1, <1>2 DEF OnDisk, Kept
    <2>3. \A i \in DOMAIN sealed[g] :
             /\ i \in DOMAIN out'[g]
             /\ out'[g][i] = [header |-> SealedHeader(sealed[g][i]), data |-> sealed[g][i]]
        BY <1>1 DEF OnDisk, Kept
    <2>4. OpenFile(g)'.data = open[g].names
        BY <1>3
    <2>5. QED
        BY <2>1, <2>2, <2>3, <2>4 DEF Kept
<1>5. HeaderNow(g)' = Placeholder
    BY DEF HeaderNow
<1>6. Synced(g)' /\ Headed(g)'
    BY <1>3, <1>5 DEF OnDisk, Synced, Headed
<1>7. ASSUME NEW i \in Groups, i # g
      PROVE  Kept(i)' /\ Synced(i)' /\ Headed(i)'
    <2>1. UNCHANGED <<out[i], open[i], sealed[i]>> /\ hit \subseteq hit'
        BY <1>1, <1>7
    <2>2. HeaderNow(i)' = HeaderNow(i)
        BY DEF HeaderNow
    <2>3. QED
        BY <1>7, <2>1, <2>2, OthersStay DEF OnDisk
<1>8. QED
    BY <1>4, <1>6, <1>7 DEF OnDisk, Made, Begun

LEMMA ValidateKeepsDisk ==
    ASSUME Stored, Placed, OnDisk, Validate
    PROVE  OnDisk' /\ out' \in [Groups -> Seq(Files)]
<1>1. PICK g \in Groups : g = phase
    BY DEF Stored
<1>2. /\ cpc = "validate" /\ io = "none" /\ io' = "none" /\ hit' = hit
      /\ phase' = "mtp"
      /\ cpc' = IF ~Trusted(g) THEN "failed" ELSE IF g = "main" THEN "validate" ELSE "next"
    BY <1>1 DEF Validate, Placed, history
<1>3. \A i \in Groups : HeaderNow(i) = Placeholder
    BY <1>2 DEF HeaderNow
<1>4. SealedIntact(g) /\ (open[g].is => OpenPresent(g)) /\ Kept(g)
    BY KeptPasses DEF OnDisk
<1>5. \A i \in Groups \ {g} : Past(i)' => Past(i)
    BY <1>1, <1>2 DEF Past, Groups
<1>6. CASE ~open[g].is
    <2>1. UNCHANGED <<out, open, sealed, saved>>
        BY <1>1, <1>6 DEF Validate, state
    <2>2. \A i \in Groups : HeaderNow(i)' = Placeholder
        BY <1>2 DEF HeaderNow
    <2>3. Kept(g)' /\ Synced(g)' /\ Headed(g)'
        <3>1. OpenFile(g)' = OpenFile(g) /\ FileNo(g)' = FileNo(g)
            BY <2>1 DEF OpenFile, FileNo
        <3>2. QED
            BY <1>4, <1>6, <2>1, <3>1 DEF Kept, Synced, Headed
    <2>4. ASSUME NEW i \in Groups, i # g
          PROVE  Kept(i)' /\ Synced(i)' /\ Headed(i)'
        <3>1. UNCHANGED <<out[i], open[i], sealed[i]>> /\ hit \subseteq hit'
            BY <1>2, <2>1
        <3>2. HeaderNow(i)' = HeaderNow(i) /\ (Past(i)' => Past(i))
            BY <1>3, <1>5, <2>2, <2>4
        <3>3. QED
            BY <3>1, <3>2, OthersStay DEF OnDisk
    <2>5. QED
        BY <1>2, <2>1, <2>3, <2>4 DEF OnDisk, Made, Begun, Stored
<1>7. CASE open[g].is
    <2>1. out' = Truncated(g)
        BY <1>1, <1>4, <1>7 DEF Validate
    <2>2. /\ out' \in [Groups -> Seq(Files)]
          /\ \A i \in Groups : DOMAIN out'[i] = DOMAIN out[i]
          /\ \A i \in Groups \ {g} : out'[i] = out[i]
          /\ \A i \in DOMAIN sealed[g] : out'[g][i] = out[g][i]
          /\ out'[g][FileNo(g)] = [header |-> OpenFile(g).header, data |-> open[g].names]
        BY <1>4, <1>7, <2>1, TruncatedIs
    <2>3. CASE Trusted(g) /\ Adopted(g)
        <3>1. Seal(g)
            BY <1>1, <1>7, <2>3 DEF Validate
        <3>2. OpenFile(g).header = SealedHeader(open[g].names)
            BY <2>3 DEF Adopted, OpenFile
        <3>3. QED
            BY <1>2, <1>3, <1>5, <1>7, <2>2, <3>1, <3>2, SealKeepsDisk
    <2>4. CASE ~(Trusted(g) /\ Adopted(g))
        <3>1. UNCHANGED <<open, sealed, saved>>
            BY <1>1, <1>7, <2>4 DEF Validate, state
        <3>2. Past(g)' => OpenFile(g).header = Placeholder
            BY <1>1, <1>2, <1>7, <2>4 DEF Past, Trusted, Groups, OpenFile
        <3>3. QED
            BY <1>2, <1>5, <1>7, <2>1, <2>2, <3>1, <3>2, CutKeepsDisk
    <2>5. QED
        BY <2>3, <2>4
<1>8. QED
    BY <1>6, <1>7

\* After a kill nothing is validated: what the state records is all that the
\* disk vouches for.
LEMMA KilledKeepsDisk ==
    ASSUME Stored, OnDisk, NEW g \in Groups,
           UNCHANGED <<open, sealed, saved>>, cpc' = "off", io' = "none",
           hit \subseteq hit',
           out' \in [Groups -> Seq(Files)],
           \A i \in Groups \ {g} : out'[i] = out[i],
           \A i \in DOMAIN sealed[g] : i \in DOMAIN out'[g] /\ out'[g][i] = out[g][i],
           open[g].is => /\ FileNo(g) \in DOMAIN out'[g]
                         /\ IsPrefix(open[g].names, out'[g][FileNo(g)].data)
                         /\ \/ out'[g][FileNo(g)].header = OpenFile(g).header
                            \/ "seal" \in hit',
           saved \/ (out' = out /\ io = "none") \/ "first" \in hit'
    PROVE  OnDisk'
<1>1. \A i \in Groups : FileNo(i)' = FileNo(i) /\ ~Past(i)'
    BY DEF FileNo, Past
<1>2. UNCHANGED <<open, sealed, saved>>
    OBVIOUS
<1>3. Kept(g)'
    <2>1. \A i \in DOMAIN sealed[g] :
             /\ i \in DOMAIN out'[g]
             /\ out'[g][i] = [header |-> SealedHeader(sealed[g][i]), data |-> sealed[g][i]]
        BY DEF OnDisk, Kept
    <2>2. open[g].is => /\ FileNo(g)' \in DOMAIN out'[g]
                        /\ IsPrefix(open[g].names, OpenFile(g)'.data)
        BY <1>1 DEF OpenFile
    <2>3. QED
        BY <1>2, <2>1, <2>2 DEF Kept
<1>4. Headed(g)'
    <2>1. open[g].is => OpenFile(g)'.header = OpenFile(g).header \/ "seal" \in hit'
        BY <1>1 DEF OpenFile
    <2>2. Headed(g)
        BY DEF OnDisk
    <2>3. QED
        BY <1>2, <2>1, <2>2 DEF Headed
<1>5. ASSUME NEW i \in Groups
      PROVE  Synced(i)'
    BY <1>1 DEF Synced
<1>6. ASSUME NEW i \in Groups, i # g
      PROVE  Kept(i)' /\ Headed(i)'
    <2>1. UNCHANGED <<out[i], open[i], sealed[i]>>
        BY <1>6
    <2>2. OpenFile(i)' = OpenFile(i) /\ FileNo(i)' = FileNo(i)
        BY <1>1, <2>1 DEF OpenFile
    <2>3. Kept(i) /\ Headed(i)
        BY DEF OnDisk
    <2>4. QED
        BY <2>1, <2>2, <2>3 DEF Kept, Headed
<1>7. Begun'
    <2>1. ASSUME ~saved
          PROVE  /\ \A i \in Groups : ~open[i].is /\ sealed[i] = <<>>
                 /\ (\A i \in Groups : out'[i] = <<>>) \/ "first" \in hit'
        BY <2>1 DEF OnDisk, Begun
    <2>2. QED
        BY <1>2, <2>1 DEF Begun
<1>8. Made'
    BY DEF Made
<1>9. QED
    BY <1>3, <1>4, <1>5, <1>6, <1>7, <1>8 DEF OnDisk

\* The files that the state has as sealed are not the next one.
LEMMA SealedFiles ==
    ASSUME Stored, NEW g \in Groups, Kept(g)
    PROVE  \A i \in DOMAIN sealed[g] : i \in DOMAIN out[g] \ {FileNo(g)}
<1>1. sealed[g] \in Seq(Names)
    BY DEF Stored, Filed
<1>2. \A i \in DOMAIN sealed[g] : i # FileNo(g)
    BY <1>1 DEF FileNo
<1>3. QED
    BY <1>2 DEF Kept

\* A write behind the recorded part of a file leaves that part.
LEMMA WriteKeepsPrefix ==
    ASSUME NEW S, NEW N \in Seq(Tensors), NEW e \in Seq(S), NEW x \in S, IsPrefix(N, e)
    PROVE  WriteAt(e, Len(N), x) \in Seq(S) /\ IsPrefix(N, WriteAt(e, Len(N), x))
<1>1. PICK n : n = Len(N)
    OBVIOUS
<1>2. n \in 0 .. Len(e) /\ N = SubSeq(e, 1, n)
    BY <1>1 DEF IsPrefix
<1>3. /\ WriteAt(e, n, x) \in Seq(S) /\ Len(WriteAt(e, n, x)) >= n + 1
      /\ \A i \in 1 .. n : WriteAt(e, n, x)[i] = e[i]
    BY <1>2, WriteIs
<1> DEFINE d == WriteAt(e, n, x)
<1>4. d \in Seq(S) /\ Len(d) >= n + 1 /\ \A i \in 1 .. n : d[i] = e[i]
    BY <1>3
<1> HIDE DEF d
<1>5. SubSeq(d, 1, n) = SubSeq(e, 1, n)
    BY <1>2, <1>4
<1>6. QED
    BY <1>1, <1>2, <1>4, <1>5 DEF IsPrefix, d

\* What a write of the next tensor, or of a part of it, leaves in the stream.
LEMMA CopyLeaves ==
    ASSUME Stored, NEW g \in Groups, Kept(g), open[g].is, NEW x \in Tensors \cup {Torn},
           out' = WithData(g, FileNo(g), WriteAt(OpenFile(g).data, Len(open[g].names), x))
    PROVE  /\ out' \in [Groups -> Seq(Files)]
           /\ \A i \in Groups \ {g} : out'[i] = out[i]
           /\ \A i \in DOMAIN sealed[g] : i \in DOMAIN out'[g] /\ out'[g][i] = out[g][i]
           /\ FileNo(g) \in DOMAIN out'[g] /\ IsPrefix(open[g].names, out'[g][FileNo(g)].data)
           /\ out'[g][FileNo(g)].header = OpenFile(g).header
<1>1. PICK n : n = FileNo(g)
    OBVIOUS
<1>2. PICK N : N = open[g].names
    OBVIOUS
<1>3. n \in DOMAIN out[g] /\ IsPrefix(N, out[g][n].data) /\ N \in Seq(Tensors)
    BY <1>1, <1>2 DEF Kept, OpenFile, Stored, Filed, Names
<1>4. PICK e : e = out[g][n].data
    OBVIOUS
<1>5. e \in Seq(Tensors \cup {Torn})
    BY <1>3, <1>4, FileIs
<1>6. PICK d : d = WriteAt(e, Len(N), x)
    OBVIOUS
<1>7. d \in Seq(Tensors \cup {Torn}) /\ IsPrefix(N, d)
    BY <1>3, <1>4, <1>5, <1>6, WriteKeepsPrefix
<1>8. out' = WithData(g, n, d)
    BY <1>1, <1>2, <1>4, <1>6 DEF OpenFile
<1>9. out \in [Groups -> Seq(Files)]
    BY DEF Stored
<1>10. /\ out' \in [Groups -> Seq(Files)]
       /\ \A i \in Groups : DOMAIN out'[i] = DOMAIN out[i]
       /\ \A i \in Groups \ {g} : out'[i] = out[i]
       /\ \A i \in DOMAIN out[g] \ {n} : out'[g][i] = out[g][i]
       /\ out'[g][n] = [header |-> out[g][n].header, data |-> d]
    BY <1>3, <1>7, <1>8, <1>9, DataEdited
<1>11. \A i \in DOMAIN sealed[g] : i \in DOMAIN out[g] \ {n}
    BY <1>1, SealedFiles
<1>12. QED
    BY <1>1, <1>2, <1>3, <1>7, <1>10, <1>11 DEF OpenFile

LEMMA CrashKeepsOutput ==
    ASSUME Stored, Placed, OnDisk, Crash
    PROVE  OnDisk' /\ out' \in [Groups -> Seq(Files)]
<1>1. /\ UNCHANGED <<open, sealed, saved>> /\ cpc' = "off" /\ io' = "none" /\ Debris
      /\ hit' = hit \cup Exposed \cup TornSeal
    BY DEF Crash, Killed, state
<1>2. hit \subseteq hit' /\ Exposed \subseteq hit' /\ TornSeal \subseteq hit'
    BY <1>1
<1>3. io = "create" /\ ~saved => "first" \in hit'
    BY <1>2 DEF Exposed
<1>4. \A g \in Groups : Kept(g) /\ Headed(g)
    BY DEF OnDisk
<1>5. CASE UNCHANGED out
    <2>1. PICK g \in Groups : g = "main"
        BY DEF Groups
    <2>2. \A i \in DOMAIN sealed[g] : i \in DOMAIN out'[g] /\ out'[g][i] = out[g][i]
        BY <1>4, <1>5 DEF Kept
    <2>3. open[g].is => /\ FileNo(g) \in DOMAIN out'[g]
                        /\ IsPrefix(open[g].names, out'[g][FileNo(g)].data)
                        /\ out'[g][FileNo(g)].header = OpenFile(g).header
        BY <1>4, <1>5 DEF Kept, OpenFile
    <2>4. saved \/ (out' = out /\ io = "none") \/ "first" \in hit'
        <3>1. CASE io = "seal" /\ ~saved
            <4>1. PICK h \in Groups : h = Stream
                BY <3>1, StreamIsOne DEF Placed
            <4>2. open[h].is
                BY <3>1, <4>1 DEF Placed
            <4>3. QED
                BY <3>1, <4>2 DEF OnDisk, Begun
        <3>2. QED
            BY <1>3, <1>5, <3>1 DEF Stored
    <2>5. out' \in [Groups -> Seq(Files)]
        BY <1>5 DEF Stored
    <2>6. QED
        BY <1>1, <1>2, <1>5, <2>2, <2>3, <2>4, <2>5, KilledKeepsDisk
<1>6. CASE \E x \in {Torn, Upcoming} : Copying /\
             out' = [out EXCEPT ![Stream][FileNo(Stream)].data =
                                    WriteAt(@, Len(open[Stream].names), x)]
    <2>1. PICK g \in Groups : g = Stream
        BY <1>6, StreamIsOne DEF Copying, Appending
    <2>2. PICK x \in Tensors \cup {Torn} : Copying /\
             out' = [out EXCEPT ![Stream][FileNo(Stream)].data =
                                    WriteAt(@, Len(open[Stream].names), x)]
        BY <1>6, NextMissing DEF Copying, Appending
    <2>3. open[g].is /\ saved
        <3>1. open[g].is
            BY <2>1, <2>2 DEF Copying
        <3>2. QED
            BY <3>1 DEF OnDisk, Begun
    <2>4. out' = WithData(g, FileNo(g), WriteAt(OpenFile(g).data, Len(open[g].names), x))
        BY <2>1, <2>2 DEF WithData, OpenFile
    <2>5. /\ out' \in [Groups -> Seq(Files)]
          /\ \A i \in Groups \ {g} : out'[i] = out[i]
          /\ \A i \in DOMAIN sealed[g] : i \in DOMAIN out'[g] /\ out'[g][i] = out[g][i]
          /\ FileNo(g) \in DOMAIN out'[g] /\ IsPrefix(open[g].names, out'[g][FileNo(g)].data)
          /\ out'[g][FileNo(g)].header = OpenFile(g).header
        BY <1>4, <2>3, <2>4, CopyLeaves
    <2>6. QED
        BY <1>1, <1>2, <2>3, <2>5, KilledKeepsDisk
<1>7. CASE Creating /\ out' = Created(Stream, TornHeader)
    <2>1. PICK g \in Groups : g = Stream
        BY <1>7, StreamIsOne DEF Creating, Appending
    <2>2. ~open[g].is /\ (~saved => "first" \in hit')
        BY <1>2, <1>7, <2>1 DEF Creating, Exposed
    <2>3. TornHeader \in Headers /\ sealed[g] \in Seq(Names) /\ out \in [Groups -> Seq(Files)]
        BY DEF TornHeader, Headers, Stored, Filed
    <2>4. /\ out' \in [Groups -> Seq(Files)]
          /\ \A i \in Groups \ {g} : out'[i] = out[i]
          /\ \A i \in DOMAIN sealed[g] : i \in DOMAIN out'[g] /\ out'[g][i] = out[g][i]
        BY <1>4, <1>7, <2>1, <2>3, CreatedIs
    <2>5. QED
        BY <1>1, <1>2, <2>2, <2>4, KilledKeepsDisk
<1>8. CASE Sealing /\ out' = [out EXCEPT ![Stream][FileNo(Stream)].header = TornHeader]
    <2>1. PICK g \in Groups : g = Stream
        BY <1>8, StreamIsOne DEF Sealing, Appending
    <2>2. open[g].is /\ saved
        <3>1. open[g].is
            BY <1>8, <2>1 DEF Sealing, Appending, Full, Stream, Groups
        <3>2. QED
            BY <3>1 DEF OnDisk, Begun
    <2>3. PICK n : n = FileNo(g)
        OBVIOUS
    <2>4. n \in DOMAIN out[g] /\ IsPrefix(open[g].names, out[g][n].data)
        BY <1>4, <2>2, <2>3 DEF Kept, OpenFile
    <2>5. TornHeader \in Headers /\ out \in [Groups -> Seq(Files)]
        BY DEF TornHeader, Headers, Stored
    <2>6. out' = WithHeader(g, n, TornHeader)
        BY <1>8, <2>1, <2>3 DEF WithHeader
    <2>7. /\ out' \in [Groups -> Seq(Files)]
          /\ \A i \in Groups : DOMAIN out'[i] = DOMAIN out[i]
          /\ \A i \in Groups \ {g} : out'[i] = out[i]
          /\ \A i \in DOMAIN out[g] \ {n} : out'[g][i] = out[g][i]
          /\ out'[g][n] = [header |-> TornHeader, data |-> out[g][n].data]
        BY <2>4, <2>5, <2>6, HeaderEdited
    <2>8. \A i \in DOMAIN sealed[g] : i \in DOMAIN out[g] \ {n}
        BY <1>4, <2>3, SealedFiles
    <2>9. "seal" \in hit'
        BY <1>2, <1>8, <2>1, <2>3, <2>7 DEF TornSeal
    <2>10. FileNo(g) \in DOMAIN out'[g] /\ IsPrefix(open[g].names, out'[g][FileNo(g)].data)
        BY <2>3, <2>4, <2>7
    <2>11. QED
        BY <1>1, <1>2, <2>2, <2>7, <2>8, <2>9, <2>10, KilledKeepsDisk
<1>9. QED
    BY <1>1, <1>5, <1>6, <1>7, <1>8 DEF Debris

LEMMA StoredInit ==
    ASSUME Init
    PROVE  Stored /\ Placed /\ OnDisk
<1> USE DEF Init, Fresh
<1>1. Filed
    <2>1. NoFile \in [is : BOOLEAN, names : Names] /\ NoFile.names = <<>>
        BY DEF NoFile, Names
    <2>2. [g \in Groups |-> <<>>] \in [Groups -> Seq(Names)]
        OBVIOUS
    <2>3. QED
        BY <2>1, <2>2 DEF Filed
<1>2. home \in [Tensors -> Shards] /\ [g \in Groups |-> <<>>] \in [Groups -> Seq(Files)]
    BY ConverterAssumption DEF ConverterAssumption
<1>3. Stored
    BY <1>1, <1>2 DEF Stored, Groups, Idle
<1>4. Placed
    BY DEF Placed
<1>5. \A g \in Groups : out[g] = <<>> /\ sealed[g] = <<>> /\ ~open[g].is
    BY DEF NoFile
<1>6. \A g \in Groups : Kept(g) /\ Synced(g) /\ Headed(g)
    BY <1>5 DEF Kept, Synced, Headed
<1>7. OnDisk
    BY <1>5, <1>6 DEF OnDisk, Made, Begun
<1>8. QED
    BY <1>3, <1>4, <1>7

\* A slab that shard s has a part of, and not all.
LEMMA SplitIs ==
    ASSUME NEW s, NEW k \in Split(s)
    PROVE  k \in Slabs /\ Members(k) # {} /\ \A u : ShardsOf(k) # {u}
BY DEF Split, ShardsOf

LEMMA StepKeepsFiled ==
    ASSUME Filed, phase \in Groups, Step,
           io = "seal" => cpc = "seal" \/ Todo # {}
    PROVE  Filed'
<1>1. CASE Validate
    <2>1. CASE Trusted(phase) /\ open[phase].is /\ Adopted(phase)
        <3>1. Seal(phase)
            BY <1>1, <2>1 DEF Validate
        <3>2. QED
            BY <3>1, SealKeepsShape DEF Filed
    <2>2. CASE ~(Trusted(phase) /\ open[phase].is /\ Adopted(phase))
        BY <1>1, <2>2 DEF Validate, state, Filed
    <2>3. QED
        BY <2>1, <2>2
<1>2. CASE SealSave
    <2>1. Stream \in Groups /\ Seal(Stream)
        BY <1>2, StreamIsOne DEF SealSave
    <2>2. QED
        BY <2>1, SealKeepsShape DEF Filed
<1>3. CASE CreateSave
    <2>1. <<>> \in Names
        BY DEF Names
    <2>2. QED
        BY <1>3, <2>1 DEF CreateSave, Filed
<1>4. CASE AppendTensor
    <2>1. Upcoming \in Tensors /\ Stream \in Groups /\ open[Stream].is
        BY <1>4, NextMissing, StreamIsOne DEF AppendTensor, Copying, Appending
    <2>2. Append(open[Stream].names, Upcoming) \in Names
        BY <2>1 DEF Names, Filed
    <2>3. open' = [open EXCEPT ![Stream].names = Append(@, Upcoming)] /\ sealed' = sealed
        BY <1>4 DEF AppendTensor
    <2>4. QED
        BY <2>1, <2>2, <2>3 DEF Filed
<1>5. CASE UNCHANGED <<open, sealed>>
    BY <1>5 DEF Filed
<1>6. QED
    BY <1>1, <1>2, <1>3, <1>4, <1>5 DEF Step, Load, NextShard, DeferSlabs, SealHeader, CreateFile,
           Advance, ResolveSlab, Resolved, RecordDone, Finalize, PublishManifest,
           PublishIndex, RecordComplete, state

LEMMA StepKeepsStored ==
    ASSUME Stored, Placed, OnDisk, Step, out' \in [Groups -> Seq(Files)]
    PROVE  Stored'
<1>1. \A k : Members(k)' = Members(k)
    BY DEF Members
<1>2. UNCHANGED <<home, src>> /\ job' = job
    BY DEF Step, Load, Validate, NextShard, DeferSlabs, SealHeader, SealSave, CreateFile,
           CreateSave, AppendTensor, Advance, ResolveSlab, Resolved, RecordDone, Finalize,
           PublishManifest, PublishIndex, RecordComplete, process
<1>3. \A k : ShardsOf(k)' = ShardsOf(k)
    BY <1>2, LayoutFixed
<1>4. /\ \A k \in pending' : Members(k) # {} /\ \A s : ShardsOf(k) # {s}
      /\ pending' \subseteq Slabs
    <2>1. pending' \subseteq pending \cup Split(cur)
        BY DEF Step, Load, Validate, NextShard, DeferSlabs, SealHeader, SealSave, CreateFile,
               CreateSave, AppendTensor, Advance, ResolveSlab, Resolved, RecordDone, Finalize,
               PublishManifest, PublishIndex, RecordComplete, state, Seal
    <2>2. QED
        BY <2>1, SplitIs DEF Stored
<1>5. done' \subseteq Shards
    <2>1. done' = done \/ RecordDone
        BY DEF Step, Load, Validate, NextShard, DeferSlabs, SealHeader, SealSave, CreateFile,
               CreateSave, AppendTensor, Advance, ResolveSlab, Resolved, Finalize,
               PublishManifest, PublishIndex, RecordComplete, state, Seal
    <2>2. QED
        BY <2>1 DEF RecordDone, Stored, Placed
<1>6. saved' \in BOOLEAN
    BY DEF Stored, Step, Load, Validate, NextShard, DeferSlabs, SealHeader, SealSave, CreateFile,
           CreateSave, AppendTensor, Advance, ResolveSlab, Resolved, RecordDone, Finalize,
           PublishManifest, PublishIndex, RecordComplete, state, Seal
<1>7. phase' \in Groups
    BY DEF Stored, Groups, Step, Load, Validate, NextShard, DeferSlabs, SealHeader, SealSave,
           CreateFile, CreateSave, AppendTensor, Advance, ResolveSlab, Resolved, RecordDone,
           Finalize, PublishManifest, PublishIndex, RecordComplete, process
<1>8. io' \in {"none", "seal", "create"}
    BY DEF Stored, Step, Load, Validate, NextShard, DeferSlabs, SealHeader, SealSave,
           CreateFile, CreateSave, AppendTensor, Advance, ResolveSlab, Resolved, RecordDone,
           Finalize, PublishManifest, PublishIndex, RecordComplete, process
<1>9. Filed'
    BY StepKeepsFiled DEF Stored, Placed
<1>10. QED
    BY <1>1, <1>2, <1>3, <1>4, <1>5, <1>6, <1>7, <1>8, <1>9 DEF Stored

LEMMA StepKeepsPlaced ==
    ASSUME Stored, Placed, Step
    PROVE  Placed'
<1>1. CASE Load \/ Validate \/ Resolved \/ RecordDone \/ Finalize \/ PublishManifest
           \/ PublishIndex \/ RecordComplete
    <2>1. io = "none"
        BY <1>1 DEF Placed, Stored, Load, Validate, Resolved, RecordDone, Finalize, PublishManifest,
                    PublishIndex, RecordComplete
    <2>2. QED
        BY <1>1, <2>1 DEF Placed, Load, Validate, Resolved, RecordDone, Finalize,
               PublishManifest, PublishIndex, RecordComplete, process, state
<1>2. CASE NextShard
    <2>1. Left # {} => Min(Left) \in Left
        <3>1. Left \in SUBSET Nat
            BY ConverterAssumption DEF ConverterAssumption, Left, Stored
        <3>2. QED
            BY <3>1, MinIs
    <2>2. QED
        BY <1>2, <2>1 DEF NextShard, Placed, Left, state
<1>3. CASE DeferSlabs \/ Advance \/ ResolveSlab
    <2>1. io = "none" /\ io' = "none" /\ UNCHANGED <<cur, job, done>>
        BY <1>3 DEF DeferSlabs, Advance, ResolveSlab, Placed, state, Stored
    <2>2. cpc \in {"defer", "write", "resolve", "record"}
        BY <1>3 DEF DeferSlabs, Advance, ResolveSlab
    <2>3. QED
        BY <2>1, <2>2 DEF Placed
<1>4. CASE SealHeader \/ CreateFile
    <2>1. Todo' = Todo /\ Stream' = Stream
        BY <1>4, StreamFixed DEF SealHeader, CreateFile, state
    <2>2. UNCHANGED <<open, done, cpc, cur, job>>
        BY <1>4 DEF SealHeader, CreateFile, state
    <2>3. CASE SealHeader
        <3>1. io' = "seal" /\ cpc \in {"write", "resolve", "seal"}
              /\ (cpc = "seal" \/ Todo # {}) /\ open[Stream].is
            BY <2>3 DEF SealHeader, Sealing, Appending, Full, Stream, Groups
        <3>2. QED
            BY <2>1, <2>2, <3>1 DEF Placed
    <2>4. CASE CreateFile
        <3>1. io' = "create" /\ cpc \in {"write", "resolve"} /\ Todo # {} /\ ~open[Stream].is
            BY <2>4 DEF CreateFile, Creating, Appending
        <3>2. QED
            BY <2>1, <2>2, <3>1 DEF Placed
    <2>5. QED
        BY <1>4, <2>3, <2>4
<1>5. CASE SealSave \/ CreateSave \/ AppendTensor
    <2>1. io' = "none" /\ UNCHANGED <<cpc, cur, job, done>>
        BY <1>5 DEF SealSave, CreateSave, AppendTensor, Copying, Appending, process, Seal
    <2>2. QED
        BY <2>1 DEF Placed
<1>6. QED
    BY <1>1, <1>2, <1>3, <1>4, <1>5 DEF Step

LEMMA StepKeepsOutput ==
    ASSUME Stored, Placed, OnDisk, Step
    PROVE  OnDisk' /\ out' \in [Groups -> Seq(Files)]
<1>1. CASE Validate
    BY <1>1, ValidateKeepsDisk
<1>2. CASE SealHeader
    BY <1>2, SealHeaderKeepsDisk
<1>3. CASE CreateFile
    BY <1>3, CreateFileKeepsDisk
<1>4. CASE CreateSave
    BY <1>4, CreateSaveKeepsDisk DEF CreateSave, Stored
<1>5. CASE AppendTensor
    BY <1>5, AppendKeepsDisk
<1>6. CASE SealSave
    <2>1. PICK g \in Groups : g = Stream
        BY <1>6, StreamIsOne DEF SealSave, Placed
    <2>2. Seal(g) /\ open[g].is /\ io = "seal" /\ io' = "none" /\ hit' = hit
          /\ UNCHANGED <<out, cpc, phase>> /\ cpc \in {"write", "resolve", "seal"}
        BY <1>6, <2>1 DEF SealSave, Placed, history
    <2>3. \A i \in Groups \ {g} : HeaderNow(i) = Placeholder
        BY <2>1 DEF HeaderNow
    <2>4. out'[g][FileNo(g)] = [header |-> SealedHeader(open[g].names), data |-> open[g].names]
        <3>1. Synced(g) /\ Past(g) /\ HeaderNow(g) = SealedHeader(open[g].names)
            BY <2>1, <2>2 DEF OnDisk, Past, HeaderNow
        <3>2. QED
            BY <2>2, <3>1 DEF Synced, OpenFile
    <2>5. /\ out' \in [Groups -> Seq(Files)]
          /\ \A i \in Groups : DOMAIN out'[i] = DOMAIN out[i]
          /\ \A i \in DOMAIN sealed[g] : out'[g][i] = out[g][i]
          /\ \A i \in Groups \ {g} : out'[i] = out[i]
          /\ \A i \in Groups \ {g} : Past(i)' => Past(i)
        BY <2>2 DEF Stored, Past
    <2>6. QED
        BY <2>2, <2>3, <2>4, <2>5, SealKeepsDisk
<1>7. CASE Load \/ NextShard \/ DeferSlabs \/ Advance \/ ResolveSlab \/ Resolved \/ RecordDone
           \/ Finalize \/ PublishManifest \/ PublishIndex \/ RecordComplete
    <2> USE DEF Load, NextShard, DeferSlabs, Advance, ResolveSlab, Resolved, RecordDone,
                Finalize, PublishManifest, PublishIndex, RecordComplete
    <2>1. UNCHANGED <<out, open, sealed, hit>>
        BY <1>7 DEF state, history
    <2>2. io = "none" /\ io' = "none"
        BY <1>7 DEF Placed, Stored, process
    <2>3. saved => saved'
        BY <1>7 DEF Stored
    <2>4. \A g \in Groups : Past(g)' => Past(g)
        BY <1>7 DEF Past, process
    <2>5. QED
        BY <2>1, <2>2, <2>3, <2>4, QuietKeepsDisk DEF Stored
<1>8. QED
    BY <1>1, <1>2, <1>3, <1>4, <1>5, <1>6, <1>7 DEF Step

StoreInv == Stored /\ Placed /\ OnDisk

LEMMA CrashKeepsStore ==
    ASSUME Stored, Placed, OnDisk, Crash
    PROVE  StoreInv'
<1>1. OnDisk' /\ out' \in [Groups -> Seq(Files)]
    BY CrashKeepsOutput
<1>2. /\ UNCHANGED <<home, src, saved, done, open, sealed, pending>>
      /\ cpc' = "off" /\ job' = Idle /\ phase' = "main" /\ io' = "none"
    BY DEF Crash, Killed, state
<1>3. Stored'
    <2>1. \A k : Members(k)' = Members(k) /\ ShardsOf(k)' = ShardsOf(k)
        BY <1>2, LayoutFixed DEF Members
    <2>2. Filed'
        BY <1>2 DEF Filed, Stored
    <2>3. QED
        BY <1>1, <1>2, <2>1, <2>2 DEF Stored, Groups, Idle
<1>4. Placed'
    BY <1>2 DEF Placed
<1>5. QED
    BY <1>1, <1>3, <1>4 DEF StoreInv

LEMMA StartKeepsStore ==
    ASSUME Stored, Placed, OnDisk, NEW shards \in Jobs, Start(shards)
    PROVE  StoreInv'
<1>1. /\ UNCHANGED <<home, src, out, saved, done, open, sealed, pending, phase, io>>
      /\ cpc \notin {"write", "resolve", "seal"} /\ cpc' = "load" /\ job'.shards = shards
      /\ hit \subseteq hit'
    BY DEF Start, state
<1>2. io = "none"
    BY <1>1 DEF Stored, Placed
<1>3. Stored'
    <2>1. \A k : Members(k)' = Members(k) /\ ShardsOf(k)' = ShardsOf(k)
        BY <1>1, LayoutFixed DEF Members
    <2>2. Filed'
        BY <1>1 DEF Filed, Stored
    <2>3. shards \subseteq Shards
        BY ConverterAssumption DEF ConverterAssumption
    <2>4. QED
        BY <1>1, <2>1, <2>2, <2>3 DEF Stored
<1>4. Placed'
    BY <1>1, <1>2 DEF Placed
<1>5. OnDisk'
    BY <1>1, <1>2, QuietKeepsDisk DEF Past
<1>6. QED
    BY <1>3, <1>4, <1>5 DEF StoreInv

LEMMA StoreNext ==
    ASSUME StoreInv, [Next]_vars
    PROVE  StoreInv'
<1>1. CASE Step
    BY <1>1, StepKeepsOutput, StepKeepsStored, StepKeepsPlaced DEF StoreInv
<1>2. CASE Crash
    BY <1>2, CrashKeepsStore DEF StoreInv
<1>3. ASSUME NEW shards \in Jobs, Start(shards)
      PROVE  StoreInv'
    BY <1>3, StartKeepsStore DEF StoreInv
<1>4. CASE UNCHANGED vars
    <2>1. UNCHANGED <<home, src, out, saved, done, open, sealed, pending, phase, io, cpc, cur, job, hit>>
        BY <1>4 DEF vars, state, process, history
    <2>2. Todo' = Todo /\ Stream' = Stream
        BY <2>1, StreamFixed
    <2>3. Placed'
        BY <2>1, <2>2 DEF Placed, StoreInv
    <2>4. \A k : Members(k)' = Members(k) /\ ShardsOf(k)' = ShardsOf(k)
        BY <2>1, LayoutFixed DEF Members
    <2>5. Filed'
        BY <2>1 DEF Filed, StoreInv, Stored
    <2>6. Stored'
        BY <2>1, <2>4, <2>5 DEF Stored, StoreInv
    <2>7. \A g \in Groups : Kept(g)' /\ Synced(g)' /\ Headed(g)'
        <3>1. ASSUME NEW g \in Groups
              PROVE  Kept(g)' /\ Synced(g)' /\ Headed(g)'
            <4>1. HeaderNow(g)' = HeaderNow(g) /\ Past(g)' = Past(g)
                BY <2>1, <2>2 DEF HeaderNow, Past
            <4>2. UNCHANGED <<out[g], open[g], sealed[g]>>
                BY <2>1
            <4>3. QED
                BY <2>1, <4>1, <4>2, OthersStay DEF StoreInv, OnDisk
        <3>2. QED
            BY <3>1
    <2>8. Made'
        <3>1. OpenFile(Stream)' = OpenFile(Stream) /\ FileNo(Stream)' = FileNo(Stream)
              /\ DOMAIN out'[Stream'] = DOMAIN out[Stream]
            BY <2>1, <2>2 DEF OpenFile, FileNo
        <3>2. QED
            BY <2>1, <3>1 DEF Made, StoreInv, OnDisk
    <2>9. Begun'
        BY <2>1 DEF StoreInv, OnDisk, Begun
    <2>10. QED
        BY <2>3, <2>6, <2>7, <2>8, <2>9 DEF StoreInv, OnDisk
<1>5. QED
    BY <1>1, <1>2, <1>3, <1>4 DEF Next

\* Whatever the state file records is in the output files, at every step of a
\* conversion and after a kill at any step: a step that saves the state comes
\* after the fsync of what it records.
THEOREM StoreInvariant == Spec => []StoreInv
<1>1. Init => StoreInv
    BY StoredInit DEF StoreInv
<1>2. StoreInv /\ [Next]_vars => StoreInv'
    BY StoreNext
<1>3. QED
    BY <1>1, <1>2, PTL DEF Spec

\* A sealed file is on the disk with its final header and its data, and the
\* open file starts with the tensors that the state file counts: what
\* validate_and_repair asks for before it cuts a tail.
THEOREM RecordsAreOnDisk == Spec => []RecordedIsOnDisk
<1>1. StoreInv => RecordedIsOnDisk
    BY DEF StoreInv, OnDisk, Kept, OpenFile, RecordedIsOnDisk
<1>2. QED
    BY <1>1, StoreInvariant, PTL

----------------------------------------------------------------------------
\* No name twice (WrittenOnce), however often a shard is converted again.

\* The names of stream g in the order in which they were written.
NamesOf(g) == FlattenSeq(sealed[g]) \o open[g].names

LEMMA AppendOnce ==
    ASSUME NEW s \in Seq(Tensors), NEW t \in Tensors, t \notin Range(s), IsInjective(s)
    PROVE  IsInjective(Append(s, t))
<1>1. /\ DOMAIN Append(s, t) = DOMAIN s \cup {Len(s) + 1}
      /\ \A i \in DOMAIN s : Append(s, t)[i] = s[i] /\ s[i] # t
      /\ Append(s, t)[Len(s) + 1] = t
    <2>1. \A i \in DOMAIN s : s[i] # t
        BY DEF Range
    <2>2. QED
        BY <2>1
<1>2. \A a, b \in DOMAIN s : s[a] = s[b] => a = b
    BY DEF IsInjective
<1> DEFINE u == Append(s, t)
<1> HIDE DEF u
<1>3. ASSUME NEW a \in DOMAIN u, NEW b \in DOMAIN u, u[a] = u[b]
      PROVE  a = b
    <2>1. CASE a \in DOMAIN s /\ b \in DOMAIN s
        BY <1>1, <1>2, <1>3, <2>1 DEF u
    <2>2. CASE a \notin DOMAIN s \/ b \notin DOMAIN s
        BY <1>1, <1>3, <2>2 DEF u
    <2>3. QED
        BY <2>1, <2>2
<1>4. QED
    BY <1>3 DEF IsInjective, u

LEMMA PushEnd ==
    ASSUME NEW f \in Seq(Tensors), NEW n \in Seq(Tensors), NEW t \in Tensors
    PROVE  f \o Append(n, t) = Append(f \o n, t)
OBVIOUS

\* What stream g has is what the state records of it.
LEMMA NamesAre ==
    ASSUME Filed, NEW g \in Groups
    PROVE  /\ FlattenSeq(sealed[g]) \in Seq(Tensors) /\ open[g].names \in Seq(Tensors)
           /\ NamesOf(g) \in Seq(Tensors) /\ Range(NamesOf(g)) = Committed(g)
<1>1. sealed[g] \in Seq(Seq(Tensors)) /\ open[g].names \in Seq(Tensors) /\ <<>> \in Seq(Tensors)
    BY DEF Filed, Names
<1>2. /\ FlattenSeq(sealed[g]) \in Seq(Tensors)
      /\ Range(FlattenSeq(sealed[g])) = UNION {Range(sealed[g][i]) : i \in DOMAIN sealed[g]}
    BY <1>1, Flattening
<1>3. Range(NamesOf(g)) = Range(FlattenSeq(sealed[g])) \cup Range(open[g].names)
    BY <1>1, <1>2, RangeConcatenation DEF NamesOf
<1>4. \A s : Range(s) = ToSet(s)
    BY DEF Range, ToSet
<1>5. {Range(sealed[g][i]) : i \in DOMAIN sealed[g]} = {ToSet(sealed[g][i]) : i \in DOMAIN sealed[g]}
    BY <1>4
<1>6. NamesOf(g) \in Seq(Tensors)
    BY <1>1, <1>2 DEF NamesOf
<1>7. QED
    BY <1>1, <1>2, <1>3, <1>4, <1>5, <1>6 DEF Committed

LEMMA SealKeepsNames ==
    ASSUME Filed, NEW g \in Groups, Seal(g)
    PROVE  \A i \in Groups : NamesOf(i)' = NamesOf(i)
<1>1. /\ sealed' = [sealed EXCEPT ![g] = Append(@, open[g].names)]
      /\ open' = [open EXCEPT ![g] = NoFile]
    BY DEF Seal
<1>2. ASSUME NEW i \in Groups, i # g
      PROVE  NamesOf(i)' = NamesOf(i)
    BY <1>1, <1>2 DEF NamesOf, Filed
<1>3. NamesOf(g)' = NamesOf(g)
    <2>1. sealed[g] \in Seq(Seq(Tensors)) /\ open[g].names \in Seq(Tensors)
        BY DEF Filed, Names
    <2>2. FlattenSeq(Append(sealed[g], open[g].names)) = FlattenSeq(sealed[g]) \o open[g].names
          /\ FlattenSeq(sealed[g]) \in Seq(Tensors)
        BY <2>1, Flattening
    <2>3. sealed'[g] = Append(sealed[g], open[g].names) /\ open'[g].names = <<>>
        BY <1>1 DEF Filed, NoFile
    <2>4. FlattenSeq(sealed[g]) \o open[g].names \in Seq(Tensors)
        BY <2>1, <2>2
    <2>5. (FlattenSeq(sealed[g]) \o open[g].names) \o <<>> = FlattenSeq(sealed[g]) \o open[g].names
        BY <2>4
    <2>6. QED
        BY <2>2, <2>3, <2>5 DEF NamesOf
<1>4. QED
    BY <1>2, <1>3

\* No name is in stream g twice, and each belongs there.
Once(g) == IsInjective(NamesOf(g)) /\ \A i \in DOMAIN NamesOf(g) : GroupOf[NamesOf(g)[i]] = g

LEMMA AppendKeepsOnce ==
    ASSUME Stored, Placed, \A g \in Groups : Once(g), AppendTensor
    PROVE  \A g \in Groups : Once(g)'
<1>1. PICK g \in Groups : g = Stream
    BY StreamIsOne DEF AppendTensor, Copying, Appending
<1>2. PICK t \in Tensors : t = Upcoming
    BY NextMissing DEF AppendTensor, Copying, Appending
<1>3. t \notin Written /\ GroupOf[t] = g
    BY <1>1, <1>2, NextMissing DEF AppendTensor, Copying, Appending, Missing, Stream
<1>4. open' = [open EXCEPT ![g].names = Append(@, t)] /\ sealed' = sealed
    BY <1>1, <1>2 DEF AppendTensor
<1>5. ASSUME NEW i \in Groups, i # g
      PROVE  Once(i)'
    <2>1. NamesOf(i)' = NamesOf(i)
        BY <1>4, <1>5 DEF NamesOf, Stored, Filed
    <2>2. QED
        BY <2>1 DEF Once
<1>6. Once(g)'
    <2>1. /\ FlattenSeq(sealed[g]) \in Seq(Tensors) /\ open[g].names \in Seq(Tensors)
          /\ NamesOf(g) \in Seq(Tensors) /\ Range(NamesOf(g)) = Committed(g)
        BY NamesAre DEF Stored
    <2>2. open'[g].names = Append(open[g].names, t)
        BY <1>4 DEF Stored, Filed
    <2>3. NamesOf(g)' = Append(NamesOf(g), t)
        <3>1. NamesOf(g)' = FlattenSeq(sealed[g]) \o Append(open[g].names, t)
            BY <1>4, <2>2 DEF NamesOf
        <3> DEFINE F == FlattenSeq(sealed[g])
                   N == open[g].names
        <3>2. F \in Seq(Tensors) /\ N \in Seq(Tensors)
            BY <2>1
        <3> HIDE DEF F, N
        <3>3. F \o Append(N, t) = Append(F \o N, t)
            BY <3>2, PushEnd
        <3>4. QED
            BY <3>1, <3>3 DEF NamesOf, F, N
    <2>4. t \notin Range(NamesOf(g))
        BY <1>3, <2>1 DEF Written
    <2>5. IsInjective(Append(NamesOf(g), t))
        BY <2>1, <2>4, AppendOnce DEF Once
    <2>6. \A i \in DOMAIN Append(NamesOf(g), t) : GroupOf[Append(NamesOf(g), t)[i]] = g
        <3>1. PICK s \in Seq(Tensors) : s = NamesOf(g)
            BY <2>1
        <3>2. \A i \in DOMAIN s : GroupOf[s[i]] = g
            BY <3>1 DEF Once
        <3>3. \A i \in DOMAIN Append(s, t) : Append(s, t)[i] = t \/ (i \in DOMAIN s /\ Append(s, t)[i] = s[i])
            OBVIOUS
        <3>4. QED
            BY <1>3, <3>1, <3>2, <3>3
    <2>7. QED
        BY <2>3, <2>5, <2>6 DEF Once
<1>7. QED
    BY <1>5, <1>6

LEMMA OnceNext ==
    ASSUME StoreInv, \A g \in Groups : Once(g), [Next]_vars
    PROVE  \A g \in Groups : Once(g)'
<1> USE DEF StoreInv
<1>1. CASE UNCHANGED <<open, sealed>>
    BY <1>1 DEF Once, NamesOf
<1>2. CASE Validate /\ ~UNCHANGED <<open, sealed>>
    <2>1. Seal(phase) /\ phase \in Groups
        BY <1>2 DEF Validate, state, Stored
    <2>2. \A i \in Groups : NamesOf(i)' = NamesOf(i)
        BY <2>1, SealKeepsNames DEF Stored
    <2>3. QED
        BY <2>2 DEF Once
<1>3. CASE SealSave
    <2>1. Seal(Stream) /\ Stream \in Groups
        BY <1>3, StreamIsOne DEF SealSave, Placed
    <2>2. \A i \in Groups : NamesOf(i)' = NamesOf(i)
        BY <2>1, SealKeepsNames DEF Stored
    <2>3. QED
        BY <2>2 DEF Once
<1>4. CASE CreateSave
    <2>1. Todo # {} /\ cpc # "seal" /\ ~open[Stream].is
        BY <1>4 DEF CreateSave, Placed
    <2>2. PICK g \in Groups : g = Stream
        BY <2>1, StreamIsOne
    <2>3. open' = [open EXCEPT ![g] = [is |-> TRUE, names |-> <<>>]] /\ sealed' = sealed
          /\ open[g].names = <<>>
        BY <1>4, <2>1, <2>2 DEF CreateSave, Stream, Stored, Filed
    <2>4. \A i \in Groups : open'[i].names = open[i].names
        BY <2>3 DEF Stored, Filed
    <2>5. \A i \in Groups : NamesOf(i)' = NamesOf(i)
        BY <2>3, <2>4 DEF NamesOf
    <2>6. QED
        BY <2>5 DEF Once
<1>5. CASE AppendTensor
    BY <1>5, AppendKeepsOnce
<1>6. QED
    BY <1>1, <1>2, <1>3, <1>4, <1>5 DEF Next, Step, Load, NextShard, DeferSlabs, SealHeader, CreateFile,
           Advance, ResolveSlab, Resolved, RecordDone, Finalize, PublishManifest,
           PublishIndex, RecordComplete, state, Crash, Killed, Start, vars

LEMMA OnceInit ==
    ASSUME Init, NEW g \in Groups
    PROVE  Once(g)
<1>1. sealed[g] = <<>> /\ open[g].names = <<>>
    BY DEF Init, Fresh, NoFile
<1>2. FlattenSeq(<<>>) = <<>>
    BY DEF FlattenSeq
<1>3. NamesOf(g) = <<>>
    BY <1>1, <1>2 DEF NamesOf
<1>4. QED
    BY <1>3 DEF Once, IsInjective

OnceInv == StoreInv /\ \A g \in Groups : Once(g)

\* What plan_contribution takes as committed is what was written, in this run or
\* before a kill, so a name that has been appended is never appended again.
THEOREM OnceInvariant == Spec => []OnceInv
<1>1. Init => OnceInv
    BY OnceInit, StoredInit DEF OnceInv, StoreInv
<1>2. OnceInv /\ [Next]_vars => OnceInv'
    BY StoreNext, OnceNext DEF OnceInv
<1>3. QED
    BY <1>1, <1>2, PTL DEF Spec

\* A tensor is in the output once, and in the stream of its group, though a
\* shard is converted again after a kill and a deferred slab is met again.
THEOREM NamesAreWrittenOnce == Spec => []WrittenOnce
<1>1. OnceInv => WrittenOnce
    BY DEF OnceInv, Once, NamesOf, WrittenOnce
<1>2. QED
    BY <1>1, OnceInvariant, PTL

----------------------------------------------------------------------------
\* No slab is cut (SlabsWhole).  The members of a slab are in different shards,
\* and a kill may come between two of them: the rest of the slab must be the
\* first thing that is appended to its stream.  It is, as the shards are done
\* in their order and the tensors of one in the write order (Ordered), and a
\* slab that is not pending is whole or untouched (Settled).

\* The shard that is converted next, or now.
Now(c) == c \in Shards \ done /\ \A s \in Shards \ done : c <= s

\* What shard c adds of itself, and the slabs that it completes.
Own(t, c)       == home[t] = c /\ SlabOf[t] \notin Split(c)
Completing(k, c) == k \in Split(c) /\ ShardsOf(k) \subseteq done \cup {c}

\* What of shard c is in w is in the order of what it adds: first what it has
\* of itself, then the slabs, each in the write order.
Sorted(w, c) ==
    /\ \A i, j \in DOMAIN Order :
          /\ i < j /\ Own(Order[i], c) /\ Own(Order[j], c)
          /\ GroupOf[Order[i]] = GroupOf[Order[j]] /\ Order[j] \in w
          => Order[i] \in w
    /\ \A t \in w : Completing(SlabOf[t], c) =>
          \A u \in Tensors : Own(u, c) => u \in w
    /\ \A i, j \in DOMAIN Order :
          /\ i < j /\ Completing(SlabOf[Order[i]], c) /\ Completing(SlabOf[Order[j]], c)
          /\ Order[j] \in w
          => Order[i] \in w

Ordered ==
    /\ \A t \in Written : \A s \in Awaits(t) \ done : Now(s)
    /\ \A c \in Shards : Now(c) => Sorted(Written, c)

\* A slab that is not pending is whole, or nothing of it was seen.
Settled ==
    /\ \A k \in Slabs \ pending : ShardsOf(k) \cap done # {} => Members(k) \subseteq Written
    /\ \A k \in pending : ~(ShardsOf(k) \subseteq done)

\* How far the process is with the shard.
Reached ==
    /\ cpc = "off" \/ job.shards = Shards
    /\ cpc \in {"seal", "publish", "index", "complete"} => done = Shards
    /\ cpc \in {"defer", "write", "resolve", "record"} => Now(cur)
    /\ cpc = "write" /\ phase = "mtp" =>
          \A t \in Tensors : Own(t, cur) /\ GroupOf[t] = "main" => t \in Written
    /\ cpc \in {"resolve", "record"} => \A t \in Tensors : Own(t, cur) => t \in Written
    /\ cpc \in {"write", "resolve", "record"} =>
          \A k \in Split(cur) : k \in pending \/ Members(k) \subseteq Written
    /\ cpc = "record" => Ready = {}

\* Where the members of slab k are in a file; the file has them all in one
\* piece; the file ends with a piece of the slab, or has it all.
At(names, k) == {i \in DOMAIN names : SlabOf[names[i]] = k}
Entire(names, k) ==
    At(names, k) # {} => /\ Members(k) \subseteq Range(names)
                         /\ \E a, b \in Nat : At(names, k) = a .. b
Piece(names, k) ==
    At(names, k) # {} => \E a, b \in Nat :
        /\ At(names, k) = a .. b
        /\ Members(k) \subseteq Range(names) \/ b = Len(names)

\* A name is once in a file, and not in the open file and in a sealed one.
Apart(g) ==
    /\ IsInjective(open[g].names)
    /\ \A i \in DOMAIN sealed[g] :
          IsInjective(sealed[g][i]) /\ Range(sealed[g][i]) \cap Range(open[g].names) = {}

\* A slab is in one file of stream g, in one piece, or the open file ends with
\* what there is of it.
Whole(g) ==
    \A k \in Slabs :
        /\ \A i \in DOMAIN sealed[g] : Entire(sealed[g][i], k)
        /\ Piece(open[g].names, k)
        /\ open[g].is /\ OpenFile(g).header = SealedHeader(open[g].names) =>
               Entire(open[g].names, k)

----------------------------------------------------------------------------
\* Only one shard comes next.
LEMMA NowIsOne ==
    ASSUME NEW c, NEW d, Now(c), Now(d)
    PROVE  c = d
<1>1. c \in Nat /\ d \in Nat
    BY ConverterAssumption DEF ConverterAssumption, Now
<1>2. QED
    BY <1>1 DEF Now

\* The next tensor has the first place of those that are missing.
LEMMA UpcomingAt ==
    ASSUME Todo # {}
    PROVE  \E n \in DOMAIN Order :
               /\ Order[n] = Upcoming /\ Missing(Upcoming) /\ Upcoming \in Tensors
               /\ \A i \in DOMAIN Order : i < n => ~Missing(Order[i])
<1>1. Todo \in SUBSET Nat /\ DOMAIN Order \in SUBSET Nat
    BY ConverterAssumption DEF ConverterAssumption, Todo
<1>2. PICK n : n = Min(Todo)
    OBVIOUS
<1>3. n \in Todo /\ \A y \in Todo : n <= y
    BY <1>1, <1>2, MinIs
<1>4. n \in DOMAIN Order /\ Missing(Order[n]) /\ Order[n] = Upcoming
    BY <1>2, <1>3 DEF Todo, Upcoming
<1>5. ASSUME NEW i \in DOMAIN Order, i < n
      PROVE  ~Missing(Order[i])
    <2>1. i \notin Todo
        BY <1>1, <1>3, <1>5
    <2>2. QED
        BY <2>1 DEF Todo
<1>6. QED
    BY <1>4, <1>5, NextMissing

\* The place of a slab is that of its first member.
LEMMA PlaceIs ==
    ASSUME NEW n \in DOMAIN Order
    PROVE  LET k == SlabOf[Order[n]] IN
           /\ Place(k) \in DOMAIN Order /\ SlabOf[Order[Place(k)]] = k /\ Place(k) <= n
<1>1. PICK k : k = SlabOf[Order[n]]
    OBVIOUS
<1> DEFINE P == {i \in DOMAIN Order : SlabOf[Order[i]] = k}
<1>2. P \in SUBSET Nat /\ n \in P
    BY <1>1, ConverterAssumption DEF ConverterAssumption
<1> HIDE DEF P
<1>3. Min(P) \in P /\ Min(P) <= n
    BY <1>2, MinIs
<1>4. Place(k) = Min(P)
    BY DEF Place, P
<1>5. QED
    BY <1>1, <1>3, <1>4 DEF P

\* A shard has a part of a slab and not all of it, or all of it, or nothing.
LEMMA SplitOrOwn ==
    ASSUME home \in [Tensors -> Shards], NEW k \in Slabs, NEW s
    PROVE  /\ s \in ShardsOf(k) => ShardsOf(k) = {s} \/ k \in Split(s)
           /\ k \in Split(s) => s \in ShardsOf(k) /\ ShardsOf(k) # {s}
           /\ \A t \in Members(k) : home[t] \in ShardsOf(k) /\ t \in Tensors /\ SlabOf[t] = k
BY DEF Split, ShardsOf, Members

\* A slab between two of whose members the process stopped comes next: it is
\* completed before anything else is appended to its stream.
LEMMA Resumed ==
    ASSUME Stored, Ordered, Settled, Reached, Appending,
           NEW k \in Slabs, NEW u \in Members(k), NEW v \in Members(k),
           u \in Written, v \notin Written, GroupOf[u] = GroupOf[Upcoming]
    PROVE  SlabOf[Upcoming] = k
<1>1. cpc \in {"write", "resolve"} /\ Now(cur) /\ cur \in Shards /\ Sorted(Written, cur)
    BY DEF Appending, Reached, Now, Ordered
<1>2. /\ u \in Tensors /\ v \in Tensors /\ SlabOf[u] = k /\ SlabOf[v] = k /\ k # NoSlab
      /\ GroupOf[u] = GroupOf[v] /\ home[u] \in ShardsOf(k)
    BY ConverterAssumption DEF ConverterAssumption, Members, ShardsOf
<1>3. \A s \in ShardsOf(k) \ done : s = cur
    <2>1. Awaits(u) = ShardsOf(k)
        BY <1>2 DEF Awaits
    <2>2. QED
        BY <1>1, <2>1, NowIsOne DEF Ordered
<1>4. ~(ShardsOf(k) \subseteq done)
    BY <1>2 DEF Settled
<1>5. cur \in ShardsOf(k) /\ ShardsOf(k) \subseteq done \cup {cur}
    BY <1>3, <1>4
<1>6. PICK n \in DOMAIN Order : /\ Order[n] = Upcoming /\ Missing(Upcoming) /\ Upcoming \in Tensors
                                /\ \A l \in DOMAIN Order : l < n => ~Missing(Order[l])
    BY UpcomingAt DEF Appending
<1>7. PICK i \in DOMAIN Order : Order[i] = u
    BY <1>2, Places
<1>8. PICK j \in DOMAIN Order : Order[j] = v
    BY <1>2, Places
<1>9. n \in Nat /\ i \in Nat /\ j \in Nat /\ Upcoming \notin Written /\ n # i
    BY <1>6, <1>7, ConverterAssumption DEF ConverterAssumption, Missing
<1>10. CASE ShardsOf(k) = {cur}
    <2>1. Own(u, cur) /\ Own(v, cur)
        <3>1. k \notin Split(cur)
            BY <1>10 DEF Split
        <3>2. home[u] = cur /\ home[v] = cur
            BY <1>10 DEF ShardsOf
        <3>3. QED
            BY <1>2, <3>1, <3>2 DEF Own
    <2>2. cpc = "write"
        BY <1>1, <1>2, <2>1 DEF Reached
    <2>3. Own(Upcoming, cur) /\ GroupOf[Upcoming] = phase
        BY <1>6, <2>2 DEF Missing, Planned, Own
    <2>4. Missing(v)
        BY <1>2, <2>1, <2>2, <2>3 DEF Missing, Planned, Own
    <2>5. n <= j
        BY <1>6, <1>8, <1>9, <2>4
    <2>6. i < n
        <3>1. ~(n < i)
            BY <1>1, <1>6, <1>7, <1>9, <2>1, <2>3 DEF Sorted
        <3>2. QED
            BY <1>9, <3>1
    <2>7. CASE n = j
        BY <1>2, <1>6, <1>8, <2>7
    <2>8. CASE n < j
        BY <1>2, <1>6, <1>7, <1>8, <2>6, <2>8, MembersAreAdjacent
    <2>9. QED
        BY <1>9, <2>5, <2>7, <2>8
<1>11. CASE k \in Split(cur)
    <2>1. Completing(k, cur)
        BY <1>5, <1>11 DEF Completing
    <2>2. cpc = "resolve"
        <3>1. SUFFICES ASSUME cpc = "write" PROVE FALSE
            BY <1>1
        <3>2. Own(Upcoming, cur)
            BY <1>6, <3>1 DEF Missing, Planned, Own
        <3>3. QED
            BY <1>1, <1>2, <1>6, <1>9, <2>1, <3>2 DEF Sorted
    <2>3. k \in pending
        BY <1>11, <2>2 DEF Reached
    <2>4. k \in Ready
        BY <1>5, <2>3 DEF Ready
    <2>5. First \in Ready /\ Place(First) <= Place(k) /\ SlabOf[Upcoming] = First
        BY <1>6, <2>2, <2>4, FirstIs DEF Missing
    <2>6. SUFFICES ASSUME First # k
                   PROVE  FALSE
        BY <2>5
    <2>7. Completing(First, cur)
        <3>1. First \in pending /\ ShardsOf(First) \subseteq done \cup {cur}
            BY <2>5 DEF Ready
        <3>2. cur \in ShardsOf(First) /\ ShardsOf(First) # {cur} /\ First \in Slabs
            BY <3>1 DEF Settled, Stored
        <3>3. QED
            BY <3>1, <3>2 DEF Completing, Split
    <2>8. i < n
        <3>1. ~(n < i)
            BY <1>1, <1>2, <1>6, <1>7, <1>9, <2>1, <2>5, <2>7 DEF Sorted
        <3>2. QED
            BY <1>9, <3>1
    <2>9. PICK p \in DOMAIN Order : p = Place(First) /\ SlabOf[Order[p]] = First
        BY <1>6, <2>5, PlaceIs
    <2>10. Place(k) \in DOMAIN Order /\ Place(k) <= i
        BY <1>2, <1>7, PlaceIs
    <2>11. p < i
        <3>1. p \in Nat /\ Place(k) \in Nat /\ p # i
            BY <1>2, <1>7, <2>6, <2>9, <2>10, ConverterAssumption DEF ConverterAssumption
        <3>2. QED
            BY <1>9, <2>5, <2>9, <2>10, <3>1
    <2>12. First # NoSlab
        BY <2>5, ConverterAssumption DEF ConverterAssumption, Ready, Stored
    <2>13. QED
        BY <1>2, <1>6, <1>7, <2>5, <2>6, <2>8, <2>9, <2>11, <2>12, MembersAreAdjacent
<1>12. QED
    BY <1>5, <1>10, <1>11, SplitOrOwn DEF Stored

\* What a file holds is written.
LEMMA InFile ==
    ASSUME NEW g \in Groups
    PROVE  /\ Range(open[g].names) \subseteq Committed(g)
           /\ \A i \in DOMAIN sealed[g] : Range(sealed[g][i]) \subseteq Committed(g)
           /\ \A t \in Committed(g) :
                 t \in Range(open[g].names) \/ \E i \in DOMAIN sealed[g] : t \in Range(sealed[g][i])
           /\ Committed(g) \subseteq Written
BY DEF Committed, Written, Range, ToSet

LEMMA InStream ==
    ASSUME Filed, NEW g \in Groups, Once(g), NEW t \in Committed(g)
    PROVE  t \in Tensors /\ GroupOf[t] = g
<1>1. NamesOf(g) \in Seq(Tensors) /\ t \in Range(NamesOf(g))
    BY NamesAre
<1>2. PICK i \in DOMAIN NamesOf(g) : NamesOf(g)[i] = t
    BY <1>1 DEF Range
<1>3. QED
    BY <1>1, <1>2 DEF Once

LEMMA InSlab ==
    ASSUME NEW names \in Names, NEW k, At(names, k) # {}
    PROVE  \E u \in Members(k) : u \in Range(names)
<1>1. PICK i \in DOMAIN names : SlabOf[names[i]] = k
    BY DEF At
<1>2. names[i] \in Tensors
    BY DEF Names
<1>3. QED
    BY <1>1, <1>2 DEF Members, Range

LEMMA SlabIn ==
    ASSUME NEW names, NEW k, NEW u \in Members(k), u \in Range(names)
    PROVE  At(names, k) # {}
BY DEF At, Members, Range

\* All of a slab that is in the open file is there, once it is all written.
LEMMA AllHere ==
    ASSUME Filed, \A h \in Groups : Once(h), NEW g \in Groups, Apart(g), NEW k \in Slabs,
           \A i \in DOMAIN sealed[g] : Entire(sealed[g][i], k), Piece(open[g].names, k),
           Members(k) \subseteq Written
    PROVE  Entire(open[g].names, k)
<1>1. SUFFICES ASSUME At(open[g].names, k) # {}
               PROVE  Entire(open[g].names, k)
    BY DEF Entire
<1>2. PICK u \in Members(k) : u \in Range(open[g].names)
    BY <1>1, InSlab DEF Filed
<1>3. u \in Tensors /\ SlabOf[u] = k /\ GroupOf[u] = g
    BY <1>2, InFile, InStream DEF Members
<1>4. ASSUME NEW v \in Members(k)
      PROVE  v \in Range(open[g].names)
    <2>1. v \in Tensors /\ SlabOf[v] = k /\ GroupOf[v] = g
        BY <1>3, ConverterAssumption DEF ConverterAssumption, Members
    <2>2. PICK h \in Groups : v \in Committed(h)
        BY DEF Written
    <2>3. v \in Committed(g)
        BY <2>1, <2>2, InStream
    <2>4. ASSUME NEW i \in DOMAIN sealed[g], v \in Range(sealed[g][i])
          PROVE  FALSE
        <3>1. At(sealed[g][i], k) # {}
            BY <2>4, SlabIn
        <3>2. u \in Range(sealed[g][i])
            BY <3>1 DEF Entire
        <3>3. QED
            BY <1>2, <3>2 DEF Apart
    <2>5. QED
        BY <2>3, <2>4, InFile
<1>5. QED
    BY <1>1, <1>4 DEF Entire, Piece

\* One more name at the end of a file, of the slab that the file ends with.
LEMMA AppendPiece ==
    ASSUME NEW names \in Names, NEW t \in Tensors, t \notin Range(names), NEW k,
           Piece(names, k),
           SlabOf[t] # k => At(names, k) = {} \/ Members(k) \subseteq Range(names)
    PROVE  Piece(Append(names, t), k)
<1> DEFINE l == Append(names, t)
           n == Len(names)
<1>1. /\ n \in Nat /\ Len(l) = n + 1 /\ DOMAIN l = 1 .. n + 1 /\ l[n + 1] = t
      /\ DOMAIN names = 1 .. n /\ \A i \in 1 .. n : l[i] = names[i]
    BY DEF Names
<1>2. Range(names) \subseteq Range(l)
    BY <1>1 DEF Range
<1> HIDE DEF l, n
<1>3. CASE SlabOf[t] # k
    <2>1. At(l, k) = At(names, k)
        BY <1>1, <1>3 DEF At
    <2>2. QED
        BY <1>2, <1>3, <2>1 DEF Piece, l
<1>4. CASE SlabOf[t] = k
    <2>1. At(l, k) = At(names, k) \cup {n + 1}
        BY <1>1, <1>4 DEF At
    <2>2. CASE At(names, k) = {}
        <3>1. At(l, k) = n + 1 .. n + 1 /\ n + 1 \in Nat
            BY <1>1, <2>1, <2>2
        <3>2. QED
            BY <1>1, <3>1 DEF Piece, l
    <2>3. CASE At(names, k) # {}
        <3>1. PICK a \in Nat, b \in Nat : At(names, k) = a .. b /\ b = n
            <4>1. ~(Members(k) \subseteq Range(names))
                BY <1>4 DEF Members
            <4>2. QED
                BY <2>3, <4>1 DEF Piece, n
        <3>2. a <= n
            BY <2>3, <3>1
        <3>3. At(l, k) = a .. n + 1 /\ n + 1 \in Nat
            BY <1>1, <2>1, <3>1, <3>2
        <3>4. QED
            BY <1>1, <3>3 DEF Piece, l
    <2>4. QED
        BY <2>2, <2>3
<1>5. QED
    BY <1>3, <1>4

LEMMA IntervalEnds ==
    ASSUME NEW a \in Nat, NEW b \in Nat, a <= b
    PROVE  Max(a .. b) = b /\ Min(a .. b) = a
<1>1. b \in a .. b /\ a \in a .. b /\ \A x \in a .. b : a <= x /\ x <= b /\ x \in Nat
    OBVIOUS
<1>2. Max(a .. b) \in a .. b /\ \A y \in a .. b : Max(a .. b) >= y
    BY <1>1 DEF Max
<1>3. Min(a .. b) \in a .. b /\ \A y \in a .. b : Min(a .. b) <= y
    BY <1>1 DEF Min
<1>4. QED
    BY <1>1, <1>2, <1>3

LEMMA IntervalSize ==
    ASSUME NEW a \in Nat, NEW b \in Nat, a <= b
    PROVE  IsFiniteSet(a .. b) /\ Cardinality(a .. b) = b - a + 1
BY FS_Interval

\* A slab that a file has in one piece passes the check of build_manifest.
LEMMA EntireIsContiguous ==
    ASSUME NEW names \in Names, IsInjective(names), NEW k, Entire(names, k)
    PROVE  Contiguous(names, k)
<1>1. SUFFICES ASSUME At(names, k) # {}
               PROVE  /\ Cardinality(At(names, k)) = Cardinality(Members(k))
                      /\ Max(At(names, k)) - Min(At(names, k)) + 1 = Cardinality(At(names, k))
    BY DEF Contiguous, At
<1>2. PICK a \in Nat, b \in Nat : At(names, k) = a .. b
    BY <1>1 DEF Entire
<1>3. Members(k) \subseteq Range(names)
    BY <1>1 DEF Entire
<1>4. a <= b
    BY <1>1, <1>2
<1>5. IsFiniteSet(At(names, k)) /\ Cardinality(At(names, k)) = b - a + 1
    BY <1>2, <1>4, IntervalSize
<1>6. Cardinality(At(names, k)) = Cardinality(Members(k))
    <2> DEFINE f == [i \in At(names, k) |-> names[i]]
    <2>1. \A i \in At(names, k) : i \in DOMAIN names /\ names[i] \in Members(k)
        BY DEF At, Members, Names
    <2>2. f \in [At(names, k) -> Members(k)]
        BY <2>1
    <2>3. ASSUME NEW i \in At(names, k), NEW j \in At(names, k), f[i] = f[j]
          PROVE  i = j
        BY <2>1, <2>3 DEF IsInjective
    <2>4. ASSUME NEW v \in Members(k)
          PROVE  \E i \in At(names, k) : f[i] = v
        <3>1. PICK i \in DOMAIN names : names[i] = v
            BY <1>3 DEF Range
        <3>2. i \in At(names, k)
            BY <3>1 DEF At, Members
        <3>3. QED
            BY <3>1, <3>2
    <2> HIDE DEF f
    <2>5. f \in Bijection(At(names, k), Members(k))
        BY <2>2, <2>3, <2>4 DEF Bijection, Injection, Surjection, IsInjective
    <2>6. ExistsBijection(At(names, k), Members(k))
        BY <2>5 DEF ExistsBijection
    <2>7. QED
        BY <1>5, <2>6, FS_Bijection
<1>7. QED
    BY <1>2, <1>4, <1>5, <1>6, IntervalEnds

LEMMA SealKeepsApart ==
    ASSUME Filed, NEW g \in Groups, Seal(g), \A i \in Groups : Apart(i)
    PROVE  \A i \in Groups : Apart(i)'
<1> DEFINE S == sealed[g]
           N == open[g].names
<1>1. S \in Seq(Names) /\ N \in Names
    BY DEF Filed
<1>2. /\ sealed' = [sealed EXCEPT ![g] = Append(S, N)]
      /\ open' = [open EXCEPT ![g] = NoFile]
    BY DEF Seal
<1>3. /\ sealed'[g] = Append(S, N) /\ open'[g].names = <<>>
      /\ \A h \in Groups \ {g} : sealed'[h] = sealed[h] /\ open'[h] = open[h]
    BY <1>2 DEF Filed, NoFile
<1> HIDE DEF S, N
<1>4. /\ DOMAIN Append(S, N) = DOMAIN S \cup {Len(S) + 1}
      /\ \A i \in DOMAIN S : Append(S, N)[i] = S[i]
      /\ Append(S, N)[Len(S) + 1] = N
    BY <1>1
<1>5. IsInjective(<<>>) /\ Range(<<>>) = {}
    BY DEF IsInjective, Range
<1>6. Apart(g)'
    <2>1. IsInjective(N) /\ \A i \in DOMAIN S : IsInjective(S[i])
        BY DEF Apart, S, N
    <2>2. \A i \in DOMAIN Append(S, N) : IsInjective(Append(S, N)[i])
        BY <1>4, <2>1
    <2>3. QED
        BY <1>3, <1>5, <2>2 DEF Apart
<1>7. ASSUME NEW i \in Groups, i # g
      PROVE  Apart(i)'
    BY <1>3, <1>7 DEF Apart
<1>8. QED
    BY <1>6, <1>7

LEMMA AppendKeepsApart ==
    ASSUME Filed, NEW g \in Groups, NEW t \in Tensors, t \notin Written,
           open' = [open EXCEPT ![g].names = Append(@, t)], sealed' = sealed,
           \A i \in Groups : Apart(i)
    PROVE  \A i \in Groups : Apart(i)'
<1>1. /\ open'[g].names = Append(open[g].names, t) /\ open[g].names \in Seq(Tensors)
      /\ \A h \in Groups \ {g} : open'[h] = open[h]
    BY DEF Filed, Names
<1>2. t \notin Range(open[g].names) /\ \A i \in DOMAIN sealed[g] : t \notin Range(sealed[g][i])
    BY InFile
<1>3. Apart(g)'
    <2> DEFINE N == open[g].names
    <2>1. N \in Seq(Tensors) /\ t \notin Range(N) /\ IsInjective(N)
        BY <1>1, <1>2 DEF Apart
    <2>2. \A i \in DOMAIN sealed[g] : IsInjective(sealed[g][i]) /\ Range(sealed[g][i]) \cap Range(N) = {}
        BY DEF Apart
    <2> HIDE DEF N
    <2>3. IsInjective(Append(N, t))
        BY <2>1, AppendOnce
    <2>4. Range(Append(N, t)) = Range(N) \cup {t}
        <3>1. /\ DOMAIN Append(N, t) = DOMAIN N \cup {Len(N) + 1}
              /\ \A i \in DOMAIN N : Append(N, t)[i] = N[i]
              /\ Append(N, t)[Len(N) + 1] = t
            BY <2>1
        <3>2. QED
            BY <3>1 DEF Range
    <2>5. open'[g].names = Append(N, t)
        BY <1>1 DEF N
    <2>6. QED
        BY <1>2, <2>2, <2>3, <2>4, <2>5 DEF Apart
<1>4. ASSUME NEW i \in Groups, i # g
      PROVE  Apart(i)'
    BY <1>1, <1>4 DEF Apart
<1>5. QED
    BY <1>3, <1>4

\* The steps that change what the state records of the files.
LEMMA RecordsChange ==
    ASSUME Stored, Placed, [Next]_vars
    PROVE  \/ UNCHANGED <<open, sealed>>
           \/ Validate /\ phase \in Groups /\ Seal(phase) /\ Trusted(phase) /\ open[phase].is
                /\ Adopted(phase)
           \/ SealSave /\ Stream \in Groups /\ Seal(Stream)
           \/ CreateSave /\ \E g \in Groups :
                 /\ g = Stream /\ open[g].names = <<>> /\ sealed' = sealed
                 /\ open' = [open EXCEPT ![g] = [is |-> TRUE, names |-> <<>>]]
           \/ AppendTensor /\ \E g \in Groups, t \in Tensors :
                 /\ g = Stream /\ t = Upcoming /\ t \notin Written /\ GroupOf[t] = g /\ Appending
                 /\ open' = [open EXCEPT ![g].names = Append(@, t)] /\ sealed' = sealed
<1>1. CASE Validate
    BY <1>1 DEF Validate, state, Stored
<1>2. CASE SealSave
    BY <1>2, StreamIsOne DEF SealSave, Placed
<1>3. CASE CreateSave
    <2>1. Todo # {} /\ cpc # "seal" /\ ~open[Stream].is
        BY <1>3 DEF CreateSave, Placed
    <2>2. PICK g \in Groups : g = Stream
        BY <2>1, StreamIsOne
    <2>3. /\ open[g].names = <<>> /\ sealed' = sealed
          /\ open' = [open EXCEPT ![g] = [is |-> TRUE, names |-> <<>>]]
        BY <1>3, <2>1, <2>2 DEF CreateSave, Stream, Stored, Filed
    <2>4. QED
        BY <1>3, <2>2, <2>3
<1>4. CASE AppendTensor
    <2>1. PICK g \in Groups : g = Stream
        BY <1>4, StreamIsOne DEF AppendTensor, Copying, Appending
    <2>2. PICK t \in Tensors : t = Upcoming
        BY <1>4, NextMissing DEF AppendTensor, Copying, Appending
    <2>3. Appending /\ t \notin Written /\ GroupOf[t] = g
        BY <1>4, <2>1, <2>2, NextMissing DEF AppendTensor, Copying, Appending, Missing, Stream
    <2>4. open' = [open EXCEPT ![g].names = Append(@, t)] /\ sealed' = sealed
        BY <1>4, <2>1, <2>2 DEF AppendTensor
    <2>5. QED
        BY <1>4, <2>1, <2>2, <2>3, <2>4
<1>5. QED
    BY <1>1, <1>2, <1>3, <1>4 DEF Next, Step, Load, NextShard, DeferSlabs, SealHeader, CreateFile,
           Advance, ResolveSlab, Resolved, RecordDone, Finalize, PublishManifest,
           PublishIndex, RecordComplete, state, Crash, Killed, Start, vars

LEMMA ApartNext ==
    ASSUME Stored, Placed, \A g \in Groups : Apart(g), [Next]_vars
    PROVE  \A g \in Groups : Apart(g)'
<1>1. CASE UNCHANGED <<open, sealed>>
    BY <1>1 DEF Apart
<1>2. ASSUME NEW g \in Groups, Seal(g)
      PROVE  \A i \in Groups : Apart(i)'
    BY <1>2, SealKeepsApart DEF Stored
<1>3. ASSUME NEW g \in Groups, open[g].names = <<>>, sealed' = sealed,
             open' = [open EXCEPT ![g] = [is |-> TRUE, names |-> <<>>]]
      PROVE  \A i \in Groups : Apart(i)'
    <2>1. \A i \in Groups : open'[i].names = open[i].names
        BY <1>3 DEF Stored, Filed
    <2>2. QED
        BY <1>3, <2>1 DEF Apart
<1>4. ASSUME NEW g \in Groups, NEW t \in Tensors, t \notin Written, sealed' = sealed,
             open' = [open EXCEPT ![g].names = Append(@, t)]
      PROVE  \A i \in Groups : Apart(i)'
    BY <1>4, AppendKeepsApart DEF Stored
<1>5. QED
    BY <1>1, <1>2, <1>3, <1>4, RecordsChange

LEMMA WholeStays ==
    ASSUME NEW i \in Groups, Whole(i), UNCHANGED <<open[i], sealed[i]>>,
           open[i].is /\ OpenFile(i)'.header = SealedHeader(open[i].names) =>
               OpenFile(i).header = SealedHeader(open[i].names)
    PROVE  Whole(i)'
<1>1. \A names, k : Entire(names, k)' = Entire(names, k) /\ Piece(names, k)' = Piece(names, k)
    BY DEF Entire, Piece, At, Members
<1>2. QED
    BY <1>1 DEF Whole

LEMMA SealKeepsWhole ==
    ASSUME Filed, NEW g \in Groups, Seal(g), Whole(g),
           \A k \in Slabs : Entire(open[g].names, k)
    PROVE  Whole(g)'
<1> DEFINE S == sealed[g]
           N == open[g].names
<1>1. S \in Seq(Names) /\ N \in Names
    BY DEF Filed
<1>2. sealed'[g] = Append(S, N) /\ open'[g].names = <<>> /\ ~open'[g].is
    BY DEF Filed, NoFile, Seal
<1>3. \A k \in Slabs : Entire(N, k) /\ \A i \in DOMAIN S : Entire(S[i], k)
    BY DEF Whole
<1> HIDE DEF S, N
<1>4. /\ DOMAIN Append(S, N) = DOMAIN S \cup {Len(S) + 1}
      /\ \A i \in DOMAIN S : Append(S, N)[i] = S[i]
      /\ Append(S, N)[Len(S) + 1] = N
    BY <1>1
<1>5. \A k \in Slabs, i \in DOMAIN Append(S, N) : Entire(Append(S, N)[i], k)
    BY <1>3, <1>4
<1>6. \A k : Piece(<<>>, k)
    BY DEF Piece, At
<1>7. QED
    BY <1>2, <1>5, <1>6 DEF Whole

\* A stream where a new file was begun, or one more tensor came.
LEMMA OpenKeepsWhole ==
    ASSUME NEW g \in Groups, Whole(g), sealed'[g] = sealed[g],
           \A k \in Slabs : Piece(open'[g].names, k),
           OpenFile(g)'.header = Placeholder
    PROVE  Whole(g)'
<1>1. OpenFile(g)'.header # SealedHeader(open'[g].names)
    BY DEF Placeholder, SealedHeader
<1>2. QED
    BY <1>1 DEF Whole

\* No step but SealHeader gives the open file a header that seals it.
LEMMA HeaderStays ==
    ASSUME Stored, Placed, OnDisk, [Next]_vars, NEW i \in Groups, open[i].is,
           sealed'[i] = sealed[i], ~(SealHeader /\ i = Stream)
    PROVE  OpenFile(i)'.header \in {OpenFile(i).header, TornHeader}
<1>1. FileNo(i)' = FileNo(i)
    BY DEF FileNo
<1>2. SUFFICES out'[i][FileNo(i)].header \in {OpenFile(i).header, TornHeader}
    BY <1>1 DEF OpenFile
<1>3. Kept(i)
    BY DEF OnDisk
<1>4. CASE out'[i] = out[i]
    BY <1>4 DEF OpenFile
<1>5. CASE Validate
    <2>1. CASE i = phase /\ out' = Truncated(i)
        <3>1. out'[i][FileNo(i)] = [header |-> OpenFile(i).header, data |-> open[i].names]
            BY <1>3, <2>1, TruncatedIs
        <3>2. QED
            BY <3>1
    <2>2. CASE i # phase \/ out' = out
        <3>1. out'[i] = out[i]
            BY <1>5, <2>2 DEF Validate, Truncated, Stored
        <3>2. QED
            BY <1>4, <3>1
    <2>3. QED
        BY <1>5, <2>1, <2>2 DEF Validate
<1>6. CASE SealHeader
    <2>1. out'[i] = out[i]
        BY <1>6 DEF SealHeader, Stored
    <2>2. QED
        BY <1>4, <2>1
<1>7. ASSUME Creating, \E hd : out' = Created(Stream, hd)
      PROVE  out'[i] = out[i]
    BY <1>7 DEF Creating, Created, Stored
<1>8. ASSUME Copying, NEW x \in Tensors \cup {Torn},
             out' = [out EXCEPT ![Stream][FileNo(Stream)].data =
                                    WriteAt(@, Len(open[Stream].names), x)]
      PROVE  out'[i][FileNo(i)].header = OpenFile(i).header
    <2>1. CASE i = Stream
        <3>1. out' = WithData(i, FileNo(i), WriteAt(OpenFile(i).data, Len(open[i].names), x))
            BY <1>8, <2>1 DEF WithData, OpenFile
        <3>2. QED
            BY <1>3, <3>1, CopyLeaves
    <2>2. CASE i # Stream
        BY <1>8, <2>2 DEF Stored, OpenFile
    <2>3. QED
        BY <2>1, <2>2
<1>9. CASE CreateFile
    BY <1>4, <1>7, <1>9 DEF CreateFile
<1>10. CASE AppendTensor
    <2>1. Copying /\ Upcoming \in Tensors
        BY <1>10, NextMissing DEF AppendTensor, Copying, Appending
    <2>2. QED
        BY <1>8, <1>10, <2>1 DEF AppendTensor
<1>11. CASE Crash
    <2>1. CASE Sealing /\ out' = [out EXCEPT ![Stream][FileNo(Stream)].header = TornHeader]
        <3>1. CASE i = Stream
            <4>1. FileNo(i) \in DOMAIN out[i] /\ TornHeader \in Headers
                  /\ out \in [Groups -> Seq(Files)]
                BY <1>3 DEF Kept, TornHeader, Headers, Stored
            <4>2. out' = WithHeader(i, FileNo(i), TornHeader)
                BY <2>1, <3>1 DEF WithHeader
            <4>3. out'[i][FileNo(i)] = [header |-> TornHeader, data |-> out[i][FileNo(i)].data]
                BY <4>1, <4>2, HeaderEdited
            <4>4. QED
                BY <4>3
        <3>2. CASE i # Stream
            <4>1. out'[i] = out[i]
                BY <2>1, <3>2 DEF Stored
            <4>2. QED
                BY <1>4, <4>1
        <3>3. QED
            BY <3>1, <3>2
    <2>2. CASE Creating /\ out' = Created(Stream, TornHeader)
        BY <1>4, <1>7, <2>2
    <2>3. CASE \E x \in {Torn, Upcoming} : Copying /\
                  out' = [out EXCEPT ![Stream][FileNo(Stream)].data =
                                         WriteAt(@, Len(open[Stream].names), x)]
        <3>1. PICK x \in {Torn, Upcoming} : Copying /\
                  out' = [out EXCEPT ![Stream][FileNo(Stream)].data =
                                         WriteAt(@, Len(open[Stream].names), x)]
            BY <2>3
        <3>2. x \in Tensors \cup {Torn}
            BY <3>1, NextMissing DEF Copying, Appending
        <3>3. QED
            BY <1>8, <3>1, <3>2
    <2>4. QED
        BY <1>4, <1>11, <2>1, <2>2, <2>3 DEF Crash, Killed, Debris
<1>12. QED
    BY <1>4, <1>5, <1>6, <1>9, <1>10, <1>11 DEF Next, Step, Load, NextShard, DeferSlabs, SealSave,
           CreateSave, Advance, ResolveSlab, Resolved, RecordDone, Finalize, PublishManifest,
           PublishIndex, RecordComplete, Start, vars

\* No slab of the stream is cut where something else follows.
LEMMA NothingBetween ==
    ASSUME Stored, \A h \in Groups : Once(h) /\ Apart(h) /\ Whole(h),
           Ordered, Settled, Reached, NEW g \in Groups, NEW k \in Slabs,
           \/ Appending /\ GroupOf[Upcoming] = g /\ SlabOf[Upcoming] # k
           \/ cpc = "seal" /\ pending = {}
    PROVE  Entire(open[g].names, k)
<1>1. SUFFICES ASSUME At(open[g].names, k) # {}
               PROVE  Entire(open[g].names, k)
    BY DEF Entire
<1>2. PICK u \in Members(k) : u \in Range(open[g].names)
    BY <1>1, InSlab DEF Stored, Filed
<1>3. u \in Written /\ GroupOf[u] = g
    BY <1>2, InFile, InStream DEF Stored
<1>4. Members(k) \subseteq Written
    <2>1. CASE Appending /\ GroupOf[Upcoming] = g /\ SlabOf[Upcoming] # k
        BY <1>3, <2>1, Resumed
    <2>2. CASE cpc = "seal" /\ pending = {}
        <3>1. done = Shards /\ home[u] \in ShardsOf(k) /\ home[u] \in Shards
            BY <2>2 DEF Reached, Stored, ShardsOf, Members
        <3>2. QED
            BY <2>2, <3>1 DEF Settled
    <2>3. QED
        BY <2>1, <2>2
<1>5. (\A i \in DOMAIN sealed[g] : Entire(sealed[g][i], k)) /\ Piece(open[g].names, k)
    BY DEF Whole
<1>6. QED
    BY <1>4, <1>5, AllHere DEF Stored

\* A file is sealed when no slab of it is cut.
LEMMA SealsWhole ==
    ASSUME Stored, Placed, \A h \in Groups : Once(h) /\ Apart(h) /\ Whole(h),
           Ordered, Settled, Reached, SealHeader, NEW g \in Groups, g = Stream, NEW k \in Slabs
    PROVE  Entire(open[g].names, k)
<1>1. CASE cpc = "seal"
    BY <1>1, NothingBetween DEF SealHeader, Sealing, Appending
<1>2. CASE cpc # "seal"
    <2>1. Appending /\ Full(g, Upcoming) /\ GroupOf[Upcoming] = g
        BY <1>2 DEF SealHeader, Sealing, Stream
    <2>2. CASE SlabOf[Upcoming] # k
        BY <2>1, <2>2, NothingBetween
    <2>3. CASE SlabOf[Upcoming] = k
        <3>1. Members(k) \cap Written = {}
            BY <2>1, <2>3, ConverterAssumption DEF ConverterAssumption, Full, RunOf
        <3>2. At(open[g].names, k) = {}
            BY <3>1, InSlab, InFile DEF Stored, Filed
        <3>3. QED
            BY <3>2 DEF Entire
    <2>4. QED
        BY <2>2, <2>3
<1>3. QED
    BY <1>1, <1>2

LEMMA OtherWhole ==
    ASSUME Stored, Placed, OnDisk, [Next]_vars, NEW i \in Groups, Whole(i),
           open'[i] = open[i], sealed'[i] = sealed[i], ~(SealHeader /\ i = Stream)
    PROVE  Whole(i)'
<1>1. CASE open[i].is
    <2>1. OpenFile(i)'.header \in {OpenFile(i).header, TornHeader}
        BY <1>1, HeaderStays
    <2>2. TornHeader # SealedHeader(open[i].names)
        BY DEF TornHeader, SealedHeader, Torn
    <2>3. QED
        BY <2>1, <2>2, WholeStays
<1>2. CASE ~open[i].is
    BY <1>2, WholeStays
<1>3. QED
    BY <1>1, <1>2

LEMMA WholeNext ==
    ASSUME Stored, Placed, OnDisk, OnDisk', [Next]_vars,
           \A g \in Groups : Once(g) /\ Apart(g) /\ Whole(g),
           Ordered, Settled, Reached
    PROVE  \A g \in Groups : Whole(g)'
<1>1. CASE UNCHANGED <<open, sealed>>
    <2>1. SUFFICES ASSUME NEW g \in Groups
                   PROVE  Whole(g)'
        OBVIOUS
    <2>2. CASE SealHeader /\ g = Stream
        <3>1. \A k \in Slabs : Entire(open[g].names, k)
            BY <2>2, SealsWhole
        <3>2. \A names, k : Entire(names, k)' = Entire(names, k) /\ Piece(names, k)' = Piece(names, k)
            BY DEF Entire, Piece, At, Members
        <3>3. QED
            BY <1>1, <3>1, <3>2 DEF Whole
    <2>3. CASE ~(SealHeader /\ g = Stream)
        BY <1>1, <2>3, OtherWhole
    <2>4. QED
        BY <2>2, <2>3
<1>2. ASSUME NEW g \in Groups, Seal(g), open[g].is, ~SealHeader,
             OpenFile(g).header = SealedHeader(open[g].names)
      PROVE  \A i \in Groups : Whole(i)'
    <2>1. Whole(g)'
        BY <1>2, SealKeepsWhole DEF Whole, Stored
    <2>2. \A i \in Groups \ {g} : open'[i] = open[i] /\ sealed'[i] = sealed[i]
        BY <1>2 DEF Seal, Stored, Filed
    <2>3. QED
        BY <1>2, <2>1, <2>2, OtherWhole
<1>3. ASSUME NEW g \in Groups, sealed' = sealed, ~SealHeader,
             \A i \in Groups \ {g} : open'[i] = open[i],
             \A k \in Slabs : Piece(open'[g].names, k),
             open'[g].is, Past(g)', io' = "none"
      PROVE  \A i \in Groups : Whole(i)'
    <2>1. Whole(g)'
        <3>1. HeaderNow(g)' = Placeholder
            BY <1>3 DEF HeaderNow
        <3>2. OpenFile(g)' = [header |-> HeaderNow(g)', data |-> open'[g].names]
            BY <1>3 DEF OnDisk, Synced
        <3>3. OpenFile(g)'.header = Placeholder
            BY <3>1, <3>2
        <3>4. QED
            BY <1>3, <3>3, OpenKeepsWhole
    <2>2. QED
        BY <1>3, <2>1, OtherWhole
<1>4. CASE Validate /\ phase \in Groups /\ Seal(phase) /\ open[phase].is /\ Adopted(phase)
    <2>1. ~SealHeader /\ OpenFile(phase).header = SealedHeader(open[phase].names)
        BY <1>4 DEF Validate, SealHeader, Sealing, Appending, Adopted, OpenFile
    <2>2. QED
        BY <1>2, <1>4, <2>1
<1>5. CASE SealSave /\ Stream \in Groups /\ Seal(Stream)
    <2>1. PICK g \in Groups : g = Stream
        BY <1>5
    <2>2. io = "seal" /\ open[g].is /\ Past(g) /\ ~SealHeader
        BY <1>5, <2>1 DEF SealSave, SealHeader, Sealing, Placed, Past
    <2>3. HeaderNow(g) = SealedHeader(open[g].names)
        BY <2>1, <2>2 DEF HeaderNow
    <2>4. OpenFile(g).header = SealedHeader(open[g].names)
        BY <2>2, <2>3 DEF OnDisk, Synced
    <2>5. QED
        BY <1>2, <1>5, <2>1, <2>2, <2>4
<1>6. ASSUME CreateSave, NEW g \in Groups, g = Stream, sealed' = sealed,
             open' = [open EXCEPT ![g] = [is |-> TRUE, names |-> <<>>]]
      PROVE  \A i \in Groups : Whole(i)'
    <2>1. open'[g].is /\ open'[g].names = <<>> /\ \A i \in Groups \ {g} : open'[i] = open[i]
        BY <1>6 DEF Stored, Filed
    <2>2. \A k \in Slabs : Piece(<<>>, k)
        BY DEF Piece, At
    <2>3. io' = "none" /\ Past(g)' /\ ~SealHeader
        BY <1>6 DEF CreateSave, SealHeader, Sealing, Past, Placed
    <2>4. QED
        BY <1>3, <1>6, <2>1, <2>2, <2>3
<1>7. ASSUME AppendTensor, NEW g \in Groups, NEW t \in Tensors, g = Stream, t = Upcoming, t \notin Written,
             GroupOf[t] = g, Appending, sealed' = sealed,
             open' = [open EXCEPT ![g].names = Append(@, t)]
      PROVE  \A i \in Groups : Whole(i)'
    <2>1. /\ open'[g].names = Append(open[g].names, t) /\ open[g].names \in Names
          /\ \A i \in Groups \ {g} : open'[i] = open[i]
          /\ open'[g].is /\ io' = "none" /\ Past(g)' /\ ~SealHeader
        BY <1>7 DEF Stored, Filed, AppendTensor, Copying, Appending, SealHeader, Sealing, Past, process
    <2>2. ASSUME NEW k \in Slabs
          PROVE  Piece(open'[g].names, k)
        <3>1. SlabOf[t] # k => At(open[g].names, k) = {} \/ Members(k) \subseteq Range(open[g].names)
            BY <1>7, NothingBetween DEF Entire
        <3>2. t \notin Range(open[g].names) /\ Piece(open[g].names, k)
            BY <1>7, InFile DEF Whole
        <3>3. QED
            BY <2>1, <3>1, <3>2, AppendPiece
    <2>3. QED
        BY <1>3, <1>7, <2>1, <2>2
<1>8. QED
    BY <1>1, <1>4, <1>5, <1>6, <1>7, RecordsChange

\* Only AppendTensor writes a name, the next one.
LEMMA WrittenChange ==
    ASSUME Stored, Placed, [Next]_vars
    PROVE  \/ Written' = Written
           \/ AppendTensor /\ Appending /\ Written' = Written \cup {Upcoming}
<1>1. CASE UNCHANGED <<open, sealed>>
    BY <1>1 DEF Written, Committed
<1>2. ASSUME NEW g \in Groups, Seal(g)
      PROVE  Written' = Written
    BY <1>2, SealCommitsNothing DEF Stored
<1>3. ASSUME NEW g \in Groups, open[g].names = <<>>, sealed' = sealed,
             open' = [open EXCEPT ![g] = [is |-> TRUE, names |-> <<>>]]
      PROVE  Written' = Written
    <2>1. \A h \in Groups : open'[h].names = open[h].names
        BY <1>3 DEF Stored, Filed
    <2>2. QED
        BY <1>3, <2>1 DEF Written, Committed
<1>4. ASSUME NEW g \in Groups, NEW t \in Tensors, sealed' = sealed,
             open' = [open EXCEPT ![g].names = Append(@, t)]
      PROVE  Written' = Written \cup {t}
    BY <1>4, AppendCommitsOne DEF Stored
<1>5. QED
    BY <1>1, <1>2, <1>3, <1>4, RecordsChange

\* The checkpoint does not change, and what is said of it and of `done`
\* changes with `done`.
LEMMA LayoutStays ==
    ASSUME [Next]_vars
    PROVE  /\ home' = home
           /\ \A k : ShardsOf(k)' = ShardsOf(k) /\ Members(k)' = Members(k)
           /\ \A s : Split(s)' = Split(s)
           /\ \A t, c : Own(t, c)' = Own(t, c)
           /\ \A t : Awaits(t)' = Awaits(t)
<1>1. home' = home
    BY DEF Next, Step, Load, Validate, NextShard, DeferSlabs, SealHeader, SealSave, CreateFile,
           CreateSave, AppendTensor, Advance, ResolveSlab, Resolved, RecordDone, Finalize,
           PublishManifest, PublishIndex, RecordComplete, Crash, Killed, Start, vars
<1>2. \A k : ShardsOf(k)' = ShardsOf(k) /\ Members(k)' = Members(k)
    BY <1>1, LayoutFixed DEF Members
<1>3. \A s : Split(s)' = Split(s)
    BY <1>1, LayoutFixed
<1>4. QED
    BY <1>1, <1>2, <1>3 DEF Own, Awaits

\* The next tensor is of the shard itself, or of a slab that it completes.
LEMMA UpcomingIs ==
    ASSUME Stored, Settled, Reached, Appending
    PROVE  /\ Now(cur) /\ Upcoming \in Tensors
           /\ \/ /\ cpc = "write" /\ Own(Upcoming, cur) /\ GroupOf[Upcoming] = phase
                 /\ ~Completing(SlabOf[Upcoming], cur)
              \/ /\ cpc = "resolve" /\ SlabOf[Upcoming] = First /\ First \in Ready
                 /\ Completing(First, cur) /\ ~Own(Upcoming, cur)
           /\ \A s \in Awaits(Upcoming) \ done : s = cur
<1>1. cpc \in {"write", "resolve"} /\ Now(cur) /\ cur \in Shards /\ Todo # {} /\ Readable
    BY DEF Appending, Reached, Now
<1>2. Upcoming \in Tensors /\ Missing(Upcoming)
    BY <1>1, NextMissing
<1>3. CASE cpc = "write"
    <2>1. Own(Upcoming, cur) /\ GroupOf[Upcoming] = phase
        BY <1>2, <1>3 DEF Missing, Planned, Own
    <2>2. ~Completing(SlabOf[Upcoming], cur)
        BY <2>1 DEF Completing, Own
    <2>3. \A s \in Awaits(Upcoming) : s = cur
        <3>1. CASE SlabOf[Upcoming] = NoSlab
            BY <2>1, <3>1 DEF Awaits, Own
        <3>2. CASE SlabOf[Upcoming] # NoSlab
            <4>1. SlabOf[Upcoming] \in Slabs /\ Upcoming \in Members(SlabOf[Upcoming])
                BY <1>2, <3>2, ConverterAssumption DEF ConverterAssumption, Members
            <4>2. cur \in ShardsOf(SlabOf[Upcoming])
                BY <2>1, <4>1 DEF ShardsOf, Own
            <4>3. ShardsOf(SlabOf[Upcoming]) = {cur}
                BY <2>1, <4>1, <4>2 DEF Own, Split
            <4>4. QED
                BY <3>2, <4>3 DEF Awaits
        <3>3. QED
            BY <3>1, <3>2
    <2>4. QED
        BY <1>1, <1>2, <1>3, <2>1, <2>2, <2>3
<1>4. CASE cpc = "resolve"
    <2>1. SlabOf[Upcoming] = First /\ First \in Ready
        BY <1>1, <1>2, <1>4, FirstIs DEF Missing, Readable
    <2>2. First \in pending /\ First \in Slabs /\ ShardsOf(First) \subseteq done \cup {cur}
        BY <2>1 DEF Ready, Stored
    <2>3. cur \in ShardsOf(First) /\ ShardsOf(First) # {cur}
        BY <2>2 DEF Settled, Stored
    <2>4. Completing(First, cur)
        BY <2>2, <2>3 DEF Completing, Split
    <2>5. ~Own(Upcoming, cur)
        BY <2>1, <2>4 DEF Own, Completing
    <2>6. Awaits(Upcoming) = ShardsOf(First)
        BY <2>1, <2>2, ConverterAssumption DEF ConverterAssumption, Awaits
    <2>7. QED
        BY <1>1, <1>2, <1>4, <2>1, <2>2, <2>4, <2>5, <2>6
<1>5. QED
    BY <1>1, <1>3, <1>4

\* With the next tensor, too, what is written is in order.
LEMMA UpcomingFits ==
    ASSUME Stored, Ordered, Settled, Reached, Appending
    PROVE  Sorted(Written \cup {Upcoming}, cur)
<1> DEFINE t == Upcoming
<1>1. /\ Now(cur) /\ t \in Tensors /\ cur \in Shards
      /\ \A s \in Awaits(t) \ done : s = cur
    BY UpcomingIs DEF Now
<1>2. PICK n \in DOMAIN Order : /\ Order[n] = t /\ Missing(t)
                                /\ \A l \in DOMAIN Order : l < n => ~Missing(Order[l])
    BY UpcomingAt DEF Appending
<1>3. Sorted(Written, cur)
    BY <1>1 DEF Ordered
<1> HIDE DEF t
<1>4. DOMAIN Order \subseteq Nat /\ \A i, j \in DOMAIN Order : Order[i] = Order[j] => i = j
    BY ConverterAssumption DEF ConverterAssumption, IsInjective
<1>5. ASSUME NEW i \in DOMAIN Order, NEW j \in DOMAIN Order, i < j,
             Own(Order[i], cur), Own(Order[j], cur),
             GroupOf[Order[i]] = GroupOf[Order[j]], Order[j] \in Written \cup {t}
      PROVE  Order[i] \in Written \cup {t}
    <2>1. CASE Order[j] \in Written
        BY <1>3, <1>5, <2>1 DEF Sorted
    <2>2. CASE Order[j] = t
        <3>1. j = n
            BY <1>2, <1>4, <2>2
        <3>2. cpc = "write" /\ GroupOf[t] = phase
            BY <1>5, <2>2, UpcomingIs DEF t
        <3>3. ~Missing(Order[i])
            BY <1>2, <1>5, <3>1
        <3>4. QED
            BY <1>5, <2>2, <3>2, <3>3 DEF Missing, Planned, Own
    <2>3. QED
        BY <1>5, <2>1, <2>2
<1>6. ASSUME NEW u \in Written \cup {t}, Completing(SlabOf[u], cur),
             NEW v \in Tensors, Own(v, cur)
      PROVE  v \in Written
    <2>1. CASE u \in Written
        BY <1>3, <1>6, <2>1 DEF Sorted
    <2>2. CASE u = t
        <3>1. cpc = "resolve"
            BY <1>6, <2>2, UpcomingIs DEF t
        <3>2. QED
            BY <1>6, <3>1 DEF Reached
    <2>3. QED
        BY <2>1, <2>2
<1>7. ASSUME NEW i \in DOMAIN Order, NEW j \in DOMAIN Order, i < j,
             Completing(SlabOf[Order[i]], cur), Completing(SlabOf[Order[j]], cur),
             Order[j] \in Written \cup {t}
      PROVE  Order[i] \in Written \cup {t}
    <2>1. CASE Order[j] \in Written
        BY <1>3, <1>7, <2>1 DEF Sorted
    <2>2. CASE Order[j] = t
        <3>1. j = n
            BY <1>2, <1>4, <2>2
        <3>2. cpc = "resolve" /\ SlabOf[t] = First /\ First \in Ready
            BY <1>7, <2>2, UpcomingIs DEF t
        <3>3. ~Missing(Order[i])
            BY <1>2, <1>7, <3>1
        <3> DEFINE k == SlabOf[Order[i]]
        <3>4. CASE k = First
            BY <3>2, <3>3, <3>4 DEF Missing
        <3>5. CASE k # First
            <4>1. SUFFICES ASSUME Order[i] \notin Written
                           PROVE  FALSE
                OBVIOUS
            <4>2. Order[i] \in Members(k) /\ k \in Split(cur) /\ ShardsOf(k) \subseteq done \cup {cur}
                BY <1>7, ConverterAssumption DEF ConverterAssumption, Members, Completing
            <4>3. k \in Ready
                BY <3>2, <4>1, <4>2 DEF Reached, Ready
            <4>4. Place(First) <= Place(k)
                BY <4>3, FirstIs
            <4>5. Place(k) \in DOMAIN Order /\ Place(k) <= i
                BY PlaceIs
            <4>6. PICK p \in DOMAIN Order : p = Place(First) /\ SlabOf[Order[p]] = First
                BY <1>2, <3>2, PlaceIs
            <4>7. p <= i /\ p # i /\ p \in Nat /\ i \in Nat
                BY <1>4, <3>5, <4>4, <4>5, <4>6
            <4>8. p < i /\ i < n
                BY <1>7, <3>1, <4>7
            <4>9. First # NoSlab
                BY <3>2, ConverterAssumption DEF ConverterAssumption, Ready, Stored
            <4>10. QED
                BY <1>2, <3>2, <3>5, <4>6, <4>8, <4>9, MembersAreAdjacent
        <3>6. QED
            BY <3>4, <3>5
    <2>3. QED
        BY <1>7, <2>1, <2>2
<1>8. QED
    BY <1>5, <1>6, <1>7 DEF Sorted, t

\* A tensor that is appended leaves the order.
LEMMA AppendKeepsOrder ==
    ASSUME Stored, Ordered, Settled, Reached, Appending, UNCHANGED <<home, done>>,
           Written' = Written \cup {Upcoming}
    PROVE  Ordered'
<1> DEFINE t == Upcoming
<1>1. /\ Now(cur) /\ t \in Tensors /\ cur \in Shards
      /\ \A s \in Awaits(t) \ done : s = cur
    BY UpcomingIs DEF Now
<1>2. Sorted(Written \cup {t}, cur)
    BY UpcomingFits
<1> HIDE DEF t
<1>3. ASSUME NEW u \in Written \cup {t}, NEW s \in Awaits(u) \ done
      PROVE  Now(s)
    BY <1>1, <1>3 DEF Ordered
<1>4. /\ \A c : Now(c)' = Now(c)
      /\ \A k, c : Completing(k, c)' = Completing(k, c)
      /\ \A u, c : Own(u, c)' = Own(u, c)
      /\ \A u : Awaits(u)' = Awaits(u)
    BY LayoutFixed DEF Now, Completing, Own, Awaits
<1>5. Written' = Written \cup {t}
    BY DEF t
<1>6. PICK d : d = cur
    OBVIOUS
<1>7. ASSUME NEW c \in Shards, Now(c)
       PROVE  Sorted(Written, c)'
    <2>1. c = d
        BY <1>1, <1>6, <1>7, NowIsOne
    <2>2. Sorted(Written, d)'
        BY <1>2, <1>4, <1>5, <1>6 DEF Sorted
    <2>3. QED
        BY <2>1, <2>2
<1>8. QED
    BY <1>3, <1>4, <1>5, <1>7 DEF Ordered

LEMMA DoneChange ==
    ASSUME [Next]_vars
    PROVE  done' = done \/ RecordDone
BY DEF Next, Step, Load, Validate, NextShard, DeferSlabs, SealHeader, SealSave, CreateFile,
       CreateSave, AppendTensor, Advance, ResolveSlab, Resolved, Finalize, Seal,
       PublishManifest, PublishIndex, RecordComplete, Crash, Killed, Start, state, vars

LEMMA PendingChange ==
    ASSUME [Next]_vars
    PROVE  pending' = pending \/ DeferSlabs \/ ResolveSlab
BY DEF Next, Step, Load, Validate, NextShard, SealHeader, SealSave, CreateFile,
       CreateSave, AppendTensor, Advance, Resolved, RecordDone, Finalize, Seal,
       PublishManifest, PublishIndex, RecordComplete, Crash, Killed, Start, state, vars

LEMMA InStreamTyped ==
    ASSUME Filed, NEW g \in Groups, NEW t \in Committed(g)
    PROVE  t \in Tensors
<1>1. NamesOf(g) \in Seq(Tensors) /\ t \in Range(NamesOf(g))
    BY NamesAre
<1>2. QED
    BY <1>1 DEF Range

\* What is left when nothing is to be appended.
LEMMA NothingMissing ==
    ASSUME Todo = {}
    PROVE  /\ cpc = "write" => \A t \in Tensors :
                Own(t, cur) /\ GroupOf[t] = phase => t \in Written
           /\ cpc = "resolve" => Members(First) \subseteq Written
<1>1. \A t \in Tensors : ~Missing(t)
    BY Places DEF Todo
<1>2. QED
    BY <1>1 DEF Missing, Planned, Own, Members

\* A shard that is done leaves no tensor that waits for another one.
LEMMA RecordKeepsOrder ==
    ASSUME Stored, Placed, Ordered, Settled, Reached, RecordDone
    PROVE  Ordered' /\ Settled'
<1>1. /\ done' = done \cup {cur} /\ Now(cur) /\ cur \in Shards /\ cur \notin done
      /\ Ready = {} /\ UNCHANGED <<home, open, sealed, pending>>
      /\ \A t \in Tensors : Own(t, cur) => t \in Written
      /\ \A k \in Split(cur) : k \in pending \/ Members(k) \subseteq Written
    BY DEF RecordDone, Reached, Now
<1>2. Written' = Written
    BY <1>1 DEF Written, Committed
<1>3. \A k : ShardsOf(k)' = ShardsOf(k) /\ Members(k)' = Members(k)
    BY <1>1, LayoutFixed DEF Members
<1>4. \A t, c : Own(t, c)' = Own(t, c) /\ Awaits(t)' = Awaits(t) /\ Split(c)' = Split(c)
    BY <1>1, <1>3, LayoutFixed DEF Own, Awaits
<1>5. \A t \in Written : Awaits(t) \subseteq done'
    BY <1>1, NowIsOne DEF Ordered
<1>6. ASSUME NEW c \in Shards, Now(c)'
      PROVE  Sorted(Written, c)'
    <2>1. c \notin done'
        BY <1>6 DEF Now
    <2>2. \A t \in Written : ~Own(t, c)
        <3>1. ASSUME NEW t \in Written, Own(t, c)
              PROVE  FALSE
            <4>1. t \in Tensors /\ home[t] = c
                <5>1. PICK g \in Groups : t \in Committed(g)
                    BY DEF Written
                <5>2. t \in Tensors
                    BY <5>1, InStreamTyped DEF Stored
                <5>3. QED
                    BY <3>1, <5>2 DEF Own
            <4>2. c \in Awaits(t)
                <5>1. CASE SlabOf[t] = NoSlab
                    BY <4>1, <5>1 DEF Awaits
                <5>2. CASE SlabOf[t] # NoSlab
                    BY <4>1, <5>2 DEF Awaits, ShardsOf, Members
                <5>3. QED
                    BY <5>1, <5>2
            <4>3. QED
                BY <1>5, <2>1, <4>2
        <3>2. QED
            BY <3>1
    <2>3. ASSUME NEW t \in Written
          PROVE  ~Completing(SlabOf[t], c)'
        <3>1. SUFFICES ASSUME SlabOf[t] \in Split(c)
                       PROVE  FALSE
            BY <1>4 DEF Completing
        <3>2. SlabOf[t] # NoSlab /\ c \in ShardsOf(SlabOf[t])
            BY <3>1, ConverterAssumption DEF ConverterAssumption, Split
        <3>3. QED
            BY <1>5, <2>1, <3>2 DEF Awaits
    <2>4. QED
        BY <1>2, <1>4, <2>2, <2>3 DEF Sorted
<1>7. Ordered'
    BY <1>2, <1>4, <1>5, <1>6 DEF Ordered
<1>8. ASSUME NEW k \in Slabs \ pending, ShardsOf(k) \cap done' # {}
      PROVE  Members(k) \subseteq Written
    <2>1. CASE ShardsOf(k) \cap done # {}
        BY <1>8, <2>1 DEF Settled
    <2>2. CASE cur \in ShardsOf(k)
        <3>1. CASE ShardsOf(k) = {cur}
            <4>1. \A t \in Members(k) : Own(t, cur)
                BY <3>1 DEF Own, Split, ShardsOf, Members
            <4>2. QED
                BY <1>1, <4>1 DEF Members
        <3>2. CASE k \in Split(cur)
            BY <1>1, <1>8, <3>2
        <3>3. QED
            BY <2>2, <3>1, <3>2, SplitOrOwn DEF Stored
    <2>3. QED
        BY <1>1, <1>8, <2>1, <2>2
<1>9. ASSUME NEW k \in pending, ShardsOf(k) \subseteq done'
      PROVE  FALSE
    BY <1>1, <1>9 DEF Ready
<1>10. Settled'
    BY <1>1, <1>2, <1>3, <1>8, <1>9 DEF Settled
<1>11. QED
    BY <1>7, <1>10

LEMMA OrderNext ==
    ASSUME Stored, Placed, Ordered, Settled, Reached, [Next]_vars
    PROVE  Ordered' /\ Settled'
<1>1. CASE RecordDone
    BY <1>1, RecordKeepsOrder
<1>2. CASE AppendTensor
    <2>1. Appending /\ Written' = Written \cup {Upcoming} /\ UNCHANGED <<home, done, pending>>
        <3>1. Appending /\ UNCHANGED <<home, done, pending>>
            BY <1>2 DEF AppendTensor, Copying
        <3>2. Written' = Written \cup {Upcoming}
            <4>1. PICK g \in Groups : g = Stream
                BY <3>1, StreamIsOne DEF Appending
            <4>2. PICK t \in Tensors : t = Upcoming
                BY <3>1, NextMissing DEF Appending
            <4>3. open' = [open EXCEPT ![g].names = Append(@, t)] /\ sealed' = sealed
                BY <1>2, <4>1, <4>2 DEF AppendTensor
            <4>4. QED
                BY <4>2, <4>3, AppendCommitsOne DEF Stored
        <3>3. QED
            BY <3>1, <3>2
    <2>2. Ordered'
        BY <2>1, AppendKeepsOrder
    <2>3. \A k : ShardsOf(k)' = ShardsOf(k) /\ Members(k)' = Members(k)
        BY LayoutStays
    <2>4. QED
        BY <2>1, <2>2, <2>3 DEF Settled
<1>3. CASE ~RecordDone /\ ~AppendTensor
    <2>1. done' = done /\ Written' = Written
        BY <1>3, DoneChange, WrittenChange
    <2>2. /\ \A k : ShardsOf(k)' = ShardsOf(k) /\ Members(k)' = Members(k)
          /\ \A s : Split(s)' = Split(s)
          /\ \A t, c : Own(t, c)' = Own(t, c)
          /\ \A t : Awaits(t)' = Awaits(t)
        BY LayoutStays
    <2>3. \A c : Now(c)' = Now(c) /\ \A k : Completing(k, c)' = Completing(k, c)
        BY <2>1, <2>2 DEF Now, Completing
    <2>4. \A c : Sorted(Written, c)' = Sorted(Written, c)
        BY <2>1, <2>2, <2>3 DEF Sorted
    <2>5. Ordered'
        BY <2>1, <2>2, <2>3, <2>4 DEF Ordered
    <2>6. Settled'
        <3>1. CASE pending' = pending
            BY <2>1, <2>2, <3>1 DEF Settled
        <3>2. CASE DeferSlabs
            <4>1. pending' = pending \cup Split(cur) /\ cur \notin done
                BY <3>2 DEF DeferSlabs, Placed
            <4>2. \A k \in Split(cur) : ~(ShardsOf(k) \subseteq done)
                BY <4>1 DEF Split
            <4>3. QED
                BY <2>1, <2>2, <4>1, <4>2 DEF Settled
        <3>3. CASE ResolveSlab
            <4>1. CASE pending' = pending \ {First} /\ Todo = {} /\ cpc = "resolve"
                <5>1. Members(First) \subseteq Written
                    BY <4>1, NothingMissing
                <5>2. QED
                    BY <2>1, <2>2, <4>1, <5>1 DEF Settled
            <4>2. CASE pending' = pending
                BY <3>1, <4>2
            <4>3. QED
                BY <3>3, <4>1, <4>2 DEF ResolveSlab
        <3>4. QED
            BY <3>1, <3>2, <3>3, PendingChange
    <2>7. QED
        BY <2>5, <2>6
<1>4. QED
    BY <1>1, <1>2, <1>3

LEMMA ReachedNext ==
    ASSUME Stored, Placed, Ordered, Settled, Reached, [Next]_vars, "shard" \notin hit'
    PROVE  Reached'
<1> USE DEF Reached
<1>1. /\ \A k : ShardsOf(k)' = ShardsOf(k) /\ Members(k)' = Members(k)
      /\ \A s : Split(s)' = Split(s)
      /\ \A t, c : Own(t, c)' = Own(t, c)
    BY LayoutStays
<1>2. \A t : t \in Written => t \in Written'
    BY WrittenChange
<1>3. ASSUME UNCHANGED <<done, cur, cpc, phase, job, pending>>, cpc # "record"
      PROVE  Reached'
    <2>1. \A c : Now(c)' = Now(c)
        BY <1>3 DEF Now
    <2>2. PICK c : c = cur
        OBVIOUS
    <2>3. cur' = c
        BY <1>3, <2>2
    <2>4. cpc \in {"write", "resolve", "record"} =>
              \A k \in Split(c) : k \in pending' \/ Members(k) \subseteq Written'
        BY <1>2, <1>3, <2>2
    <2>5. cpc \in {"resolve", "record"} => \A t \in Tensors : Own(t, c) => t \in Written'
        BY <1>2, <2>2
    <2>6. cpc = "write" /\ phase = "mtp" =>
              \A t \in Tensors : Own(t, c) /\ GroupOf[t] = "main" => t \in Written'
        BY <1>2, <2>2
    <2>7. QED
        BY <1>1, <1>3, <2>1, <2>2, <2>3, <2>4, <2>5, <2>6
<1>4. CASE SealHeader \/ SealSave \/ CreateFile \/ CreateSave \/ AppendTensor
    <2>1. UNCHANGED <<done, cur, cpc, phase, job, pending>>
        BY <1>4 DEF SealHeader, SealSave, CreateFile, CreateSave, AppendTensor, Seal, state, process
    <2>2. cpc # "record"
        BY <1>4 DEF SealHeader, SealSave, CreateFile, CreateSave, AppendTensor, Sealing, Creating,
                    Copying, Appending, Placed
    <2>3. QED
        BY <1>3, <2>1, <2>2
<1>5. CASE Load \/ Validate \/ Finalize \/ PublishManifest \/ PublishIndex \/ RecordComplete
    <2>1. /\ cpc' \in {"validate", "failed", "next", "waiting", "publish", "index", "complete", "end"}
          /\ cpc' \in {"publish", "index", "complete"} =>
                 cpc \in {"seal", "publish", "index"}
          /\ cpc # "off" /\ job' = job
        BY <1>5 DEF Load, Validate, Finalize, PublishManifest, PublishIndex, RecordComplete, process
    <2>2. done' = done
        BY <1>5 DEF Load, Validate, Finalize, PublishManifest, PublishIndex, RecordComplete, state, Seal
    <2>3. QED
        BY <2>1, <2>2
<1>6. CASE NextShard
    <2>1. done' = done /\ job' = job /\ cpc = "next" /\ Left = Shards \ done
          /\ cpc' \in {"seal", "end", "defer", "failed"}
        BY <1>6 DEF NextShard, state, Left
    <2>2. cpc' = "seal" => done = Shards
        BY <1>6, <2>1 DEF NextShard, Stored
    <2>3. cpc' = "defer" => Now(cur)'
        <3>1. ASSUME cpc' = "defer"
              PROVE  cur' \in Left /\ \A s \in Left : cur' <= s
            <4>1. Left \in SUBSET Nat /\ Left # {} /\ cur' = Min(Left)
                BY <1>6, <2>1, <3>1, ConverterAssumption DEF ConverterAssumption, NextShard
            <4>2. QED
                BY <4>1, MinIs
        <3>2. QED
            BY <2>1, <3>1 DEF Now
    <2>4. QED
        BY <2>1, <2>2, <2>3
<1>7. CASE DeferSlabs
    <2>1. /\ cpc = "defer" /\ cpc' = "write" /\ phase' = "main" /\ pending' = pending \cup Split(cur)
          /\ UNCHANGED <<done, job, cur>>
        BY <1>7 DEF DeferSlabs
    <2>2. Now(cur)'
        BY <2>1 DEF Now
    <2>3. \A k \in Split(cur)' : k \in pending'
        BY <1>1, <2>1
    <2>4. QED
        BY <2>1, <2>2, <2>3
<1>8. CASE Advance
    <2>1. /\ cpc = "write" /\ Todo = {} /\ phase' = "mtp"
          /\ cpc' = IF phase = "main" THEN "write" ELSE "resolve"
          /\ UNCHANGED <<done, job, cur, pending>>
        BY <1>8 DEF Advance, state
    <2>2. PICK c : c = cur /\ cur' = c
        BY <2>1
    <2>3. Now(c)'
        BY <2>1, <2>2 DEF Now
    <2>4. \A t \in Tensors : Own(t, c) /\ GroupOf[t] = phase => t \in Written'
        BY <1>2, <2>1, <2>2, NothingMissing
    <2>5. phase = "mtp" => \A t \in Tensors : Own(t, c) /\ GroupOf[t] = "main" => t \in Written'
        BY <1>2, <2>1, <2>2
    <2>6. phase = "mtp" => \A t \in Tensors : Own(t, c) => t \in Written'
        BY <2>4, <2>5, ConverterAssumption DEF ConverterAssumption, Groups
    <2>7. \A k \in Split(c) : k \in pending' \/ Members(k) \subseteq Written'
        BY <1>2, <2>1, <2>2
    <2>8. phase \in {"main", "mtp"}
        BY DEF Stored, Groups
    <2>9. QED
        BY <1>1, <2>1, <2>2, <2>3, <2>4, <2>6, <2>7, <2>8
<1>9. CASE ResolveSlab
    <2>1. /\ cpc = "resolve" /\ cpc' \in {"resolve", "failed"} /\ UNCHANGED <<done, job, cur>>
          /\ \/ pending' = pending
             \/ (pending' = pending \ {First} /\ Todo = {})
        BY <1>9 DEF ResolveSlab
    <2>2. PICK c : c = cur /\ cur' = c
        BY <2>1
    <2>3. Now(c)' /\ \A t \in Tensors : Own(t, c) => t \in Written'
        BY <1>2, <2>1, <2>2 DEF Now
    <2>4. \A k \in Split(c) : k \in pending' \/ Members(k) \subseteq Written'
        BY <1>2, <2>1, <2>2, NothingMissing
    <2>5. QED
        BY <1>1, <2>1, <2>2, <2>3, <2>4
<1>10. CASE Resolved
    <2>1. cpc = "resolve" /\ cpc' = "record" /\ Ready = {} /\ UNCHANGED <<done, job, cur, pending>>
        BY <1>10 DEF Resolved, state, process
    <2>2. PICK c : c = cur /\ cur' = c
        BY <2>1
    <2>3. Now(c)' /\ \A t \in Tensors : Own(t, c) => t \in Written'
        BY <1>2, <2>1, <2>2 DEF Now
    <2>4. \A k \in Split(c) : k \in pending' \/ Members(k) \subseteq Written'
        BY <1>2, <2>1, <2>2
    <2>5. Ready' = {}
        BY <1>1, <2>1 DEF Ready
    <2>6. QED
        BY <1>1, <2>1, <2>2, <2>3, <2>4, <2>5
<1>11. CASE RecordDone
    <2>1. cpc # "off" /\ cpc' = "next" /\ job' = job
        BY <1>11 DEF RecordDone
    <2>2. QED
        BY <2>1
<1>12. CASE Crash
    BY <1>12 DEF Crash, Killed
<1>13. ASSUME NEW shards \in Jobs, Start(shards)
       PROVE  Reached'
    <2>1. cpc' = "load" /\ job'.shards = Shards
        BY <1>13 DEF Start
    <2>2. QED
        BY <2>1
<1>14. CASE UNCHANGED vars
    <2>1. UNCHANGED <<done, cur, cpc, phase, job, pending, home, open, sealed>>
        BY <1>14 DEF vars, state, process
    <2>2. Written' = Written /\ Ready' = Ready
        BY <1>1, <2>1 DEF Written, Committed, Ready
    <2>3. PICK c : c = cur /\ cur' = c
        BY <2>1
    <2>4. Now(c)' = Now(c)
        BY <2>1, <2>3 DEF Now
    <2>5. QED
        BY <1>1, <2>1, <2>2, <2>3, <2>4
<1>15. QED
    BY <1>4, <1>5, <1>6, <1>7, <1>8, <1>9, <1>10, <1>11, <1>12, <1>13, <1>14 DEF Next, Step

\* build_manifest finds every slab whole.
LEMMA ManifestPasses ==
    ASSUME Stored, \A g \in Groups : Apart(g) /\ Whole(g)
    PROVE  ManifestOK
<1>1. ASSUME NEW g \in Groups, NEW i \in DOMAIN sealed[g], NEW k \in Slabs
      PROVE  Contiguous(sealed[g][i], k)
    <2>1. sealed[g][i] \in Names /\ IsInjective(sealed[g][i]) /\ Entire(sealed[g][i], k)
        BY DEF Stored, Filed, Apart, Whole
    <2>2. QED
        BY <2>1, EntireIsContiguous
<1>2. QED
    BY <1>1 DEF ManifestOK

\* A run for some of the shards only may append out of order: what is said of
\* the slabs is for the runs for all of them.
WholeInv ==
    /\ OnceInv /\ RestartsCleanly /\ \A g \in Groups : Apart(g)
    /\ "shard" \notin hit =>
          Ordered /\ Settled /\ Reached /\ \A g \in Groups : Whole(g)

LEMMA RestartsNext ==
    ASSUME WholeInv, [Next]_vars
    PROVE  RestartsCleanly'
<1>1. SUFFICES ASSUME Forgiven', cpc' = "failed"
               PROVE  FALSE
    BY DEF RestartsCleanly
<1>2. hit \subseteq hit' /\ hit' \subseteq {"resolve"}
    BY <1>1 DEF Forgiven, Next, Step, Load, Validate, NextShard, DeferSlabs, SealHeader, SealSave,
           CreateFile, CreateSave, AppendTensor, Advance, ResolveSlab, Resolved, RecordDone, Finalize,
           PublishManifest, PublishIndex, RecordComplete, Crash, Killed, Start, vars, history
<1>3. cpc # "failed"
    BY <1>2 DEF WholeInv, RestartsCleanly, Forgiven
<1>4. Stored /\ Placed /\ OnDisk
    BY DEF WholeInv, OnceInv, StoreInv
<1>5. Ordered /\ Settled /\ Reached /\ \A g \in Groups : Apart(g) /\ Whole(g)
    BY <1>2 DEF WholeInv
<1>6. CASE Load
    <2>1. io = "none" /\ ~saved /\ ~\A g \in Groups : out[g] = <<>>
        BY <1>1, <1>4, <1>6 DEF Load, Placed, Stored
    <2>2. QED
        BY <1>2, <1>4, <2>1 DEF OnDisk, Begun
<1>7. CASE Validate
    <2>1. PICK g \in Groups : g = phase
        BY <1>4 DEF Stored
    <2>2. ~Trusted(g)
        BY <1>1, <1>7, <2>1 DEF Validate
    <2>3. SealedIntact(g) /\ (open[g].is => OpenPresent(g))
        BY <1>4, KeptPasses DEF OnDisk
    <2>4. open[g].is => OpenFile(g).header \in {Placeholder, SealedHeader(open[g].names)}
        BY <1>2, <1>4 DEF OnDisk, Headed
    <2>5. QED
        BY <2>2, <2>3, <2>4 DEF Trusted, Adopted, OpenFile
<1>8. CASE NextShard
    <2>1. Left # {} /\ Min(Left) \notin src
        BY <1>1, <1>8 DEF NextShard
    <2>2. Left \in SUBSET Nat /\ Left \subseteq src
        BY <1>4, ConverterAssumption DEF ConverterAssumption, Left, Stored
    <2>3. QED
        BY <2>1, <2>2, MinIs
<1>9. CASE ResolveSlab
    <2>1. Ready # {} /\ ~Readable
        BY <1>1, <1>3, <1>9 DEF ResolveSlab
    <2>2. ShardsOf(First) \subseteq src
        BY <1>4 DEF Stored, ShardsOf, Members
    <2>3. QED
        BY <2>1, <2>2 DEF Readable
<1>10. CASE Finalize
    BY <1>1, <1>4, <1>5, <1>10, ManifestPasses DEF Finalize
<1>11. QED
    BY <1>1, <1>3, <1>6, <1>7, <1>8, <1>9, <1>10 DEF Next, Step, DeferSlabs, SealHeader, SealSave,
           CreateFile, CreateSave, AppendTensor, Advance, Resolved, RecordDone,
           PublishManifest, PublishIndex, RecordComplete, Crash, Killed, Start, vars

LEMMA HitGrows ==
    ASSUME [Next]_vars
    PROVE  hit \subseteq hit'
BY DEF Next, Step, Load, Validate, NextShard, DeferSlabs, SealHeader, SealSave,
       CreateFile, CreateSave, AppendTensor, Advance, ResolveSlab, Resolved, RecordDone, Finalize,
       PublishManifest, PublishIndex, RecordComplete, Crash, Killed, Start, vars, history

LEMMA WholeInit ==
    ASSUME Init
    PROVE  Ordered /\ Settled /\ Reached /\ \A g \in Groups : Apart(g) /\ Whole(g)
<1>1. /\ done = {} /\ pending = {} /\ cpc = "off"
      /\ \A g \in Groups : open[g] = NoFile /\ sealed[g] = <<>>
    BY DEF Init, Fresh
<1>2. Written = {}
    <2>1. \A name : ~Recorded(name)
        BY <1>1 DEF Recorded, NoFile, ToSet
    <2>2. QED
        BY <2>1, WrittenIs
<1>3. Ordered /\ Settled /\ Reached
    BY <1>1, <1>2 DEF Ordered, Sorted, Settled, Reached
<1>4. \A g \in Groups : Apart(g)
    BY <1>1 DEF Apart, NoFile, IsInjective
<1>5. \A g \in Groups : Whole(g)
    BY <1>1 DEF Whole, NoFile, Piece, At
<1>6. QED
    BY <1>3, <1>4, <1>5

\* The order in which the process goes through the shards and what it has of
\* each slab, across kills and restarts: a slab that was cut by a kill is the
\* next thing that process_shard appends to its stream.
THEOREM WholeInvariant == Spec => []WholeInv
<1>1. Init => WholeInv
    <2>1. ASSUME Init
          PROVE  RestartsCleanly /\ hit = {}
        BY <2>1 DEF Init, Fresh, RestartsCleanly
    <2>2. ASSUME Init, NEW g \in Groups
          PROVE  Once(g)
        BY <2>2, OnceInit
    <2>3. QED
        BY <2>1, <2>2, StoredInit, WholeInit DEF WholeInv, OnceInv, StoreInv
<1>2. ASSUME WholeInv, [Next]_vars
      PROVE  WholeInv'
    <2>1. OnceInv' /\ RestartsCleanly'
        BY <1>2, StoreNext, OnceNext, RestartsNext DEF WholeInv, OnceInv
    <2>2. \A g \in Groups : Apart(g)'
        BY <1>2, ApartNext DEF WholeInv, OnceInv, StoreInv
    <2>3. ASSUME "shard" \notin hit'
          PROVE  Ordered' /\ Settled' /\ Reached' /\ \A g \in Groups : Whole(g)'
        <3>1. "shard" \notin hit
            BY <1>2, <2>3, HitGrows
        <3>2. /\ Stored /\ Placed /\ OnDisk /\ OnDisk' /\ Ordered /\ Settled /\ Reached
              /\ \A g \in Groups : Once(g) /\ Apart(g) /\ Whole(g)
            BY <1>2, <2>1, <3>1 DEF WholeInv, OnceInv, StoreInv
        <3>3. QED
            BY <1>2, <2>3, <3>2, OrderNext, ReachedNext, WholeNext
    <2>4. QED
        BY <2>1, <2>2, <2>3 DEF WholeInv
<1>3. QED
    BY <1>1, <1>2, PTL DEF Spec

\* The suffix of a file that is a piece of a slab.
LEMMA PieceIsSuffix ==
    ASSUME NEW names \in Names, IsInjective(names), NEW k, Piece(names, k), At(names, k) # {}
    PROVE  \/ Contiguous(names, k)
           \/ At(names, k) = Len(names) - Cardinality(At(names, k)) + 1 .. Len(names)
<1>1. PICK a \in Nat, b \in Nat : /\ At(names, k) = a .. b
                                  /\ Members(k) \subseteq Range(names) \/ b = Len(names)
    BY DEF Piece
<1>2. CASE Members(k) \subseteq Range(names)
    <2>1. Entire(names, k)
        BY <1>1, <1>2 DEF Entire
    <2>2. QED
        BY <2>1, EntireIsContiguous
<1>3. CASE b = Len(names)
    <2>1. a <= b
        BY <1>1
    <2>2. Cardinality(At(names, k)) = b - a + 1
        BY <1>1, <2>1, IntervalSize
    <2>3. QED
        BY <1>1, <1>3, <2>2
<1>4. QED
    BY <1>1, <1>2, <1>3

\* After a kill at any step, any number of times: what the state file records
\* is on the disk and no tensor was written twice; unless a run for some of the
\* shards only came between, every slab is in one piece of one file, as the
\* loader reads it; and, when the kills hit no fragile moment, the converter
\* starts again without an error.
THEOREM DiskStaysSound == Spec => []DiskIsSound
<1>1. WholeInv => DiskIsSound
    <2>1. SUFFICES ASSUME WholeInv
                   PROVE  DiskIsSound
        OBVIOUS
    <2>2. RecordedIsOnDisk
        BY <2>1 DEF WholeInv, OnceInv, StoreInv, OnDisk, Kept, OpenFile, RecordedIsOnDisk
    <2>3. WrittenOnce
        BY <2>1 DEF WholeInv, OnceInv, Once, NamesOf, WrittenOnce
    <2>4. ASSUME "shard" \notin hit, NEW g \in Groups, NEW k \in Slabs
          PROVE  /\ \A i \in DOMAIN sealed[g] : Contiguous(sealed[g][i], k)
                 /\ At(open[g].names, k) # {} =>
                        \/ Contiguous(open[g].names, k)
                        \/ At(open[g].names, k) =
                               Len(open[g].names) - Cardinality(At(open[g].names, k)) + 1
                                   .. Len(open[g].names)
        <3>1. Stored /\ Apart(g) /\ Whole(g)
            BY <2>1, <2>4 DEF WholeInv, OnceInv, StoreInv
        <3>2. ASSUME NEW i \in DOMAIN sealed[g]
              PROVE  Contiguous(sealed[g][i], k)
            <4>1. sealed[g][i] \in Names /\ IsInjective(sealed[g][i]) /\ Entire(sealed[g][i], k)
                BY <3>1 DEF Stored, Filed, Apart, Whole
            <4>2. QED
                BY <4>1, EntireIsContiguous
        <3>3. open[g].names \in Names /\ IsInjective(open[g].names) /\ Piece(open[g].names, k)
            BY <3>1 DEF Stored, Filed, Apart, Whole
        <3>4. QED
            BY <3>2, <3>3, PieceIsSuffix
    <2>5. SlabsWhole
        BY <2>4 DEF SlabsWhole, At
    <2>6. QED
        BY <2>1, <2>2, <2>3, <2>5 DEF DiskIsSound, WholeInv
<1>2. QED
    BY <1>1, WholeInvariant, PTL

----------------------------------------------------------------------------
\* The names of a stream come in the order of a run that nothing stops
\* (InSequence): a shard is begun only when those before it are done, so that
\* all that is written comes before all that is not.

\* The shards that are done are the first ones, and what is not part of a
\* slab is written when its shard is done.
Initial == \A d \in done, s \in Shards \ done : d < s
Dense   == \A t \in Tensors : SlabOf[t] = NoSlab /\ home[t] \in done => t \in Written

\* A finite set of numbers has a greatest element.
LEMMA MaxIs ==
    ASSUME NEW T \in SUBSET Nat, IsFiniteSet(T), T # {}
    PROVE  Max(T) \in T /\ \A x \in T : x <= Max(T)
<1> DEFINE Bounded(n) == \A U \in SUBSET Nat :
               IsFiniteSet(U) /\ Cardinality(U) = n /\ U # {} => \E m \in U : \A x \in U : x <= m
           P == {n \in Nat : Bounded(n)}
<1>1. 0 \in P
    BY FS_EmptySet
<1>2. ASSUME NEW n \in Nat, n \in P
      PROVE  n + 1 \in P
    <2>1. SUFFICES ASSUME NEW U \in SUBSET Nat, IsFiniteSet(U), Cardinality(U) = n + 1, U # {}
                   PROVE  \E m \in U : \A x \in U : x <= m
        BY DEF P
    <2>2. PICK y \in U : TRUE
        BY <2>1
    <2>3. IsFiniteSet(U \ {y}) /\ Cardinality(U \ {y}) = n
        <3>1. Cardinality(U \ {y}) = Cardinality(U) - 1 /\ IsFiniteSet(U \ {y})
            BY <2>1, <2>2, FS_RemoveElement
        <3>2. QED
            BY <2>1, <3>1
    <2>4. CASE U \ {y} = {}
        BY <2>1, <2>2, <2>4
    <2>5. CASE U \ {y} # {}
        <3>1. PICK m \in U \ {y} : \A x \in U \ {y} : x <= m
            BY <1>2, <2>1, <2>3, <2>5
        <3>2. CASE y <= m
            BY <3>1, <3>2
        <3>3. CASE ~(y <= m)
            <4>1. \A x \in U : x <= y
                BY <2>1, <3>1, <3>3
            <4>2. QED
                BY <4>1
        <3>4. QED
            BY <3>2, <3>3
    <2>6. QED
        BY <2>4, <2>5
<1>3. Cardinality(T) \in Nat /\ Nat \subseteq P
    <2> HIDE DEF P
    <2>1. QED
        BY <1>1, <1>2, NatSet, FS_CardinalityType
<1>4. \E m \in T : \A x \in T : x <= m
    BY <1>3
<1>5. \E m \in T : \A x \in T : m >= x
    BY <1>4
<1>6. Max(T) \in T /\ \A x \in T : Max(T) >= x
    BY <1>5 DEF Max
<1>7. QED
    BY <1>6

\* The turn of a tensor is the last of the shards that it waits for.
LEMMA TurnIs ==
    ASSUME home \in [Tensors -> Shards], NEW t \in Tensors
    PROVE  /\ Awaits(t) \subseteq Shards /\ home[t] \in Awaits(t)
           /\ Turn(t) \in Awaits(t) /\ Turn(t) \in Nat
           /\ \A s \in Awaits(t) : s <= Turn(t) /\ s \in Nat
<1>1. Awaits(t) \subseteq Shards /\ home[t] \in Awaits(t)
    BY DEF Awaits, ShardsOf, Members
<1>2. Awaits(t) \in SUBSET Nat /\ IsFiniteSet(Awaits(t)) /\ Awaits(t) # {}
    BY <1>1, FS_Subset, ConverterAssumption DEF ConverterAssumption
<1>3. QED
    BY <1>1, <1>2, MaxIs DEF Turn

\* Of two tensors one comes before the other, and not the other way round.
LEMMA BeforeIsTotal ==
    ASSUME home \in [Tensors -> Shards], NEW t \in Tensors, NEW u \in Tensors, t # u
    PROVE  Before(t, u) \/ Before(u, t)
<1>1. Turn(t) \in Nat /\ Turn(u) \in Nat
    BY TurnIs
<1>2. PICK i \in DOMAIN Order, j \in DOMAIN Order : Order[i] = t /\ Order[j] = u
    BY Places
<1>3. i < j \/ j < i
    BY <1>2, ConverterAssumption DEF ConverterAssumption
<1>4. Late(t) = Late(u) \/ (Late(t) /\ ~Late(u)) \/ (Late(u) /\ ~Late(t))
    BY DEF Late
<1>5. CASE Turn(t) = Turn(u) /\ Late(t) = Late(u)
    BY <1>2, <1>3, <1>5 DEF Before
<1>6. CASE Turn(t) # Turn(u)
    BY <1>1, <1>6 DEF Before
<1>7. CASE Turn(t) = Turn(u) /\ ((Late(t) /\ ~Late(u)) \/ (Late(u) /\ ~Late(t)))
    BY <1>7 DEF Before
<1>8. QED
    BY <1>4, <1>5, <1>6, <1>7

LEMMA BeforeIsStrict ==
    ASSUME home \in [Tensors -> Shards], NEW t \in Tensors, NEW u \in Tensors, Before(t, u)
    PROVE  ~Before(u, t) /\ t # u
<1>1. Turn(t) \in Nat /\ Turn(u) \in Nat
    BY TurnIs
<1>2. ~(Late(t) /\ ~Late(t)) /\ (Late(t) = Late(u) => (Late(t) <=> Late(u)))
    OBVIOUS
<1>3. \A i, j, k, l \in DOMAIN Order :
          i < j /\ Order[i] = t /\ Order[j] = u => ~(k < l /\ Order[k] = u /\ Order[l] = t) /\ t # u
    BY ConverterAssumption DEF ConverterAssumption, IsInjective
<1>4. QED
    BY <1>1, <1>2, <1>3 DEF Before

\* A tensor that is not late is what its shard adds of itself; one that is
\* late is of a slab that its turn completes.
LEMMA OwnIs ==
    ASSUME home \in [Tensors -> Shards], NEW t \in Tensors, ~Late(t)
    PROVE  Own(t, Turn(t))
<1>1. home[t] = Turn(t) /\ Awaits(t) = {home[t]}
    BY TurnIs DEF Late
<1>2. SlabOf[t] \in Slabs => ShardsOf(SlabOf[t]) = {home[t]}
    BY <1>1, ConverterAssumption DEF ConverterAssumption, Awaits
<1>3. QED
    BY <1>1, <1>2 DEF Own, Split

LEMMA LateIs ==
    ASSUME home \in [Tensors -> Shards], NEW t \in Tensors, Late(t), Now(Turn(t))
    PROVE  Completing(SlabOf[t], Turn(t))
<1>1. SlabOf[t] \in Slabs /\ Awaits(t) = ShardsOf(SlabOf[t])
    BY ConverterAssumption DEF ConverterAssumption, Late, Awaits
<1>2. Turn(t) \in Awaits(t) /\ Awaits(t) # {Turn(t)}
    BY TurnIs DEF Late
<1>3. Awaits(t) \subseteq done \cup {Turn(t)}
    BY TurnIs DEF Now
<1>4. QED
    BY <1>1, <1>2, <1>3 DEF Completing, Split

\* Whatever waits for shards that are done is written.
LEMMA DoneIsWritten ==
    ASSUME Stored, Settled, Dense, NEW t \in Tensors, Awaits(t) \subseteq done
    PROVE  t \in Written
<1>1. home[t] \in done
    BY TurnIs DEF Stored
<1>2. CASE SlabOf[t] = NoSlab
    BY <1>1, <1>2 DEF Dense
<1>3. CASE SlabOf[t] # NoSlab
    <2>1. SlabOf[t] \in Slabs /\ t \in Members(SlabOf[t]) /\ Awaits(t) = ShardsOf(SlabOf[t])
        BY <1>3, ConverterAssumption DEF ConverterAssumption, Members, Awaits
    <2>2. home[t] \in ShardsOf(SlabOf[t])
        BY <2>1, TurnIs DEF Stored
    <2>3. QED
        BY <1>1, <2>1, <2>2 DEF Settled
<1>4. QED
    BY <1>2, <1>3

\* What is written of a stream, with or without the next tensor, is the first
\* part of it in the order of a run without a kill.
LEMMA Frontier ==
    ASSUME Stored, Initial, Ordered, Settled, Dense,
           NEW w, Written \subseteq w, \A c \in Shards : Now(c) => Sorted(w, c),
           NEW t \in Tensors, t \in w, \A s \in Awaits(t) \ done : Now(s),
           NEW u \in Tensors, GroupOf[u] = GroupOf[t], Before(u, t)
    PROVE  u \in w
<1>1. home \in [Tensors -> Shards] /\ done \subseteq Shards /\ Shards \subseteq Nat
    BY ConverterAssumption DEF ConverterAssumption, Stored
<1> DEFINE c == Turn(u)
           d == Turn(t)
<1>2. /\ c \in Awaits(u) /\ c \in Shards /\ c \in Nat
      /\ \A s \in Awaits(u) : s <= c /\ s \in Shards /\ s \in Nat
      /\ d \in Awaits(t) /\ d \in Shards /\ d \in Nat
    BY <1>1, TurnIs
<1>3. /\ c <= d
      /\ c = d => \/ ~Late(u) /\ Late(t)
                  \/ /\ Late(u) = Late(t)
                     /\ \E i, j \in DOMAIN Order : i < j /\ Order[i] = u /\ Order[j] = t
    BY <1>2 DEF Before
<1> HIDE DEF c, d
<1>4. CASE c \in done
    <2>1. ASSUME NEW s \in Awaits(u), s \notin done
          PROVE  FALSE
        <3>1. s \in Shards \ done /\ s <= c /\ s \in Nat /\ c \in Nat
            BY <1>2, <2>1
        <3>2. c < s
            BY <1>4, <3>1 DEF Initial
        <3>3. QED
            BY <3>1, <3>2
    <2>2. QED
        BY <2>1, DoneIsWritten
<1>5. CASE c \notin done
    <2>1. d \notin done
        BY <1>1, <1>2, <1>3, <1>5 DEF Initial
    <2>2. Now(d)
        BY <1>2, <2>1
    <2>3. c = d
        BY <1>1, <1>2, <1>3, <1>5, <2>2 DEF Now
    <2>4. Sorted(w, d)
        BY <1>2, <2>2
    <2>5. CASE Late(u)
        <3>1. Late(t) /\ \E i, j \in DOMAIN Order : i < j /\ Order[i] = u /\ Order[j] = t
            BY <1>3, <2>3, <2>5
        <3>2. Completing(SlabOf[u], d) /\ Completing(SlabOf[t], d)
            BY <1>1, <2>2, <2>3, <2>5, <3>1, LateIs DEF c, d
        <3>3. QED
            BY <2>4, <3>1, <3>2 DEF Sorted
    <2>6. CASE ~Late(u) /\ Late(t)
        <3>1. Own(u, d) /\ Completing(SlabOf[t], d)
            BY <1>1, <2>2, <2>3, <2>6, OwnIs, LateIs DEF c, d
        <3>2. QED
            BY <2>4, <3>1 DEF Sorted
    <2>7. CASE ~Late(u) /\ ~Late(t)
        <3>1. \E i, j \in DOMAIN Order : i < j /\ Order[i] = u /\ Order[j] = t
            BY <1>3, <2>3, <2>7
        <3>2. Own(u, d) /\ Own(t, d)
            BY <1>1, <2>3, <2>7, OwnIs DEF c, d
        <3>3. QED
            BY <2>4, <3>1, <3>2 DEF Sorted
    <2>8. QED
        BY <2>5, <2>6, <2>7
<1>6. QED
    BY <1>4, <1>5

\* The next tensor to append is the first that is missing of its stream.
Comes(g, t) ==
    /\ t \in Tensors \ Written /\ GroupOf[t] = g
    /\ \A u \in Tensors \ Written : GroupOf[u] = g /\ u # t => Before(t, u)

LEMMA UpcomingComes ==
    ASSUME Stored, Initial, Ordered, Settled, Reached, Dense, Appending
    PROVE  Comes(GroupOf[Upcoming], Upcoming)
<1> DEFINE t == Upcoming
           w == Written \cup {t}
<1>1. /\ Now(cur) /\ t \in Tensors /\ \A s \in Awaits(t) \ done : s = cur
      /\ home \in [Tensors -> Shards]
    BY UpcomingIs DEF Stored
<1>2. t \notin Written
    BY NextMissing DEF Appending, Missing
<1>3. \A c \in Shards : Now(c) => Sorted(w, c)
    <2>1. Sorted(w, cur)
        BY UpcomingFits
    <2>2. \A c \in Shards : Now(c) => c = cur
        BY <1>1, NowIsOne
    <2> HIDE DEF w
    <2>3. QED
        BY <2>1, <2>2
<1>4. Written \subseteq w /\ t \in w
    OBVIOUS
<1>5. \A s \in Awaits(t) \ done : Now(s)
    BY <1>1
<1>6. ASSUME NEW u \in Tensors \ Written, GroupOf[u] = GroupOf[t], u # t
      PROVE  Before(t, u)
    <2>1. u \notin w
        BY <1>6
    <2> HIDE DEF t, w
    <2>2. ~Before(u, t)
        BY <1>1, <1>3, <1>4, <1>5, <1>6, <2>1, Frontier
    <2>3. QED
        BY <1>1, <1>6, <2>2, BeforeIsTotal
<1>7. QED
    BY <1>1, <1>2, <1>6 DEF Comes

\* What is written of a stream is in that order.
InSequence(g) ==
    \A i, j \in DOMAIN NamesOf(g) : i < j => Before(NamesOf(g)[i], NamesOf(g)[j])

LEMMA WrittenFirst ==
    ASSUME Stored, Initial, Ordered, Settled, Dense,
           NEW t \in Tensors \ Written, NEW u \in Tensors, u \in Written, GroupOf[u] = GroupOf[t]
    PROVE  Before(u, t)
<1>1. \A c \in Shards : Now(c) => Sorted(Written, c)
    BY DEF Ordered
<1>2. \A s \in Awaits(u) \ done : Now(s)
    BY DEF Ordered
<1>3. ~Before(t, u)
    BY <1>1, <1>2, Frontier
<1>4. QED
    BY <1>3, BeforeIsTotal DEF Stored

----------------------------------------------------------------------------
\* FoldLeft with Pack, by induction over the places of a sequence: one more
\* tensor is one more Pack.

\* The function that FoldLeft(Pack, <<>>, s) defines, over the sets of places
\* of s; it is defined on all those sets.
Folding(s, n, it) ==
    it = [d \in SUBSET (1 .. n) |->
             IF d = {} THEN <<>> ELSE Pack(it[d \ {Max(d)}], s[Max(d)])]

LEMMA FoldIs ==
    ASSUME NEW s, NEW n \in Nat, DOMAIN s = 1 .. n
    PROVE  FoldLeft(Pack, <<>>, s) = (CHOOSE it : Folding(s, n, it))[1 .. n]
BY DEF FoldLeft, MapThenFoldSet, Folding

\* The greatest place of a set of places.
LEMMA MaxPlace ==
    ASSUME NEW n \in Nat, NEW d \in SUBSET (1 .. n), d # {}
    PROVE  Max(d) \in d /\ \A x \in d : x <= Max(d)
<1>1. IsFiniteSet(1 .. n) /\ d \in SUBSET Nat
    BY FS_Interval
<1>2. QED
    BY <1>1, FS_Subset, MaxIs

LEMMA FoldingExists ==
    ASSUME NEW s, NEW n \in Nat
    PROVE  \E it : Folding(s, n, it)
<1> DEFINE P == {m \in Nat : \E it : Folding(s, m, it)}
<1>1. 0 \in P
    <2> DEFINE it == [d \in SUBSET (1 .. 0) |-> <<>>]
    <2>1. \A d \in SUBSET (1 .. 0) : d = {}
        OBVIOUS
    <2>2. Folding(s, 0, it)
        BY <2>1 DEF Folding
    <2>3. QED
        BY <2>2
<1>2. ASSUME NEW m \in Nat, m \in P
      PROVE  m + 1 \in P
    <2>1. PICK f : Folding(s, m, f)
        BY <1>2
    <2> DEFINE Given(it, d) == IF d = {} THEN <<>> ELSE Pack(it[d \ {Max(d)}], s[Max(d)])
               it == [d \in SUBSET (1 .. m + 1) |-> Given(f, d)]
    <2>2. ASSUME NEW d \in SUBSET (1 .. m + 1), d # {}
          PROVE  d \ {Max(d)} \in SUBSET (1 .. m)
        <3>1. m + 1 \in Nat
            OBVIOUS
        <3>2. Max(d) \in d /\ \A x \in d : x <= Max(d)
            BY <2>2, <3>1, MaxPlace
        <3> HIDE DEF it
        <3>3. PICK k : k = Max(d)
            OBVIOUS
        <3>4. ASSUME NEW x \in d \ {k}
              PROVE  x \in 1 .. m
            <4>1. x \in 1 .. m + 1 /\ k \in 1 .. m + 1 /\ x <= k /\ x # k
                BY <3>2, <3>3, <3>4
            <4>2. QED
                BY <4>1
        <3>5. QED
            BY <3>3, <3>4
    <2>3. ASSUME NEW e \in SUBSET (1 .. m)
          PROVE  f[e] = Given(f, e) /\ e \in SUBSET (1 .. m + 1)
        <3> HIDE DEF it
        <3>1. f[e] = Given(f, e)
            BY <2>1 DEF Folding
        <3>2. 1 .. m \subseteq 1 .. m + 1
            OBVIOUS
        <3>3. QED
            BY <3>1, <3>2
    <2>4. \A d \in SUBSET (1 .. m + 1) : it[d] = Given(f, d)
        OBVIOUS
    <2>5. \A e \in SUBSET (1 .. m) : it[e] = f[e]
        BY <2>3, <2>4
    <2>6. it = [d \in SUBSET (1 .. m + 1) |-> it[d]]
        OBVIOUS
    <2> HIDE DEF it
    <2>7. \A d \in SUBSET (1 .. m + 1) : it[d] = Given(it, d)
        BY <2>2, <2>4, <2>5
    <2>8. it = [d \in SUBSET (1 .. m + 1) |-> Given(it, d)]
        BY <2>6, <2>7
    <2>9. Folding(s, m + 1, it)
        BY <2>8 DEF Folding
    <2>10. QED
        BY <2>9
<1>3. n \in P
    <2> HIDE DEF P
    <2>1. QED
        BY <1>1, <1>2, NatSet
<1>4. QED
    BY <1>3

\* At the first j places it only depends on the first j elements.
LEMMA FoldingAgrees ==
    ASSUME NEW r, NEW s, NEW m \in Nat, NEW n \in Nat, NEW f, NEW h,
           Folding(r, m, f), Folding(s, n, h), m <= n, \A i \in 1 .. m : r[i] = s[i]
    PROVE  f[1 .. m] = h[1 .. m]
<1> DEFINE P == {j \in Nat : j <= m => f[1 .. j] = h[1 .. j]}
<1>1. 0 \in P
    <2>1. 1 .. 0 = {}
        OBVIOUS
    <2>2. f[{}] = <<>> /\ h[{}] = <<>>
        BY DEF Folding
    <2>3. QED
        BY <2>1, <2>2
<1>2. ASSUME NEW j \in Nat, j \in P
      PROVE  j + 1 \in P
    <2>1. SUFFICES ASSUME j + 1 <= m
                   PROVE  f[1 .. j + 1] = h[1 .. j + 1]
        OBVIOUS
    <2> DEFINE d == 1 .. j + 1
    <2>2. d \in SUBSET (1 .. m) /\ d \in SUBSET (1 .. n) /\ d # {} /\ j + 1 \in d
        BY <2>1
    <2>3. Max(d) = j + 1
        <3>1. Max(d) \in d /\ \A x \in d : x <= Max(d)
            <4> HIDE DEF d
            <4>1. QED
                BY <2>2, MaxPlace
        <3>2. QED
            BY <2>2, <3>1
    <2>4. d \ {j + 1} = 1 .. j
        OBVIOUS
    <2>5. f[1 .. j] = h[1 .. j] /\ r[j + 1] = s[j + 1]
        BY <1>2, <2>1
    <2> HIDE DEF d
    <2>6. f[d] = Pack(f[d \ {Max(d)}], r[Max(d)]) /\ h[d] = Pack(h[d \ {Max(d)}], s[Max(d)])
        BY <2>2 DEF Folding
    <2>7. f[d] = h[d]
        BY <2>3, <2>4, <2>5, <2>6
    <2>8. QED
        BY <2>7 DEF d
<1>3. m \in P
    <2> HIDE DEF P
    <2>1. QED
        BY <1>1, <1>2, NatSet
<1>4. QED
    BY <1>3

\* One more tensor is packed after the others.
LEMMA PackEmpty == FoldLeft(Pack, <<>>, <<>>) = <<>>
<1>1. DOMAIN <<>> = 1 .. 0 /\ 1 .. 0 = {}
    OBVIOUS
<1>2. PICK f : Folding(<<>>, 0, f) /\ FoldLeft(Pack, <<>>, <<>>) = f[1 .. 0]
    BY <1>1, FoldIs, FoldingExists
<1>3. f[{}] = <<>>
    BY <1>2 DEF Folding
<1>4. QED
    BY <1>1, <1>2, <1>3

LEMMA PackAppend ==
    ASSUME NEW s \in Seq(Tensors), NEW t \in Tensors
    PROVE  FoldLeft(Pack, <<>>, Append(s, t)) = Pack(FoldLeft(Pack, <<>>, s), t)
<1> DEFINE n == Len(s)
           r == Append(s, t)
<1>1. /\ n \in Nat /\ DOMAIN s = 1 .. n /\ DOMAIN r = 1 .. n + 1
      /\ r[n + 1] = t /\ \A i \in 1 .. n : s[i] = r[i]
    OBVIOUS
<1> HIDE DEF n, r
<1>2. PICK f : Folding(s, n, f) /\ FoldLeft(Pack, <<>>, s) = f[1 .. n]
    <2>1. \E f : Folding(s, n, f)
        BY <1>1, FoldingExists
    <2>2. FoldLeft(Pack, <<>>, s) = (CHOOSE f : Folding(s, n, f))[1 .. n]
        BY <1>1, FoldIs
    <2>3. QED
        BY <2>1, <2>2
<1>3. PICK h : Folding(r, n + 1, h) /\ FoldLeft(Pack, <<>>, r) = h[1 .. n + 1]
    <2>1. n + 1 \in Nat
        BY <1>1
    <2>2. \E h : Folding(r, n + 1, h)
        BY <2>1, FoldingExists
    <2>3. FoldLeft(Pack, <<>>, r) = (CHOOSE h : Folding(r, n + 1, h))[1 .. n + 1]
        BY <1>1, <2>1, FoldIs
    <2>4. QED
        BY <2>2, <2>3
<1>4. f[1 .. n] = h[1 .. n]
    <2>1. n <= n + 1 /\ n + 1 \in Nat
        BY <1>1
    <2>2. QED
        BY <1>1, <1>2, <1>3, <2>1, FoldingAgrees
<1>5. h[1 .. n + 1] = Pack(h[1 .. n], t)
    <2> DEFINE d == 1 .. n + 1
    <2>1. /\ n + 1 \in Nat /\ d \in SUBSET (1 .. n + 1) /\ d # {}
          /\ n + 1 \in d /\ d \ {n + 1} = 1 .. n
        <3>1. n \in Nat
            BY <1>1
        <3>2. n + 1 \in d /\ d \ {n + 1} = 1 .. n
            BY <3>1
        <3>3. QED
            BY <3>1, <3>2
    <2>2. Max(d) = n + 1
        <3>1. Max(d) \in d /\ \A x \in d : x <= Max(d)
            <4> HIDE DEF d
            <4>1. QED
                BY <2>1, MaxPlace
        <3>2. QED
            BY <1>1, <2>1, <3>1
    <2> HIDE DEF d
    <2>3. h[d] = Pack(h[d \ {Max(d)}], r[Max(d)])
        BY <1>3, <2>1 DEF Folding
    <2>4. QED
        BY <1>1, <2>1, <2>2, <2>3 DEF d
<1>6. QED
    BY <1>2, <1>3, <1>4, <1>5 DEF r

----------------------------------------------------------------------------
\* The files of a stream are cut where Pack cuts them (Packed), and a sealed
\* file is one that nothing more fits in (Filled).

\* Something of stream g is still to be written.
Lacks(g) == \E t \in Tensors \ Written : GroupOf[t] = g

\* The file of stream g with these names is finished: what comes next goes to
\* another one.
FileEnds(g, names) ==
    /\ names # <<>>
    /\ \A t \in Tensors : Comes(g, t) =>
          RunOf(t) \cap Written = {} /\ Len(names) + Cardinality(RunOf(t)) > Target

\* A file whose header seals it, and the last one that was sealed when nothing
\* was written behind it, is finished; an empty file was begun for a tensor.
Filled(g) ==
    /\ open[g].is /\ OpenFile(g).header = SealedHeader(open[g].names) => FileEnds(g, open[g].names)
    /\ open[g].names = <<>> /\ sealed[g] # <<>> => FileEnds(g, sealed[g][Len(sealed[g])])
    /\ open[g].is /\ open[g].names = <<>> => Lacks(g)

\* The files hold what Pack makes of the names.
Packed(g) ==
    FoldLeft(Pack, <<>>, NamesOf(g)) =
        IF open[g].names = <<>> THEN sealed[g] ELSE Append(sealed[g], open[g].names)

\* There is no file after the open one.
NoMore(g) ==
    /\ FileNo(g) + 1 \notin DOMAIN out[g]
    /\ FileNo(g) \in DOMAIN out[g] => open[g].is \/ Lacks(g)

\* The run only ends when all is converted and all files are sealed, and what
\* it publishes are those files.
Finished ==
    /\ complete \/ cpc \in {"publish", "index", "complete"} =>
           done = Shards /\ \A g \in Groups : ~open[g].is
    /\ cpc = "index" => manifest = sealed
    /\ complete \/ cpc = "complete" => manifest = sealed /\ index = sealed

\* What the order is does not change.
LEMMA BeforeStays ==
    ASSUME home' = home
    PROVE  \A t, u : Before(t, u)' = Before(t, u)
<1>1. \A t : Awaits(t)' = Awaits(t)
    BY LayoutFixed DEF Awaits
<1>2. \A t : Turn(t)' = Turn(t) /\ Late(t)' = Late(t)
    BY <1>1 DEF Turn, Late
<1>3. QED
    BY <1>2 DEF Before

LEMMA FirstShardsNext ==
    ASSUME Stored, Placed, Reached, Initial, Dense, [Next]_vars
    PROVE  Initial' /\ Dense'
<1>1. home' = home /\ \A t : t \in Written => t \in Written'
    BY LayoutStays, WrittenChange
<1>2. CASE done' = done
    BY <1>1, <1>2 DEF Initial, Dense
<1>3. CASE RecordDone
    <2>1. /\ done' = done \cup {cur} /\ Now(cur) /\ cpc = "record"
          /\ \A t \in Tensors : Own(t, cur) => t \in Written
        BY <1>3 DEF RecordDone, Reached
    <2>2. PICK c : c = cur
        OBVIOUS
    <2>3. Shards \subseteq Nat /\ c \in Shards /\ \A s \in Shards \ done : c <= s
        BY <2>1, <2>2, ConverterAssumption DEF ConverterAssumption, Now
    <2>4. Initial'
        <3>1. ASSUME NEW s \in Shards \ (done \cup {c})
              PROVE  c < s
            BY <2>3, <3>1
        <3>2. QED
            BY <2>1, <2>2, <3>1 DEF Initial
    <2>5. ASSUME NEW t \in Tensors, SlabOf[t] = NoSlab, home[t] = c
          PROVE  t \in Written
        <3>1. Own(t, c)
            BY <2>5, ConverterAssumption DEF ConverterAssumption, Own, Split
        <3>2. QED
            BY <2>1, <2>2, <3>1
    <2>6. Dense'
        BY <1>1, <2>1, <2>2, <2>5 DEF Dense
    <2>7. QED
        BY <2>4, <2>6
<1>4. QED
    BY <1>2, <1>3, DoneChange

\* Only AppendTensor changes the names of a stream.
LEMMA NamesChange ==
    ASSUME Stored, Placed, [Next]_vars
    PROVE  \/ \A i \in Groups : NamesOf(i)' = NamesOf(i)
           \/ AppendTensor /\ Appending /\ \E g \in Groups, t \in Tensors :
                 /\ g = Stream /\ t = Upcoming /\ t \notin Written /\ GroupOf[t] = g
                 /\ NamesOf(g)' = Append(NamesOf(g), t)
                 /\ \A i \in Groups \ {g} : NamesOf(i)' = NamesOf(i)
<1>1. CASE UNCHANGED <<open, sealed>>
    BY <1>1 DEF NamesOf
<1>2. ASSUME NEW g \in Groups, Seal(g)
      PROVE  \A i \in Groups : NamesOf(i)' = NamesOf(i)
    BY <1>2, SealKeepsNames DEF Stored
<1>3. ASSUME NEW g \in Groups, open[g].names = <<>>, sealed' = sealed,
             open' = [open EXCEPT ![g] = [is |-> TRUE, names |-> <<>>]]
      PROVE  \A i \in Groups : NamesOf(i)' = NamesOf(i)
    <2>1. \A i \in Groups : open'[i].names = open[i].names
        BY <1>3 DEF Stored, Filed
    <2>2. QED
        BY <1>3, <2>1 DEF NamesOf
<1>4. ASSUME NEW g \in Groups, NEW t \in Tensors, sealed' = sealed,
             open' = [open EXCEPT ![g].names = Append(@, t)]
      PROVE  /\ NamesOf(g)' = Append(NamesOf(g), t)
             /\ \A i \in Groups \ {g} : NamesOf(i)' = NamesOf(i)
    <2> DEFINE F == FlattenSeq(sealed[g])
               N == open[g].names
    <2>1. F \in Seq(Tensors) /\ N \in Seq(Tensors)
        BY NamesAre DEF Stored
    <2>2. open'[g].names = Append(N, t) /\ \A i \in Groups \ {g} : open'[i] = open[i]
        BY <1>4 DEF Stored, Filed
    <2>3. NamesOf(g)' = F \o Append(N, t) /\ NamesOf(g) = F \o N
        BY <1>4, <2>2 DEF NamesOf
    <2> HIDE DEF F, N
    <2>4. NamesOf(g)' = Append(NamesOf(g), t)
        BY <2>1, <2>3, PushEnd
    <2>5. QED
        BY <1>4, <2>2, <2>4 DEF NamesOf
<1>5. QED
    BY <1>1, <1>2, <1>3, <1>4, RecordsChange

LEMMA SequenceNext ==
    ASSUME Stored, Placed, Initial, Ordered, Settled, Dense, [Next]_vars,
           \A g \in Groups : Once(g) /\ InSequence(g)
    PROVE  \A g \in Groups : InSequence(g)'
<1>1. \A t, u : Before(t, u)' = Before(t, u)
    BY LayoutStays, BeforeStays
<1>2. ASSUME NEW i \in Groups, NamesOf(i)' = NamesOf(i)
      PROVE  InSequence(i)'
    BY <1>1, <1>2 DEF InSequence
<1>3. ASSUME NEW g \in Groups, NEW t \in Tensors, t \notin Written, GroupOf[t] = g,
             NamesOf(g)' = Append(NamesOf(g), t)
      PROVE  InSequence(g)'
    <2>1. PICK s \in Seq(Tensors) : s = NamesOf(g)
        BY NamesAre DEF Stored
    <2>2. ASSUME NEW i \in DOMAIN s
          PROVE  Before(s[i], t)
        <3>1. s[i] \in Committed(g)
            BY <2>1, <2>2, NamesAre DEF Stored, Range
        <3>2. s[i] \in Tensors /\ s[i] \in Written /\ GroupOf[s[i]] = g
            BY <2>1, <2>2, <3>1, InFile DEF Once
        <3>3. QED
            BY <1>3, <3>2, WrittenFirst
    <2>3. \A i, j \in DOMAIN s : i < j => Before(s[i], s[j])
        BY <2>1 DEF InSequence
    <2>4. /\ DOMAIN Append(s, t) = DOMAIN s \cup {Len(s) + 1}
          /\ \A i \in DOMAIN s : Append(s, t)[i] = s[i]
          /\ Append(s, t)[Len(s) + 1] = t
        OBVIOUS
    <2>5. ASSUME NEW i \in DOMAIN Append(s, t), NEW j \in DOMAIN Append(s, t), i < j
          PROVE  Before(Append(s, t)[i], Append(s, t)[j])
        <3>1. i \in DOMAIN s
            BY <2>5
        <3>2. CASE j \in DOMAIN s
            BY <2>3, <2>4, <2>5, <3>1, <3>2
        <3>3. CASE j = Len(s) + 1
            BY <2>2, <2>4, <3>1, <3>3
        <3>4. QED
            BY <2>4, <2>5, <3>2, <3>3
    <2>6. QED
        BY <1>1, <1>3, <2>1, <2>5 DEF InSequence
<1>4. QED
    BY <1>2, <1>3, NamesChange

\* All is written when all shards are done.
LEMMA AllWritten ==
    ASSUME Stored, Settled, Dense, done = Shards
    PROVE  \A t \in Tensors : t \in Written
<1>1. \A t \in Tensors : Awaits(t) \subseteq done
    BY TurnIs DEF Stored
<1>2. QED
    BY <1>1, DoneIsWritten

\* Only one tensor comes next.
LEMMA ComesIsOne ==
    ASSUME Stored, NEW g, NEW t, NEW u, Comes(g, t), Comes(g, u)
    PROVE  t = u
BY BeforeIsStrict DEF Comes, Stored

\* What ends a file does not change while its stream does not.
LEMMA EndsStay ==
    ASSUME [Next]_vars, NEW g \in Groups,
           \A t \in Tensors : GroupOf[t] = g => (t \in Written' <=> t \in Written)
    PROVE  /\ Lacks(g)' = Lacks(g)
           /\ \A names : FileEnds(g, names) => FileEnds(g, names)'
<1>1. \A t, u : Before(t, u)' = Before(t, u)
    BY LayoutStays, BeforeStays
<1>2. \A t : Comes(g, t)' <=> Comes(g, t)
    BY <1>1 DEF Comes
<1>3. ASSUME NEW t \in Tensors, GroupOf[t] = g, RunOf(t) \cap Written = {}
      PROVE  RunOf(t) \cap Written' = {}
    <2>1. \A u \in RunOf(t) : u \in Tensors /\ GroupOf[u] = g
        BY <1>3, ConverterAssumption DEF ConverterAssumption, RunOf, Members
    <2>2. QED
        BY <1>3, <2>1
<1>4. \A t : Comes(g, t) => GroupOf[t] = g
    BY DEF Comes
<1>5. \A t : RunOf(t)' = RunOf(t)
    BY DEF RunOf, Members
<1>6. ASSUME NEW names, FileEnds(g, names)
      PROVE  FileEnds(g, names)'
    BY <1>2, <1>3, <1>4, <1>5, <1>6 DEF FileEnds
<1>7. Lacks(g)' = Lacks(g)
    BY DEF Lacks
<1>8. QED
    BY <1>6, <1>7

\* A file is sealed with the header that it got before.
LEMMA HeaderFirst ==
    ASSUME Stored, Placed, OnDisk, NEW g \in Groups,
           \/ Validate /\ g = phase /\ open[g].is /\ Adopted(g)
           \/ SealSave /\ g = Stream
    PROVE  open[g].is /\ OpenFile(g).header = SealedHeader(open[g].names)
<1>1. CASE Validate /\ g = phase /\ open[g].is /\ Adopted(g)
    BY <1>1 DEF Adopted, OpenFile
<1>2. CASE SealSave /\ g = Stream
    <2>1. io = "seal" /\ open[g].is /\ Past(g)
        BY <1>2 DEF SealSave, Placed, Past
    <2>2. HeaderNow(g) = SealedHeader(open[g].names)
        BY <1>2, <2>1 DEF HeaderNow
    <2>3. QED
        BY <2>1, <2>2 DEF OnDisk, Synced
<1>3. QED
    BY <1>1, <1>2

\* A header is rewritten when the file is finished.
LEMMA SealsFinished ==
    ASSUME Stored, Placed, Initial, Ordered, Settled, Reached, Dense, SealHeader,
           NEW g \in Groups, g = Stream, Filled(g)
    PROVE  FileEnds(g, open[g].names)
<1>1. CASE cpc = "seal"
    <2>1. done = Shards /\ open[g].is
        BY <1>1 DEF SealHeader, Sealing, Appending, Reached, Stream, Groups
    <2>2. \A t \in Tensors : t \in Written
        BY <2>1, AllWritten
    <2>3. open[g].names # <<>>
        BY <2>1, <2>2 DEF Filled, Lacks
    <2>4. QED
        BY <2>2, <2>3 DEF FileEnds, Comes
<1>2. CASE cpc # "seal"
    <2>1. Appending /\ Full(g, Upcoming) /\ GroupOf[Upcoming] = g
        BY <1>2 DEF SealHeader, Sealing, Stream
    <2>2. Comes(g, Upcoming)
        BY <2>1, UpcomingComes
    <2>3. \A t : Comes(g, t) => t = Upcoming
        BY <2>2, ComesIsOne
    <2>4. QED
        BY <2>1, <2>3 DEF FileEnds, Full
<1>3. QED
    BY <1>1, <1>2

LEMMA OtherFilled ==
    ASSUME Stored, Placed, OnDisk, [Next]_vars, NEW i \in Groups, Filled(i),
           open'[i] = open[i], sealed'[i] = sealed[i], ~(SealHeader /\ i = Stream),
           \A t \in Tensors : GroupOf[t] = i => (t \in Written' <=> t \in Written)
    PROVE  Filled(i)'
<1>1. Lacks(i)' = Lacks(i) /\ \A names : FileEnds(i, names) => FileEnds(i, names)'
    BY EndsStay
<1>2. open[i].is => OpenFile(i)'.header \in {OpenFile(i).header, TornHeader}
    BY HeaderStays
<1>3. TornHeader # SealedHeader(open[i].names)
    BY DEF TornHeader, SealedHeader, Torn
<1>4. QED
    BY <1>1, <1>2, <1>3 DEF Filled

LEMMA FilledNext ==
    ASSUME Stored, Placed, OnDisk, OnDisk', [Next]_vars,
           Initial, Ordered, Settled, Reached, Dense,
           \A g \in Groups : Once(g) /\ Filled(g)
    PROVE  \A g \in Groups : Filled(g)'
<1>1. CASE UNCHANGED <<open, sealed>>
    <2>1. SUFFICES ASSUME NEW g \in Groups
                   PROVE  Filled(g)'
        OBVIOUS
    <2>2. Written' = Written
        BY <1>1 DEF Written, Committed
    <2>3. CASE SealHeader /\ g = Stream
        <3>1. FileEnds(g, open[g].names)
            BY <2>3, SealsFinished
        <3>2. Lacks(g)' = Lacks(g) /\ \A names : FileEnds(g, names) => FileEnds(g, names)'
            BY <2>2, EndsStay
        <3>3. QED
            BY <1>1, <3>1, <3>2 DEF Filled
    <2>4. CASE ~(SealHeader /\ g = Stream)
        BY <1>1, <2>2, <2>4, OtherFilled
    <2>5. QED
        BY <2>3, <2>4
<1>2. ASSUME NEW g \in Groups, Seal(g), open[g].is, ~SealHeader,
             OpenFile(g).header = SealedHeader(open[g].names)
      PROVE  \A i \in Groups : Filled(i)'
    <2>1. Written' = Written
        BY <1>2, SealCommitsNothing DEF Stored
    <2>2. \A i \in Groups \ {g} : open'[i] = open[i] /\ sealed'[i] = sealed[i]
        BY <1>2 DEF Seal, Stored, Filed
    <2>3. Filled(g)'
        <3>1. PICK names \in Names : names = open[g].names
            BY DEF Stored, Filed
        <3>2. FileEnds(g, names)'
            BY <1>2, <2>1, <3>1, EndsStay DEF Filled
        <3>3. sealed[g] \in Seq(Names)
            BY DEF Stored, Filed
        <3>4. sealed'[g] = Append(sealed[g], names) /\ open'[g] = NoFile
            BY <1>2, <3>1 DEF Seal, Stored, Filed
        <3>5. sealed'[g][Len(sealed'[g])] = names
            BY <3>1, <3>3, <3>4
        <3>6. ~open'[g].is
            BY <3>4 DEF NoFile
        <3>7. QED
            BY <3>2, <3>5, <3>6 DEF Filled
    <2>4. QED
        BY <1>2, <2>1, <2>2, <2>3, OtherFilled
<1>3. ASSUME NEW g \in Groups, open'[g].is, Past(g)', io' = "none"
      PROVE  OpenFile(g)'.header # SealedHeader(open'[g].names)
    <2>1. HeaderNow(g)' = Placeholder
        BY <1>3 DEF HeaderNow
    <2>2. OpenFile(g)' = [header |-> HeaderNow(g)', data |-> open'[g].names]
        BY <1>3 DEF OnDisk, Synced
    <2>3. QED
        BY <2>1, <2>2 DEF Placeholder, SealedHeader
<1>4. CASE Validate /\ phase \in Groups /\ Seal(phase) /\ open[phase].is /\ Adopted(phase)
    <2>1. PICK g \in Groups : g = phase
        BY <1>4
    <2>2. ~SealHeader /\ OpenFile(g).header = SealedHeader(open[g].names)
        BY <1>4, <2>1, HeaderFirst DEF Validate, SealHeader, Sealing, Appending
    <2>3. QED
        BY <1>2, <1>4, <2>1, <2>2
<1>5. CASE SealSave /\ Stream \in Groups /\ Seal(Stream)
    <2>1. PICK g \in Groups : g = Stream
        BY <1>5
    <2>2. ~SealHeader /\ open[g].is /\ OpenFile(g).header = SealedHeader(open[g].names)
        BY <1>5, <2>1, HeaderFirst DEF SealSave, SealHeader, Sealing
    <2>3. QED
        BY <1>2, <1>5, <2>1, <2>2
<1>6. ASSUME CreateSave, NEW g \in Groups, g = Stream, open[g].names = <<>>, sealed' = sealed,
             open' = [open EXCEPT ![g] = [is |-> TRUE, names |-> <<>>]]
      PROVE  \A i \in Groups : Filled(i)'
    <2>1. /\ open'[g].is /\ open'[g].names = <<>>
          /\ \A i \in Groups : open'[i].names = open[i].names
          /\ \A i \in Groups \ {g} : open'[i] = open[i]
        BY <1>6 DEF Stored, Filed
    <2>2. Written' = Written
        BY <1>6, <2>1 DEF Written, Committed
    <2>3. io' = "none" /\ Past(g)' /\ ~SealHeader
        BY <1>6 DEF CreateSave, SealHeader, Sealing, Past, Placed
    <2>4. Lacks(g)
        <3>1. Todo # {} /\ cpc # "seal"
            BY <1>6 DEF CreateSave, Placed
        <3>2. Upcoming \in Tensors \ Written /\ GroupOf[Upcoming] = g
            BY <1>6, <3>1, NextMissing DEF Missing, Stream
        <3>3. QED
            BY <3>2 DEF Lacks
    <2>5. Lacks(g)' /\ \A names : FileEnds(g, names) => FileEnds(g, names)'
        BY <2>2, <2>4, EndsStay
    <2>6. OpenFile(g)'.header # SealedHeader(open'[g].names)
        BY <1>3, <2>1, <2>3
    <2>7. Filled(g)'
        BY <1>6, <2>1, <2>5, <2>6 DEF Filled
    <2>8. QED
        BY <1>6, <2>1, <2>2, <2>3, <2>7, OtherFilled
<1>7. ASSUME AppendTensor, NEW g \in Groups, NEW t \in Tensors, g = Stream, t = Upcoming,
             GroupOf[t] = g, Appending, sealed' = sealed,
             open' = [open EXCEPT ![g].names = Append(@, t)]
      PROVE  \A i \in Groups : Filled(i)'
    <2>1. /\ open'[g].names = Append(open[g].names, t) /\ open[g].names \in Names
          /\ \A i \in Groups \ {g} : open'[i] = open[i]
          /\ open'[g].is /\ io' = "none" /\ Past(g)' /\ ~SealHeader
        BY <1>7 DEF Stored, Filed, AppendTensor, Copying, Appending, SealHeader, Sealing, Past, process
    <2>2. Written' = Written \cup {t}
        BY <1>7, AppendCommitsOne DEF Stored
    <2>3. OpenFile(g)'.header # SealedHeader(open'[g].names)
        BY <1>3, <2>1
    <2>4. open'[g].names # <<>>
        BY <2>1 DEF Names
    <2>5. Filled(g)'
        BY <2>3, <2>4 DEF Filled
    <2>6. \A i \in Groups \ {g} : \A u \in Tensors : GroupOf[u] = i => (u \in Written' <=> u \in Written)
        BY <1>7, <2>2
    <2>7. QED
        BY <1>7, <2>1, <2>5, <2>6, OtherFilled
<1>8. QED
    BY <1>1, <1>4, <1>5, <1>6, <1>7, RecordsChange

\* Pack with the files of a stream: a new file is begun where Full has it.
LEMMA PackIs ==
    ASSUME NEW S \in Seq(Names), NEW N \in Names, NEW t \in Tensors
    PROVE  /\ S = <<>> => Pack(S, t) = Append(S, <<t>>)
           /\ (/\ \A i \in DOMAIN S : RunOf(t) \cap ToSet(S[i]) = {}
               /\ Len(S[Len(S)]) + Cardinality(RunOf(t)) > Target)
                  => Pack(S, t) = Append(S, <<t>>)
           /\ \/ \E i \in DOMAIN S : RunOf(t) \cap ToSet(S[i]) # {}
              \/ RunOf(t) \cap ToSet(N) # {}
              \/ ~(Len(N) + Cardinality(RunOf(t)) > Target)
              => Pack(Append(S, N), t) = Append(S, Append(N, t))
<1>1. S = <<>> => Pack(S, t) = Append(S, <<t>>)
    BY DEF Pack
<1>2. (/\ \A i \in DOMAIN S : RunOf(t) \cap ToSet(S[i]) = {}
       /\ Len(S[Len(S)]) + Cardinality(RunOf(t)) > Target) => Pack(S, t) = Append(S, <<t>>)
    BY DEF Pack
<1>3. ASSUME \/ \E i \in DOMAIN S : RunOf(t) \cap ToSet(S[i]) # {}
             \/ RunOf(t) \cap ToSet(N) # {}
             \/ ~(Len(N) + Cardinality(RunOf(t)) > Target)
      PROVE  Pack(Append(S, N), t) = Append(S, Append(N, t))
    <2> DEFINE F == Append(S, N)
    <2>1. /\ F \in Seq(Names) /\ F # <<>> /\ Len(F) = Len(S) + 1 /\ F[Len(F)] = N
          /\ DOMAIN F = DOMAIN S \cup {Len(F)} /\ \A i \in DOMAIN S : F[i] = S[i]
        OBVIOUS
    <2>2. [F EXCEPT ![Len(F)] = Append(@, t)] = Append(S, Append(N, t))
        <3>1. Append(N, t) \in Names
            BY DEF Names
        <3>2. PICK M \in Names : M = Append(N, t)
            BY <3>1
        <3>3. [F EXCEPT ![Len(F)] = M] = Append(S, M)
            <4>1. /\ Append(S, M) \in Seq(Names) /\ Len(Append(S, M)) = Len(S) + 1
                  /\ \A i \in 1 .. Len(S) : Append(S, M)[i] = S[i]
                  /\ Append(S, M)[Len(S) + 1] = M
                OBVIOUS
            <4> HIDE DEF F
            <4>2. /\ [F EXCEPT ![Len(F)] = M] \in Seq(Names)
                  /\ Len([F EXCEPT ![Len(F)] = M]) = Len(S) + 1
                  /\ \A i \in 1 .. Len(S) : [F EXCEPT ![Len(F)] = M][i] = S[i]
                  /\ [F EXCEPT ![Len(F)] = M][Len(S) + 1] = M
                BY <2>1, ExceptSeq
            <4> DEFINE A == Append(S, M)
                       B == [F EXCEPT ![Len(F)] = M]
            <4> HIDE DEF A, B
            <4>3. \A i \in 1 .. Len(A) : A[i] = B[i]
                BY <4>1, <4>2 DEF A, B
            <4>4. A = B
                BY <4>1, <4>2, <4>3, SeqEqual DEF A, B
            <4>5. QED
                BY <4>4 DEF A, B
        <3>4. [F EXCEPT ![Len(F)] = Append(@, t)] = [F EXCEPT ![Len(F)] = M]
            BY <2>1, <3>2
        <3>5. QED
            BY <3>2, <3>3, <3>4
    <2> HIDE DEF F
    <2>3. ~(/\ \A i \in DOMAIN F : RunOf(t) \cap ToSet(F[i]) = {}
            /\ Len(F[Len(F)]) + Cardinality(RunOf(t)) > Target)
        BY <1>3, <2>1
    <2>4. Pack(F, t) = [F EXCEPT ![Len(F)] = Append(@, t)]
        BY <2>1, <2>3 DEF Pack
    <2>5. QED
        BY <2>2, <2>4 DEF F
<1>4. QED
    BY <1>1, <1>2, <1>3

LEMMA AppendKeepsPacked ==
    ASSUME Stored, Placed, Initial, Ordered, Settled, Reached, Dense,
           \A h \in Groups : Once(h) /\ Filled(h) /\ Packed(h),
           AppendTensor, Appending, NEW g \in Groups, NEW t \in Tensors, g = Stream, t = Upcoming,
           GroupOf[t] = g, sealed' = sealed, open' = [open EXCEPT ![g].names = Append(@, t)],
           NamesOf(g)' = Append(NamesOf(g), t)
    PROVE  Packed(g)'
<1>1. /\ open[g].is /\ ~Full(g, t) /\ Comes(g, t)
    BY UpcomingComes DEF AppendTensor, Copying
<1>2. NamesOf(g) \in Seq(Tensors)
    BY NamesAre DEF Stored
<1>3. PICK S \in Seq(Names), N \in Names : S = sealed[g] /\ N = open[g].names
    BY DEF Stored, Filed
<1>4. open'[g].names = Append(N, t) /\ Append(N, t) # <<>> /\ sealed'[g] = S
    <2>1. open'[g].names = Append(open[g].names, t)
        BY DEF Stored, Filed
    <2>2. Append(N, t) # <<>>
        BY DEF Names
    <2>3. open'[g].names = Append(N, t)
        BY <1>3, <2>1
    <2>4. sealed'[g] = S
        BY <1>3
    <2>5. QED
        BY <2>2, <2>3, <2>4
<1>5. FoldLeft(Pack, <<>>, NamesOf(g)') = Pack(FoldLeft(Pack, <<>>, NamesOf(g)), t)
    BY <1>2, PackAppend
<1>6. FoldLeft(Pack, <<>>, NamesOf(g)) = IF N = <<>> THEN S ELSE Append(S, N)
    BY <1>3 DEF Packed
<1>7. Pack(FoldLeft(Pack, <<>>, NamesOf(g)), t) = Append(S, Append(N, t))
    <2>1. CASE N = <<>>
        <3>1. Append(N, t) = <<t>>
            BY <2>1
        <3>2. CASE S = <<>>
            BY <1>6, <2>1, <3>1, <3>2, PackIs
        <3>3. CASE S # <<>>
            <4>1. RunOf(t) \cap Written = {} /\ Len(S[Len(S)]) + Cardinality(RunOf(t)) > Target
                BY <1>1, <1>3, <2>1, <3>3 DEF Filled, FileEnds
            <4>2. \A i \in DOMAIN S : ToSet(S[i]) \subseteq Written
                BY <1>3 DEF Committed, Written
            <4>3. \A i \in DOMAIN S : RunOf(t) \cap ToSet(S[i]) = {}
                BY <4>1, <4>2
            <4>4. Pack(S, t) = Append(S, <<t>>)
                BY <4>1, <4>3, PackIs
            <4>5. QED
                BY <1>6, <2>1, <3>1, <4>4
        <3>4. QED
            BY <3>2, <3>3
    <2>2. CASE N # <<>>
        <3>1. RunOf(t) \cap Written # {} \/ ~(Len(N) + Cardinality(RunOf(t)) > Target)
            BY <1>1, <1>3, <2>2 DEF Full
        <3>2. ASSUME NEW u \in RunOf(t), u \in Written
              PROVE  \/ \E i \in DOMAIN S : RunOf(t) \cap ToSet(S[i]) # {}
                     \/ RunOf(t) \cap ToSet(N) # {}
            <4>1. GroupOf[u] = g
                BY <3>2, ConverterAssumption DEF ConverterAssumption, RunOf, Members
            <4>2. PICK h \in Groups : u \in Committed(h)
                BY <3>2 DEF Written
            <4>3. u \in Committed(g)
                BY <4>1, <4>2, InStream DEF Stored
            <4>4. u \in ToSet(N) \/ \E i \in DOMAIN S : u \in ToSet(S[i])
                BY <1>3, <4>3 DEF Committed
            <4>5. QED
                BY <3>2, <4>4
        <3>3. Pack(Append(S, N), t) = Append(S, Append(N, t))
            BY <3>1, <3>2, PackIs
        <3>4. QED
            BY <1>6, <2>2, <3>3
    <2>3. QED
        BY <2>1, <2>2
<1>8. FoldLeft(Pack, <<>>, NamesOf(g)') =
          IF open'[g].names = <<>> THEN sealed'[g] ELSE Append(sealed'[g], open'[g].names)
    BY <1>4, <1>5, <1>7
<1>9. QED
    BY <1>8 DEF Packed

LEMMA PackedNext ==
    ASSUME Stored, Placed, OnDisk, [Next]_vars, Initial, Ordered, Settled, Reached, Dense,
           \A g \in Groups : Once(g) /\ Filled(g) /\ Packed(g)
    PROVE  \A g \in Groups : Packed(g)'
<1>1. ASSUME NEW i \in Groups, NamesOf(i)' = NamesOf(i), open'[i].names = open[i].names,
             sealed'[i] = sealed[i]
      PROVE  Packed(i)'
    <2>1. FoldLeft(Pack, <<>>, NamesOf(i)') =
              IF open'[i].names = <<>> THEN sealed'[i] ELSE Append(sealed'[i], open'[i].names)
        BY <1>1 DEF Packed
    <2>2. QED
        BY <2>1 DEF Packed
<1>2. CASE UNCHANGED <<open, sealed>>
    <2>1. \A i \in Groups : NamesOf(i)' = NamesOf(i)
        BY <1>2 DEF NamesOf
    <2>2. QED
        BY <1>1, <1>2, <2>1
<1>3. ASSUME NEW g \in Groups, Seal(g), open[g].is, OpenFile(g).header = SealedHeader(open[g].names)
      PROVE  \A i \in Groups : Packed(i)'
    <2>1. \A i \in Groups : NamesOf(i)' = NamesOf(i)
        BY <1>3, SealKeepsNames DEF Stored
    <2>2. open[g].names # <<>>
        BY <1>3 DEF Filled, FileEnds
    <2>3. sealed'[g] = Append(sealed[g], open[g].names) /\ open'[g].names = <<>>
          /\ \A i \in Groups \ {g} : open'[i] = open[i] /\ sealed'[i] = sealed[i]
        BY <1>3 DEF Seal, Stored, Filed, NoFile
    <2>4. FoldLeft(Pack, <<>>, NamesOf(g)') =
              IF open'[g].names = <<>> THEN sealed'[g] ELSE Append(sealed'[g], open'[g].names)
        BY <2>1, <2>2, <2>3 DEF Packed
    <2>5. Packed(g)'
        BY <2>4 DEF Packed
    <2>6. QED
        BY <1>1, <2>1, <2>3, <2>5
<1>4. ASSUME CreateSave, NEW g \in Groups, open[g].names = <<>>, sealed' = sealed,
             open' = [open EXCEPT ![g] = [is |-> TRUE, names |-> <<>>]]
      PROVE  \A i \in Groups : Packed(i)'
    <2>1. \A i \in Groups : open'[i].names = open[i].names
        BY <1>4 DEF Stored, Filed
    <2>2. \A i \in Groups : NamesOf(i)' = NamesOf(i)
        BY <1>4, <2>1 DEF NamesOf
    <2>3. QED
        BY <1>1, <1>4, <2>1, <2>2
<1>5. ASSUME AppendTensor, Appending, NEW g \in Groups, NEW t \in Tensors, g = Stream, t = Upcoming,
             GroupOf[t] = g, sealed' = sealed, open' = [open EXCEPT ![g].names = Append(@, t)]
      PROVE  \A i \in Groups : Packed(i)'
    <2>1. /\ open'[g].names = Append(open[g].names, t)
          /\ \A i \in Groups \ {g} : open'[i] = open[i]
        BY <1>5 DEF Stored, Filed
    <2>2. \A i \in Groups \ {g} : NamesOf(i)' = NamesOf(i)
        BY <1>5, <2>1 DEF NamesOf
    <2>3. NamesOf(g)' = Append(NamesOf(g), t)
        <3> DEFINE F == FlattenSeq(sealed[g])
                   N == open[g].names
        <3>1. F \in Seq(Tensors) /\ N \in Seq(Tensors)
            BY NamesAre DEF Stored
        <3>2. NamesOf(g)' = F \o Append(N, t) /\ NamesOf(g) = F \o N
            BY <1>5, <2>1 DEF NamesOf
        <3> HIDE DEF F, N
        <3>3. QED
            BY <3>1, <3>2, PushEnd
    <2>4. Packed(g)'
        BY <1>5, <2>3, AppendKeepsPacked
    <2>5. QED
        BY <1>1, <1>5, <2>1, <2>2, <2>4
<1>6. CASE Validate /\ phase \in Groups /\ Seal(phase) /\ open[phase].is /\ Adopted(phase)
    <2>1. PICK g \in Groups : g = phase
        BY <1>6
    <2>2. OpenFile(g).header = SealedHeader(open[g].names)
        BY <1>6, <2>1, HeaderFirst
    <2>3. QED
        BY <1>3, <1>6, <2>1, <2>2
<1>7. CASE SealSave /\ Stream \in Groups /\ Seal(Stream)
    <2>1. PICK g \in Groups : g = Stream
        BY <1>7
    <2>2. open[g].is /\ OpenFile(g).header = SealedHeader(open[g].names)
        BY <1>7, <2>1, HeaderFirst
    <2>3. QED
        BY <1>3, <1>7, <2>1, <2>2
<1>8. QED
    BY <1>2, <1>4, <1>5, <1>6, <1>7, RecordsChange

----------------------------------------------------------------------------
\* No file is too many, and the run ends with the last one sealed: the output
\* files are those of Uninterrupted.

\* A file changes in place, and only a new one adds to the files of a stream.
LEMMA SameFiles ==
    ASSUME out \in [Groups -> Seq(Files)], NEW g, NEW n, NEW x,
           out' = WithHeader(g, n, x) \/ out' = WithData(g, n, x)
    PROVE  \A i \in Groups : DOMAIN out'[i] = DOMAIN out[i]
BY DEF WithHeader, WithData

LEMMA FilesChange ==
    ASSUME Stored, Placed, OnDisk, [Next]_vars, NEW i \in Groups
    PROVE  \/ DOMAIN out'[i] = DOMAIN out[i]
           \/ Creating /\ i = Stream /\ DOMAIN out'[i] = 1 .. Len(sealed[i]) + 1
<1>1. out \in [Groups -> Seq(Files)] /\ \A g \in Groups : Kept(g)
    BY DEF Stored, OnDisk
<1>2. CASE UNCHANGED out
    BY <1>2
<1>3. ASSUME NEW g, NEW n, NEW x, out' = WithHeader(g, n, x) \/ out' = WithData(g, n, x)
      PROVE  DOMAIN out'[i] = DOMAIN out[i]
    BY <1>1, <1>3, SameFiles
<1>4. ASSUME Creating, NEW hd \in Headers, out' = Created(Stream, hd)
      PROVE  \/ DOMAIN out'[i] = DOMAIN out[i]
             \/ i = Stream /\ DOMAIN out'[i] = 1 .. Len(sealed[i]) + 1
    <2>1. PICK g \in Groups : g = Stream
        BY <1>4, StreamIsOne DEF Creating, Appending
    <2>2. sealed[g] \in Seq(Names)
        BY DEF Stored, Filed
    <2>3. /\ \A h \in Groups \ {g} : out'[h] = out[h]
          /\ DOMAIN out'[g] = 1 .. Len(sealed[g]) + 1
        BY <1>1, <1>4, <2>1, <2>2, CreatedIs
    <2>4. QED
        BY <2>1, <2>3
<1>5. Placeholder \in Headers /\ TornHeader \in Headers
    BY DEF Placeholder, TornHeader, Headers
<1>6. CASE Validate
    BY <1>2, <1>3, <1>6 DEF Validate, Truncated, WithData
<1>7. CASE SealHeader
    BY <1>3, <1>7 DEF SealHeader, WithHeader
<1>8. CASE CreateFile
    BY <1>4, <1>5, <1>8 DEF CreateFile
<1>9. CASE AppendTensor
    BY <1>3, <1>9 DEF AppendTensor, WithData
<1>10. CASE Crash
    <2>1. CASE Creating /\ out' = Created(Stream, TornHeader)
        BY <1>4, <1>5, <2>1
    <2>2. CASE out' = [out EXCEPT ![Stream][FileNo(Stream)].header = TornHeader]
        BY <1>3, <2>2 DEF WithHeader
    <2>3. CASE \E x : out' = [out EXCEPT ![Stream][FileNo(Stream)].data =
                                 WriteAt(@, Len(open[Stream].names), x)]
        BY <1>3, <2>3 DEF WithData
    <2>4. QED
        BY <1>2, <1>10, <2>1, <2>2, <2>3 DEF Crash, Killed, Debris
<1>11. QED
    BY <1>2, <1>6, <1>7, <1>8, <1>9, <1>10 DEF Next, Step, Load, NextShard, DeferSlabs, SealSave,
           CreateSave, Advance, ResolveSlab, Resolved, RecordDone, Finalize, PublishManifest,
           PublishIndex, RecordComplete, Start, vars

LEMMA NoMoreNext ==
    ASSUME Stored, Placed, OnDisk, [Next]_vars, \A g \in Groups : NoMore(g)
    PROVE  \A g \in Groups : NoMore(g)'
<1>1. SUFFICES ASSUME NEW i \in Groups
               PROVE  NoMore(i)'
    OBVIOUS
<1>2. /\ DOMAIN out[i] = 1 .. Len(out[i]) /\ Len(out[i]) \in Nat
      /\ sealed[i] \in Seq(Names) /\ Len(sealed[i]) \in Nat
      /\ FileNo(i) = Len(sealed[i]) + 1
    BY DEF Stored, Filed, FileNo
<1>3. \/ DOMAIN out'[i] = DOMAIN out[i]
      \/ Creating /\ i = Stream /\ DOMAIN out'[i] = 1 .. Len(sealed[i]) + 1
    BY FilesChange
<1>4. CASE UNCHANGED <<open, sealed>>
    <2>1. Written' = Written /\ FileNo(i)' = FileNo(i)
        BY <1>4 DEF Written, Committed, FileNo
    <2>2. Lacks(i)' = Lacks(i)
        BY <2>1 DEF Lacks
    <2>3. CASE DOMAIN out'[i] = DOMAIN out[i]
        BY <1>4, <2>1, <2>2, <2>3 DEF NoMore
    <2>4. CASE Creating /\ i = Stream /\ DOMAIN out'[i] = 1 .. Len(sealed[i]) + 1
        <3>1. Lacks(i)
            BY <2>4, NextMissing DEF Creating, Appending, Missing, Stream, Lacks
        <3>2. FileNo(i) + 1 \notin DOMAIN out'[i]
            BY <1>2, <2>4
        <3>3. QED
            BY <2>1, <2>2, <3>1, <3>2 DEF NoMore
    <2>5. QED
        BY <1>3, <2>3, <2>4
<1>5. CASE ~UNCHANGED <<open, sealed>>
    <2>1. ~Creating \/ AppendTensor \/ CreateSave
        BY <1>5, RecordsChange DEF Creating, Appending, Validate, SealSave
    <2>2. DOMAIN out'[i] = DOMAIN out[i]
        <3>1. CreateSave => out' = out
            BY DEF CreateSave
        <3>2. AppendTensor => open[Stream].is
            BY DEF AppendTensor, Copying
        <3>3. QED
            BY <1>3, <2>1, <3>1, <3>2 DEF Creating
    <2>3. ASSUME NEW g \in Groups, Seal(g), open[g].is
          PROVE  NoMore(i)'
        <3>1. CASE i = g
            <4>1. sealed'[g] = Append(sealed[g], open[g].names)
                BY <2>3 DEF Seal, Stored, Filed
            <4>2. Len(sealed'[g]) = Len(sealed[g]) + 1
                BY <1>2, <3>1, <4>1
            <4>3. FileNo(g)' = FileNo(g) + 1
                BY <4>2 DEF FileNo
            <4>4. FileNo(g) + 1 \notin DOMAIN out'[g] /\ FileNo(g) + 2 \notin DOMAIN out'[g]
                BY <1>2, <2>2, <3>1 DEF NoMore
            <4>5. FileNo(g)' + 1 = FileNo(g) + 2
                BY <1>2, <3>1, <4>3
            <4>6. QED
                BY <3>1, <4>3, <4>4, <4>5 DEF NoMore
        <3>2. CASE i # g
            <4>1. open'[i] = open[i] /\ sealed'[i] = sealed[i]
                BY <2>3, <3>2 DEF Seal, Stored, Filed
            <4>2. Written' = Written
                BY <2>3, SealCommitsNothing DEF Stored
            <4>3. Lacks(i)' = Lacks(i) /\ FileNo(i)' = FileNo(i)
                BY <4>1, <4>2 DEF Lacks, FileNo
            <4>4. QED
                BY <2>2, <4>1, <4>3 DEF NoMore
        <3>3. QED
            BY <3>1, <3>2
    <2>4. ASSUME NEW g \in Groups, sealed' = sealed, open'[g].is,
                 \A h \in Groups \ {g} : open'[h] = open[h],
                 \A t \in Tensors : GroupOf[t] # g => (t \in Written' <=> t \in Written)
          PROVE  NoMore(i)'
        <3>1. FileNo(i)' = FileNo(i)
            BY <2>4 DEF FileNo
        <3>2. CASE i = g
            BY <2>2, <2>4, <3>1, <3>2 DEF NoMore
        <3>3. CASE i # g
            <4>1. Lacks(i)' = Lacks(i)
                BY <2>4, <3>3 DEF Lacks
            <4>2. QED
                BY <2>2, <2>4, <3>1, <3>3, <4>1 DEF NoMore
        <3>4. QED
            BY <3>2, <3>3
    <2>5. ASSUME NEW g \in Groups, open[g].names = <<>>, sealed' = sealed,
                 open' = [open EXCEPT ![g] = [is |-> TRUE, names |-> <<>>]]
          PROVE  NoMore(i)'
        <3>1. /\ open'[g].is /\ \A h \in Groups \ {g} : open'[h] = open[h]
              /\ \A h \in Groups : open'[h].names = open[h].names
            BY <2>5 DEF Stored, Filed
        <3>2. Written' = Written
            BY <2>5, <3>1 DEF Written, Committed
        <3>3. QED
            BY <2>4, <2>5, <3>1, <3>2
    <2>6. ASSUME AppendTensor, NEW g \in Groups, NEW t \in Tensors, g = Stream, GroupOf[t] = g,
                 sealed' = sealed, open' = [open EXCEPT ![g].names = Append(@, t)]
          PROVE  NoMore(i)'
        <3>1. open'[g].is /\ \A h \in Groups \ {g} : open'[h] = open[h]
            BY <2>6 DEF AppendTensor, Copying, Stored, Filed
        <3>2. Written' = Written \cup {t}
            BY <2>6, AppendCommitsOne DEF Stored
        <3>3. QED
            BY <2>4, <2>6, <3>1, <3>2
    <2>7. CASE Validate /\ phase \in Groups /\ Seal(phase) /\ open[phase].is
        <3>1. PICK g \in Groups : g = phase
            BY <2>7
        <3>2. QED
            BY <2>3, <2>7, <3>1
    <2>8. CASE SealSave /\ Stream \in Groups /\ Seal(Stream)
        <3>1. PICK g \in Groups : g = Stream
            BY <2>8
        <3>2. open[g].is
            BY <2>8, <3>1 DEF SealSave, Placed
        <3>3. QED
            BY <2>3, <2>8, <3>1, <3>2
    <2>9. QED
        BY <1>5, <2>5, <2>6, <2>7, <2>8, RecordsChange
<1>6. QED
    BY <1>4, <1>5

\* What is published is what was sealed, which no later run changes.
LEMMA FinishedNext ==
    ASSUME Stored, Placed, Reached, Finished, [Next]_vars
    PROVE  Finished'
<1>1. ASSUME complete \/ cpc \in {"publish", "index", "complete"}
      PROVE  done' = done /\ UNCHANGED <<open, sealed>>
    <2>1. done = Shards /\ \A g \in Groups : ~open[g].is
        BY <1>1 DEF Finished
    <2>2. cpc \notin {"defer", "write", "resolve", "record"}
        BY <2>1 DEF Reached, Now
    <2>3. done' = done
        BY <2>2, DoneChange DEF RecordDone
    <2>4. ~CreateSave /\ ~AppendTensor /\ ~SealSave
        <3>1. io \in {"none"} \/ cpc = "seal"
            BY <2>2 DEF Placed, Stored
        <3>2. ~CreateSave /\ ~AppendTensor
            BY <2>2, <3>1 DEF CreateSave, AppendTensor, Copying, Appending, Placed
        <3>3. ~SealSave
            <4>1. ASSUME SealSave
                  PROVE  FALSE
                <5>1. io = "seal" /\ cpc = "seal" /\ open[Stream].is
                    BY <2>2, <4>1 DEF SealSave, Placed
                <5>2. Stream \in Groups
                    BY <5>1, StreamIsOne
                <5>3. QED
                    BY <2>1, <5>1, <5>2
            <4>2. QED
                BY <4>1
        <3>4. QED
            BY <3>2, <3>3
    <2>5. QED
        BY <2>1, <2>3, <2>4, RecordsChange
<1>2. CASE UNCHANGED <<manifest, index, complete, cpc>>
    BY <1>1, <1>2 DEF Finished
<1>3. CASE cpc' \notin {"publish", "index", "complete"} /\ UNCHANGED <<manifest, index, complete>>
    BY <1>1, <1>3 DEF Finished
<1>4. CASE Finalize /\ cpc' = "publish"
    BY <1>1, <1>4 DEF Finalize, Finished, Reached, product, state
<1>5. CASE PublishManifest
    BY <1>1, <1>5 DEF PublishManifest, Finished, state
<1>6. CASE PublishIndex
    BY <1>1, <1>6 DEF PublishIndex, Finished, state
<1>7. CASE RecordComplete
    BY <1>1, <1>7 DEF RecordComplete, Finished, product
<1>8. QED
    BY <1>2, <1>3, <1>4, <1>5, <1>6, <1>7 DEF Next, Step, Load, Validate, NextShard, DeferSlabs,
           SealHeader, SealSave, CreateFile, CreateSave, AppendTensor, Advance, ResolveSlab,
           Resolved, RecordDone, Finalize, Seal, Crash, Killed, Start, state, product, vars

\* A sequence that is in the order of a run without a kill, and has all the
\* tensors of the stream, is the one that such a run writes.
LEMMA OrderIsOne ==
    ASSUME home \in [Tensors -> Shards], NEW all \in SUBSET Tensors, NEW n \in Nat,
           NEW p \in [1 .. n -> all], NEW q \in [1 .. n -> all],
           \A i, j \in 1 .. n : i < j => Before(p[i], p[j]),
           \A i, j \in 1 .. n : i < j => Before(q[i], q[j]),
           \A t \in all : \E i \in 1 .. n : p[i] = t,
           \A t \in all : \E i \in 1 .. n : q[i] = t
    PROVE  p = q
<1>1. \A i, j \in 1 .. n : i < j => /\ p[i] # p[j] /\ ~Before(p[j], p[i])
                                   /\ q[i] # q[j] /\ ~Before(q[j], q[i])
    BY BeforeIsStrict
<1> DEFINE D == {i \in 1 .. n : p[i] # q[i]}
<1>2. CASE D = {}
    <2>1. \A i \in 1 .. n : p[i] = q[i]
        BY <1>2
    <2>2. p = [i \in 1 .. n |-> p[i]] /\ q = [i \in 1 .. n |-> q[i]]
        OBVIOUS
    <2>3. QED
        BY <2>1, <2>2
<1>3. CASE D # {}
    <2>1. PICK i \in D : \A j \in D : i <= j
        <3>1. D \in SUBSET Nat
            OBVIOUS
        <3> HIDE DEF D
        <3>2. QED
            BY <1>3, <3>1, Least
    <2>2. i \in 1 .. n /\ p[i] # q[i] /\ \A j \in 1 .. n : j < i => p[j] = q[j]
        BY <2>1
    <2>3. PICK j \in 1 .. n : p[j] = q[i]
        BY <2>2
    <2>4. PICK k \in 1 .. n : q[k] = p[i]
        BY <2>2
    <2>5. i < j
        <3>1. i # j
            BY <2>2, <2>3
        <3>2. ~(j < i)
            BY <1>1, <2>2, <2>3
        <3>3. QED
            BY <2>2, <3>1, <3>2
    <2>6. i < k
        <3>1. i # k
            BY <2>2, <2>4
        <3>2. ~(k < i)
            BY <1>1, <2>2, <2>4
        <3>3. QED
            BY <2>2, <3>1, <3>2
    <2>7. Before(p[i], q[i]) /\ Before(q[i], p[i])
        BY <2>2, <2>3, <2>4, <2>5, <2>6
    <2>8. p[i] \in Tensors /\ q[i] \in Tensors
        BY <2>2
    <2>9. QED
        BY <2>7, <2>8, BeforeIsStrict
<1>4. QED
    BY <1>2, <1>3

LEMMA InOrderIs ==
    ASSUME home \in [Tensors -> Shards], NEW g \in Groups, NEW p \in Seq(Tensors),
           IsInjective(p), Range(p) = {t \in Tensors : GroupOf[t] = g},
           \A i, j \in DOMAIN p : i < j => Before(p[i], p[j])
    PROVE  InOrder(g) = p
<1> DEFINE all == {t \in Tensors : GroupOf[t] = g}
           n == Len(p)
<1>1. /\ n \in Nat /\ DOMAIN p = 1 .. n /\ p \in [1 .. n -> all]
      /\ \A t \in all : \E i \in 1 .. n : p[i] = t
      /\ \A i, j \in 1 .. n : p[i] = p[j] => i = j
    BY DEF Range, IsInjective
<1>2. IsFiniteSet(all) /\ Cardinality(all) = n
    <2> HIDE DEF all, n
    <2>1. p \in Bijection(1 .. n, all)
        BY <1>1 DEF Bijection, Injection, Surjection, IsInjective
    <2>2. ExistsBijection(1 .. n, all)
        BY <2>1 DEF ExistsBijection
    <2>3. IsFiniteSet(1 .. n) /\ Cardinality(1 .. n) = n
        BY <1>1, FS_Interval
    <2>4. QED
        BY <2>2, <2>3, FS_Bijection
<1>3. /\ InOrder(g) \in [1 .. n -> all]
      /\ \A i, j \in 1 .. n : i < j => Before(InOrder(g)[i], InOrder(g)[j])
    <2>1. InOrder(g) = CHOOSE q \in [1 .. n -> all] :
              \A i, j \in DOMAIN q : i < j => Before(q[i], q[j])
        BY <1>2 DEF InOrder
    <2> HIDE DEF all, n
    <2>2. \E q \in [1 .. n -> all] : \A i, j \in DOMAIN q : i < j => Before(q[i], q[j])
        BY <1>1
    <2>3. InOrder(g) \in [1 .. n -> all]
          /\ \A i, j \in DOMAIN InOrder(g) : i < j => Before(InOrder(g)[i], InOrder(g)[j])
        BY <2>1, <2>2
    <2>4. DOMAIN InOrder(g) = 1 .. n
        BY <2>3
    <2>5. QED
        BY <2>3, <2>4
<1> DEFINE q == InOrder(g)
<1> HIDE DEF q
<1>4. \A t \in all : \E i \in 1 .. n : q[i] = t
    <2>1. all \subseteq Tensors
        OBVIOUS
    <2> HIDE DEF all, n
    <2>2. \A i, j \in 1 .. n : i < j => q[i] # q[j]
        <3>1. ASSUME NEW i \in 1 .. n, NEW j \in 1 .. n, i < j
              PROVE  q[i] # q[j]
            <4>1. Before(q[i], q[j]) /\ q[i] \in Tensors /\ q[j] \in Tensors
                BY <1>3, <2>1, <3>1 DEF q
            <4>2. QED
                BY <4>1, BeforeIsStrict
        <3>2. QED
            BY <3>1
    <2>3. \A i, j \in 1 .. n : q[i] = q[j] => i = j
        BY <1>1, <2>2
    <2>4. q \in Injection(1 .. n, all)
        BY <1>3, <2>3 DEF Injection, IsInjective, q
    <2>5. Cardinality(1 .. n) = n /\ IsFiniteSet(1 .. n)
        BY <1>1, FS_Interval
    <2>6. q \in Surjection(1 .. n, all)
        BY <1>2, <2>4, <2>5, FS_Injection
    <2>7. QED
        BY <2>6 DEF Surjection
<1>5. \A i, j \in 1 .. n : i < j => Before(p[i], p[j])
    BY <1>1
<1>6. all \in SUBSET Tensors
    OBVIOUS
<1>a. \A t \in all : \E i \in 1 .. n : p[i] = t
    BY <1>1
<1>b. home \in [Tensors -> Shards] /\ n \in Nat /\ p \in [1 .. n -> all]
    BY <1>1
<1> HIDE DEF all, n
<1>7. q \in [1 .. n -> all] /\ \A i, j \in 1 .. n : i < j => Before(q[i], q[j])
    BY <1>3 DEF q
<1>8. p = q
    <2>1. PICK a \in SUBSET Tensors, m \in Nat : a = all /\ m = n
        BY <1>6, <1>b
    <2>2. \E r \in [1 .. m -> a] : r = q
        BY <1>7, <2>1
    <2>3. PICK r \in [1 .. m -> a] : r = q
        BY <2>2
    <2>4. /\ \A i, j \in 1 .. m : i < j => Before(r[i], r[j])
          /\ \A t \in a : \E i \in 1 .. m : r[i] = t
        BY <1>4, <1>7, <2>1, <2>3
    <2>5. /\ \A i, j \in 1 .. m : i < j => Before(p[i], p[j])
          /\ \A t \in a : \E i \in 1 .. m : p[i] = t
          /\ p \in [1 .. m -> a]
        BY <1>5, <1>a, <1>b, <2>1
    <2> HIDE DEF q
    <2>6. p = r
        BY <1>b, <2>4, <2>5, OrderIsOne
    <2>7. QED
        BY <2>3, <2>6
<1>9. QED
    BY <1>8 DEF q

\* What a kill, a restart and the order of the steps leave as it is in a run
\* without a kill: the tensors come in the same order, the files are cut at the
\* same places, and no file is too many.
OutputInv ==
    /\ WholeInv
    /\ "shard" \notin hit =>
          /\ Initial /\ Dense /\ Finished
          /\ \A g \in Groups : InSequence(g) /\ Filled(g) /\ Packed(g) /\ NoMore(g)

LEMMA OutputInit ==
    ASSUME Init
    PROVE  /\ Initial /\ Dense /\ Finished
           /\ \A g \in Groups : InSequence(g) /\ Filled(g) /\ Packed(g) /\ NoMore(g)
<1>1. /\ done = {} /\ cpc = "off" /\ ~complete
      /\ \A g \in Groups : open[g] = NoFile /\ sealed[g] = <<>> /\ out[g] = <<>>
    BY DEF Init, Fresh
<1>2. Initial /\ Dense /\ Finished
    BY <1>1 DEF Initial, Dense, Finished
<1>3. ASSUME NEW g \in Groups
      PROVE  InSequence(g) /\ Filled(g) /\ Packed(g) /\ NoMore(g)
    <2>1. sealed[g] = <<>> /\ open[g].names = <<>> /\ ~open[g].is /\ out[g] = <<>>
        BY <1>1 DEF NoFile
    <2>2. NamesOf(g) = <<>>
        BY <2>1 DEF NamesOf, FlattenSeq
    <2>3. InSequence(g)
        BY <2>2 DEF InSequence
    <2>4. Filled(g)
        BY <2>1 DEF Filled
    <2>5. Packed(g)
        BY <2>1, <2>2, PackEmpty DEF Packed
    <2>6. NoMore(g)
        BY <2>1 DEF NoMore, FileNo
    <2>7. QED
        BY <2>3, <2>4, <2>5, <2>6
<1>4. QED
    BY <1>2, <1>3

\* The invariant of the whole conversion: what was written of each stream is
\* the first part of what a run without a kill writes, packed in the same way.
THEOREM OutputInvariant == Spec => []OutputInv
<1>1. Init => OutputInv
    <2>1. ASSUME Init
          PROVE  WholeInv
        <3>1. RestartsCleanly /\ hit = {}
            BY <2>1 DEF Init, Fresh, RestartsCleanly
        <3>2. \A g \in Groups : Once(g)
            BY <2>1, OnceInit
        <3>3. QED
            BY <2>1, <3>1, <3>2, StoredInit, WholeInit DEF WholeInv, OnceInv, StoreInv
    <2>2. QED
        BY <2>1, OutputInit DEF OutputInv
<1>2. ASSUME OutputInv, WholeInv', [Next]_vars
      PROVE  OutputInv'
    <2>1. SUFFICES ASSUME "shard" \notin hit'
                   PROVE  /\ Initial' /\ Dense' /\ Finished'
                          /\ \A g \in Groups : InSequence(g)' /\ Filled(g)' /\ Packed(g)' /\ NoMore(g)'
        BY <1>2 DEF OutputInv
    <2>2. "shard" \notin hit
        BY <1>2, <2>1, HitGrows
    <2>3. /\ Stored /\ Placed /\ OnDisk /\ OnDisk' /\ Ordered /\ Settled /\ Reached
          /\ \A g \in Groups : Once(g)
        BY <1>2, <2>2 DEF OutputInv, WholeInv, OnceInv, StoreInv
    <2>4. /\ Initial /\ Dense /\ Finished
          /\ \A g \in Groups : InSequence(g) /\ Filled(g) /\ Packed(g) /\ NoMore(g)
        BY <1>2, <2>2 DEF OutputInv
    <2>5. Initial' /\ Dense'
        BY <1>2, <2>3, <2>4, FirstShardsNext
    <2>6. Finished'
        BY <1>2, <2>3, <2>4, FinishedNext
    <2>7. \A g \in Groups : InSequence(g)'
        BY <1>2, <2>3, <2>4, SequenceNext
    <2>8. \A g \in Groups : Filled(g)'
        BY <1>2, <2>3, <2>4, FilledNext
    <2>9. \A g \in Groups : Packed(g)'
        BY <1>2, <2>3, <2>4, PackedNext
    <2>10. \A g \in Groups : NoMore(g)'
        BY <1>2, <2>3, <2>4, NoMoreNext
    <2>11. QED
        BY <2>5, <2>6, <2>7, <2>8, <2>9, <2>10
<1>3. Spec => []WholeInv
    BY WholeInvariant
<1>4. QED
    BY <1>1, <1>2, <1>3, PTL DEF Spec

\* "An interrupted+resumed run produces byte-identical output": whatever kills
\* came, at any step and in the middle of any write, when the conversion has
\* ended the files of each stream are those of the run without a kill, no more
\* and no less, and the manifest and the index list them.
THEOREM OutputIsTheSame == Spec => []SameAsUninterrupted
<1>1. OutputInv => SameAsUninterrupted
    <2>1. SUFFICES ASSUME OutputInv, complete, "shard" \notin hit, NEW g \in Groups
                   PROVE  /\ sealed[g] = Uninterrupted(g)
                          /\ out[g] = [i \in DOMAIN sealed[g] |->
                                          [header |-> SealedHeader(sealed[g][i]),
                                           data |-> sealed[g][i]]]
                          /\ manifest[g] = sealed[g] /\ index[g] = sealed[g]
        BY DEF SameAsUninterrupted
    <2>2. /\ Stored /\ Placed /\ OnDisk /\ Settled /\ Dense /\ Finished /\ Once(g)
          /\ InSequence(g) /\ Packed(g) /\ NoMore(g)
        BY <2>1 DEF OutputInv, WholeInv, OnceInv, StoreInv
    <2>3. done = Shards /\ ~open[g].is /\ manifest = sealed /\ index = sealed
        BY <2>1, <2>2 DEF Finished
    <2>4. \A t \in Tensors : t \in Written
        BY <2>2, <2>3, AllWritten
    <2>5. sealed[g] = Uninterrupted(g)
        <3>1. NamesOf(g) \in Seq(Tensors) /\ Range(NamesOf(g)) = Committed(g)
            BY <2>2, NamesAre DEF Stored
        <3>2. Committed(g) = {t \in Tensors : GroupOf[t] = g}
            <4>1. \A t \in Committed(g) : t \in Tensors /\ GroupOf[t] = g
                BY <2>2, InStream DEF Stored
            <4>2. ASSUME NEW t \in Tensors, GroupOf[t] = g
                  PROVE  t \in Committed(g)
                <5>1. PICK h \in Groups : t \in Committed(h)
                    BY <2>4 DEF Written
                <5>2. GroupOf[t] = h
                    BY <2>1, <5>1, InStream DEF OutputInv, WholeInv, OnceInv, StoreInv, Stored
                <5>3. QED
                    BY <4>2, <5>1, <5>2
            <4>3. QED
                BY <4>1, <4>2
        <3>3. PICK p \in Seq(Tensors) : p = NamesOf(g)
            BY <3>1
        <3>4. IsInjective(p) /\ \A i, j \in DOMAIN p : i < j => Before(p[i], p[j])
            BY <2>2, <3>3 DEF Once, InSequence
        <3>5. InOrder(g) = p
            BY <2>2, <3>1, <3>2, <3>3, <3>4, InOrderIs DEF Stored
        <3>6. open[g].names = <<>>
            BY <2>2, <2>3 DEF Stored, Filed
        <3>7. FoldLeft(Pack, <<>>, NamesOf(g)) = sealed[g]
            BY <2>2, <3>6 DEF Packed
        <3>8. QED
            BY <3>3, <3>5, <3>7 DEF Uninterrupted
    <2>6. out[g] = [i \in DOMAIN sealed[g] |-> [header |-> SealedHeader(sealed[g][i]),
                                               data |-> sealed[g][i]]]
        <3>1. out[g] \in Seq(Files) /\ sealed[g] \in Seq(Names)
            BY <2>2 DEF Stored, Filed
        <3>2. \A i \in DOMAIN sealed[g] :
                 /\ i \in DOMAIN out[g]
                 /\ out[g][i] = [header |-> SealedHeader(sealed[g][i]), data |-> sealed[g][i]]
            BY <2>2 DEF OnDisk, Kept
        <3>3. Len(sealed[g]) + 1 \notin DOMAIN out[g]
            BY <2>2, <2>3, <2>4 DEF NoMore, Lacks, FileNo
        <3>4. /\ DOMAIN out[g] = 1 .. Len(out[g]) /\ Len(out[g]) \in Nat
              /\ DOMAIN sealed[g] = 1 .. Len(sealed[g]) /\ Len(sealed[g]) \in Nat
            BY <3>1
        <3>5. Len(out[g]) <= Len(sealed[g])
            BY <3>3, <3>4
        <3>6. DOMAIN out[g] = DOMAIN sealed[g]
            <4>1. PICK a \in Nat, b \in Nat : a = Len(out[g]) /\ b = Len(sealed[g])
                BY <3>4
            <4>2. \A i \in 1 .. b : i \in 1 .. a
                BY <3>2, <3>4, <4>1
            <4>3. a <= b
                BY <3>5, <4>1
            <4>4. b <= a
                <5>1. CASE b = 0
                    BY <5>1
                <5>2. CASE b # 0
                    BY <4>2, <5>2
                <5>3. QED
                    BY <5>1, <5>2
            <4>5. QED
                BY <3>4, <4>1, <4>3, <4>4
        <3>7. out[g] = [i \in DOMAIN out[g] |-> out[g][i]]
            BY <3>1
        <3>8. QED
            BY <3>2, <3>6, <3>7
    <2>7. QED
        BY <2>3, <2>5, <2>6
<1>2. QED
    BY <1>1, OutputInvariant, PTL

============================================================================
