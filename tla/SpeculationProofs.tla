-------------------------- MODULE SpeculationProofs --------------------------
(***************************************************************************)
(* Proofs about speculative decoding, for every vocabulary, prompt, number *)
(* of drafts per step, limit of tokens and number of failing forwards: a   *)
(* rollback is exact (RollbackExact), the draft head rests on true pairs   *)
(* (TruePairs), the client gets its whole text (WholeText), and it is the  *)
(* text that decoding one token at a time gives (SameAsOneByOne).          *)
(***************************************************************************)
EXTENDS Speculation, SequenceTheorems, TLAPS

\* The shapes of the records.
Model   == [pos : Nat, kda : Seq(Tokens), n : Nat, rows : Seq(Tokens)]
HeadRec == [pos : Nat, n : Nat, rows : Seq(Pairs)]
Word    == Seq(Tokens)

Shapes ==
    /\ main \in Model /\ main.n <= Len(main.rows)
    /\ head \in HeadRec /\ head.pos <= head.n /\ head.n <= Len(head.rows)
    /\ clean \in [pos : Nat, n : Nat] /\ clean.n = clean.pos
    /\ clean.n <= Len(head.rows)
    /\ snap \in [pos : Nat, kda : Word, n : Nat]
    /\ snap.n = snap.pos /\ snap.pos <= q
    /\ carried \in Word /\ stale \in BOOLEAN /\ broken \in BOOLEAN
    /\ batch \in Word /\ out \in Word /\ matched \in Nat
    /\ seen \in Seq(Word)

\* A state every layer of which has taken the same tokens.
Exact(st) ==
    /\ st.pos = Len(st.kda) /\ st.n = Len(st.kda)
    /\ st.n <= Len(st.rows)
    /\ SubSeq(st.rows, 1, st.n) = st.kda

\* Between two steps: all of the text but the held token is fed.
Settled == Exact(main) /\ Text = Append(main.kda, held) /\ q = Len(main.kda)

\* In a step: the snapshot is of the text before it, a row stands for that
\* text and the tokens of the batch up to its own, and what is to be sent is
\* what was kept.
InStep ==
    /\ snap.n = Len(snap.kda) /\ matched + 1 <= Len(batch)
    /\ \A j \in 2 .. Len(batch) : batch[j] = drafts[j]
    /\ seen = [j \in DOMAIN batch |-> snap.kda \o SubSeq(batch, 1, j)]
    /\ out = Kept

\* The main model runs ahead of the text by the drafts of the batch.
RunsAhead == Exact(main) /\ main.kda = snap.kda \o batch /\ q = Len(snap.kda)

Phases ==
    /\ pc = "prefill" => /\ Exact(main) /\ main.kda = <<>>
                         /\ stream = <<>> /\ sent = <<>> /\ out = <<>>
                         /\ clean.n = 0 /\ ~stale /\ snap.pos = 0
    /\ pc = "warm" => /\ main.kda = prompt /\ clean.n = 0 /\ ~stale
                      /\ seen = [j \in DOMAIN prompt |-> SubSeq(prompt, 1, j)]
    /\ pc \in {"warm", "step"} => out = <<>>
    /\ pc \in {"walk", "fixup"} => RunsAhead
    /\ pc \in {"walk", "fixup", "replay"} => InStep
    /\ pc = "walk" => Text = snap.kda \o Kept /\ stream = sent \o out
    /\ pc = "fixup" => Text = Append(snap.kda \o Kept, held)
    /\ pc = "replay" => main.kda = snap.kda \o Kept
    /\ pc \in {"warm", "step", "replay", "send"} => Settled
    /\ pc \in {"warm", "step", "fixup", "replay", "send"} =>
          stream = Append(sent \o out, held)
    /\ pc = "send" => out # <<>>
    /\ pc # "done" => Len(sent) < MaxTokens

\* The draft head has taken the pairs of the text w, and no others.
HeadOn(w) ==
    /\ clean.n = Len(w) - 1
    /\ \A p \in 1 .. clean.n :
          head.rows[p] = [h |-> SubSeq(w, 1, p), tok |-> w[p + 1]]
    /\ carried = w

HeadPhases ==
    ~stale => /\ pc \in {"step", "send"} => HeadOn(main.kda)
              /\ pc \in {"walk", "fixup", "replay"} => HeadOn(snap.kda)

SInv == TypeOK /\ Shapes /\ Phases /\ HeadPhases /\ WholeText

-----------------------------------------------------------------------------
(* Facts about numbers and sequences.                                      *)

\* The smaller of two numbers.
LEMMA MinOfTwo ==
    ASSUME NEW a \in Int, NEW b \in Int
    PROVE  Min({a, b}) \in {a, b} /\ Min({a, b}) <= a /\ Min({a, b}) <= b
<1>1. \E x \in {a, b} : \A y \in {a, b} : x <= y
    OBVIOUS
<1>2. QED BY <1>1 DEF Min

\* A prefix of a sequence.
LEMMA Prefix ==
    ASSUME NEW S, NEW s \in Seq(S), NEW n \in 0 .. Len(s)
    PROVE  /\ SubSeq(s, 1, n) \in Seq(S) /\ Len(SubSeq(s, 1, n)) = n
           /\ \A i \in 1 .. n : SubSeq(s, 1, n)[i] = s[i]
<1>1. Len(s) \in Nat /\ n \in Nat /\ n <= Len(s)
    BY LenProperties
<1>2. \A i \in 1 .. n : s[i] \in S
    BY <1>1, ElementOfSeq
<1>3. /\ SubSeq(s, 1, n) \in Seq(S)
      /\ Len(SubSeq(s, 1, n)) = IF 1 <= n THEN n - 1 + 1 ELSE 0
      /\ \A i \in 1 .. n - 1 + 1 : SubSeq(s, 1, n)[i] = s[1 + i - 1]
    BY <1>1, <1>2, SubSeqProperties
<1>4. QED BY <1>1, <1>3

\* The first tokens of a concatenation are those of its first part.
LEMMA PrefixOfConcat ==
    ASSUME NEW S, NEW s \in Seq(S), NEW t \in Seq(S), NEW n \in 0 .. Len(s)
    PROVE  SubSeq(s \o t, 1, n) = SubSeq(s, 1, n)
<1>1. /\ s \o t \in Seq(S) /\ Len(s) \in Nat /\ Len(t) \in Nat
      /\ Len(s \o t) = Len(s) + Len(t)
      /\ \A i \in 1 .. Len(s) + Len(t) : (s \o t)[i] =
            IF i <= Len(s) THEN s[i] ELSE t[i - Len(s)]
    BY ConcatProperties, LenProperties
<1>2. n \in 0 .. Len(s \o t)
    BY <1>1
<1>3. \A i \in 1 .. n : (s \o t)[i] = s[i]
    BY <1>1
<1>4. /\ SubSeq(s \o t, 1, n) \in Seq(S) /\ Len(SubSeq(s \o t, 1, n)) = n
      /\ \A i \in 1 .. n : SubSeq(s \o t, 1, n)[i] = (s \o t)[i]
    BY <1>1, <1>2, Prefix
<1>5. /\ SubSeq(s, 1, n) \in Seq(S) /\ Len(SubSeq(s, 1, n)) = n
      /\ \A i \in 1 .. n : SubSeq(s, 1, n)[i] = s[i]
    BY Prefix
<1>6. \A i \in 1 .. n : SubSeq(s \o t, 1, n)[i] = SubSeq(s, 1, n)[i]
    BY <1>3, <1>4, <1>5
<1>7. QED BY <1>4, <1>5, <1>6, SeqEqual

\* ... and beyond it, those of the second part behind all of the first.
LEMMA PrefixBeyond ==
    ASSUME NEW S, NEW s \in Seq(S), NEW t \in Seq(S), NEW n \in 0 .. Len(t)
    PROVE  SubSeq(s \o t, 1, Len(s) + n) = s \o SubSeq(t, 1, n)
<1> DEFINE a == SubSeq(s \o t, 1, Len(s) + n)
           b == SubSeq(t, 1, n)
<1>1. /\ s \o t \in Seq(S) /\ Len(s) \in Nat /\ Len(t) \in Nat /\ n \in Nat
      /\ Len(s \o t) = Len(s) + Len(t)
      /\ \A i \in 1 .. Len(s) + Len(t) : (s \o t)[i] =
            IF i <= Len(s) THEN s[i] ELSE t[i - Len(s)]
    BY ConcatProperties, LenProperties
<1>2. /\ a \in Seq(S) /\ Len(a) = Len(s) + n
      /\ \A i \in 1 .. Len(s) + n : a[i] = (s \o t)[i]
    <2>1. Len(s) + n \in 0 .. Len(s \o t)
        BY <1>1
    <2>2. QED BY <1>1, <2>1, Prefix
<1>3. /\ b \in Seq(S) /\ Len(b) = n /\ \A i \in 1 .. n : b[i] = t[i]
    BY Prefix
<1> HIDE DEF a, b
<1>4. /\ s \o b \in Seq(S) /\ Len(s \o b) = Len(s) + n
      /\ \A i \in 1 .. Len(s) + n : (s \o b)[i] =
            IF i <= Len(s) THEN s[i] ELSE b[i - Len(s)]
    BY <1>3, ConcatProperties
<1>5. ASSUME NEW i \in 1 .. Len(s) + n
      PROVE  a[i] = (s \o b)[i]
    <2>1. CASE i <= Len(s)
        BY <1>1, <1>2, <1>4, <2>1
    <2>2. CASE ~(i <= Len(s))
        <3>1. i - Len(s) \in 1 .. n
            BY <1>1, <2>2
        <3>2. (s \o t)[i] = t[i - Len(s)] /\ i \in 1 .. Len(s) + Len(t)
            BY <1>1, <2>2
        <3>3. (s \o b)[i] = b[i - Len(s)]
            BY <1>4, <2>2
        <3>4. QED BY <1>2, <1>3, <3>1, <3>2, <3>3
    <2>3. QED BY <2>1, <2>2
<1>6. a = s \o b
    BY <1>2, <1>4, <1>5, SeqEqual
<1>7. QED BY <1>6 DEF a, b

\* A prefix grows by the next element.
LEMMA PrefixGrows ==
    ASSUME NEW S, NEW s \in Seq(S), NEW n \in 0 .. Len(s) - 1
    PROVE  SubSeq(s, 1, n + 1) = Append(SubSeq(s, 1, n), s[n + 1])
<1>1. Len(s) \in Nat /\ n + 1 \in 1 .. Len(s) /\ n \in 0 .. Len(s)
      /\ 1 \in 1 .. Len(s) /\ (n + 1) - 1 = n
    BY LenProperties
<1>2. SubSeq(s, 1, n + 1) = SubSeq(s, 1, (n + 1) - 1) \o <<s[n + 1]>>
    BY <1>1, SubSeqRecursiveSecond
<1>3. SubSeq(s, 1, n) \in Seq(S) /\ s[n + 1] \in S
    BY <1>1, Prefix, ElementOfSeq
<1>4. QED BY <1>1, <1>2, <1>3, AppendIsConcat

\* Appending behind a concatenation.
LEMMA ConcatAppend ==
    ASSUME NEW S, NEW s \in Seq(S), NEW t \in Seq(S), NEW x \in S
    PROVE  s \o Append(t, x) = Append(s \o t, x)
<1>1. <<x>> \in Seq(S) /\ s \o t \in Seq(S)
    BY ConcatProperties
<1>2. Append(t, x) = t \o <<x>> /\ Append(s \o t, x) = (s \o t) \o <<x>>
    BY <1>1, AppendIsConcat
<1>3. QED BY <1>1, <1>2, ConcatAssociative

\* Taking the first of t over to the end of s.
LEMMA MoveHead ==
    ASSUME NEW S, NEW s \in Seq(S), NEW t \in Seq(S), t # <<>>
    PROVE  /\ Append(s, Head(t)) \in Seq(S) /\ Tail(t) \in Seq(S)
           /\ Head(t) \in S /\ Head(t) = t[1]
           /\ Append(s, Head(t)) \o Tail(t) = s \o t
           /\ (s \o t)[Len(s) + 1] = Head(t)
           /\ Len(s) < Len(s \o t)
           /\ Len(t) = 1 => Tail(t) = <<>>
<1>1. /\ Head(t) \in S /\ Tail(t) \in Seq(S) /\ Len(Tail(t)) = Len(t) - 1
      /\ \A i \in 1 .. Len(Tail(t)) : Tail(t)[i] = t[i + 1]
    BY HeadTailProperties
<1>2. Len(t) \in Nat \ {0} /\ Len(s) \in Nat /\ Head(t) = t[1]
    BY EmptySeq, LenProperties
<1>3. /\ Append(s, Head(t)) \in Seq(S)
      /\ Append(s, Head(t)) = s \o <<Head(t)>>
      /\ <<Head(t)>> \in Seq(S)
    BY <1>1, AppendProperties, AppendIsConcat
<1>4. <<Head(t)>> \o Tail(t) = t
    <2>1. /\ SubSeq(t, 1, Len(t)) = <<t[1]>> \o SubSeq(t, 2, Len(t))
        <3>1. 1 \in 1 .. Len(t) /\ Len(t) \in 1 .. Len(t)
            BY <1>2
        <3>2. SubSeq(t, 1, Len(t)) = <<t[1]>> \o SubSeq(t, 1 + 1, Len(t))
            BY <3>1, SubSeqRecursiveFirst
        <3>3. QED BY <3>2
    <2>2. SubSeq(t, 1, Len(t)) = t /\ Tail(t) = SubSeq(t, 2, Len(t))
        BY SubSeqFull, TailIsSubSeq
    <2>3. QED BY <1>2, <2>1, <2>2
<1>5. Append(s, Head(t)) \o Tail(t) = s \o t
    BY <1>1, <1>3, <1>4, ConcatAssociative
<1>6. /\ Len(s \o t) = Len(s) + Len(t)
      /\ \A i \in 1 .. Len(s) + Len(t) : (s \o t)[i] =
            IF i <= Len(s) THEN s[i] ELSE t[i - Len(s)]
    BY ConcatProperties
<1>7. (s \o t)[Len(s) + 1] = Head(t) /\ Len(s) < Len(s \o t)
    <2>1. /\ Len(s) + 1 \in 1 .. Len(s) + Len(t) /\ ~(Len(s) + 1 <= Len(s))
          /\ (Len(s) + 1) - Len(s) = 1
        BY <1>2
    <2>2. QED BY <1>2, <1>6, <2>1
<1>8. Len(t) = 1 => Tail(t) = <<>>
    <2>1. Tail(t) # <<>> => Len(Tail(t)) \in Nat \ {0}
        BY <1>1, EmptySeq
    <2>2. QED BY <1>1, <2>1
<1>9. QED BY <1>1, <1>2, <1>3, <1>5, <1>7, <1>8

\* The rows of a state after an overwrite: those below n stay, the new ones
\* follow.
LEMMA OverwrittenFacts ==
    ASSUME NEW S, NEW rows \in Seq(S), NEW new \in Seq(S),
           NEW n \in 0 .. Len(rows)
    PROVE  /\ Overwritten(rows, n, new) \in Seq(S)
           /\ n + Len(new) <= Len(Overwritten(rows, n, new))
           /\ Len(rows) <= Len(Overwritten(rows, n, new))
           /\ SubSeq(Overwritten(rows, n, new), 1, n + Len(new)) =
                SubSeq(rows, 1, n) \o new
           /\ \A i \in 1 .. n : Overwritten(rows, n, new)[i] = rows[i]
           /\ \A j \in 1 .. Len(new) :
                Overwritten(rows, n, new)[n + j] = new[j]
<1> DEFINE a == SubSeq(rows, 1, n)
           m == Len(rows)
           k == Len(new)
           c == SubSeq(rows, n + k + 1, m)
<1>1. m \in Nat /\ k \in Nat /\ n \in Nat /\ n <= m
    BY LenProperties
<1>2. a \in Seq(S) /\ Len(a) = n /\ \A i \in 1 .. n : a[i] = rows[i]
    BY Prefix
<1>3. c \in Seq(S) /\ Len(c) = IF n + k + 1 <= m THEN m - (n + k) ELSE 0
    <2>1. \A i \in (n + k + 1) .. m : rows[i] \in S
        BY <1>1, ElementOfSeq
    <2>2. /\ SubSeq(rows, n + k + 1, m) \in Seq(S)
          /\ Len(SubSeq(rows, n + k + 1, m)) =
                IF n + k + 1 <= m THEN m - (n + k + 1) + 1 ELSE 0
        BY <1>1, <2>1, SubSeqProperties
    <2>3. QED BY <1>1, <2>2
<1>4. Overwritten(rows, n, new) = (a \o new) \o c
    BY DEF Overwritten
<1> DEFINE d == a \o new
           o == d \o c
<1> HIDE DEF a, c, m, k
<1>5. /\ d \in Seq(S) /\ Len(d) = n + k
      /\ \A i \in 1 .. n + k : d[i] = IF i <= n THEN a[i] ELSE new[i - n]
    BY <1>2, ConcatProperties DEF k
<1> HIDE DEF d
<1>6. /\ o \in Seq(S) /\ Len(o) = n + k + Len(c)
      /\ \A i \in 1 .. n + k + Len(c) :
            o[i] = IF i <= n + k THEN d[i] ELSE c[i - (n + k)]
    <2>1. /\ o \in Seq(S) /\ Len(o) = Len(d) + Len(c)
          /\ \A i \in 1 .. Len(d) + Len(c) :
                o[i] = IF i <= Len(d) THEN d[i] ELSE c[i - Len(d)]
        BY <1>3, <1>5, ConcatProperties
    <2>2. QED BY <1>5, <2>1
<1>7. SubSeq(o, 1, n + k) = d
    <2>1. n + k \in 0 .. Len(d)
        BY <1>1, <1>5
    <2>2. SubSeq(o, 1, n + k) = SubSeq(d, 1, n + k)
        BY <1>3, <1>5, <2>1, PrefixOfConcat
    <2>3. QED BY <1>5, <2>2, SubSeqFull
<1> HIDE DEF o
<1>8. Len(c) \in Nat
    BY <1>1, <1>3
<1>9. \A i \in 1 .. n : o[i] = rows[i]
    BY <1>1, <1>2, <1>5, <1>6, <1>8
<1>10. ASSUME NEW j \in 1 .. k
       PROVE  o[n + j] = new[j]
    <2>1. /\ n + j \in 1 .. n + k /\ n + j \in 1 .. n + k + Len(c)
          /\ n + j <= n + k /\ ~(n + j <= n) /\ (n + j) - n = j
        BY <1>1, <1>8
    <2>2. QED BY <1>5, <1>6, <2>1
<1>11. n + k <= Len(o) /\ m <= Len(o)
    BY <1>1, <1>3, <1>6, <1>8
<1>12. QED BY <1>4, <1>6, <1>7, <1>9, <1>10, <1>11 DEF a, d, o, m, k

-----------------------------------------------------------------------------
(* What a forward does to a state.                                         *)

\* The shape of a state after its layers took some tokens.
LEMMA AttendedFacts ==
    ASSUME NEW st \in Model, st.n <= Len(st.rows), NEW toks \in Word
    PROVE  /\ Attended(st, toks) \in Model /\ Fed(st, toks) \in Model
           /\ Attended(st, toks).kda = st.kda \o toks
           /\ Attended(st, toks).rows = Overwritten(st.rows, st.n, toks)
           /\ Attended(st, toks).n = st.n + Len(toks)
           /\ Attended(st, toks).n <= Len(Attended(st, toks).rows)
           /\ Fed(st, toks).kda = st.kda \o toks
           /\ Fed(st, toks).rows = Overwritten(st.rows, st.n, toks)
           /\ Fed(st, toks).n = st.n + Len(toks)
           /\ Fed(st, toks).n <= Len(Fed(st, toks).rows)
           /\ Fed(st, toks).pos = st.pos + Len(toks)
<1>1. /\ st.pos \in Nat /\ st.kda \in Word /\ st.n \in Nat
      /\ st.rows \in Word
    BY DEF Model, Word
<1>2. PICK k \in Word : k = st.kda \o toks
    BY <1>1, ConcatProperties DEF Word
<1>3. PICK m \in Nat : m = Len(toks) /\ st.n \in 0 .. Len(st.rows)
    BY <1>1, LenProperties DEF Word
<1>4. PICK o \in Word : /\ o = Overwritten(st.rows, st.n, toks)
                        /\ st.n + m <= Len(o)
    BY <1>1, <1>3, OverwrittenFacts DEF Word
<1>5. PICK x \in Nat, p \in Nat : x = st.n + m /\ p = st.pos + m
    BY <1>1, <1>3
<1> DEFINE a == [st EXCEPT !.kda = k, !.rows = o, !.n = x]
           f == [a EXCEPT !.pos = p]
<1>6. /\ a \in Model /\ a.kda = k /\ a.rows = o /\ a.n = x
      /\ a.pos = st.pos
    BY DEF Model, Word
<1>7. Attended(st, toks) = a
    BY <1>2, <1>3, <1>4, <1>5 DEF Attended, Model
<1>8. Fed(st, toks) = [a EXCEPT !.pos = a.pos + m]
    BY <1>3, <1>7 DEF Fed
<1>9. Fed(st, toks) = f
    BY <1>5, <1>6, <1>8
<1> HIDE DEF a
<1>10. f \in Model /\ f.kda = k /\ f.rows = o /\ f.n = x /\ f.pos = p
    BY <1>6 DEF Model
<1> HIDE DEF f
<1>11. QED BY <1>2, <1>3, <1>4, <1>5, <1>6, <1>7, <1>9, <1>10

\* A forward leaves a consistent state consistent.
LEMMA FedExact ==
    ASSUME NEW st \in Model, Exact(st), NEW toks \in Word
    PROVE  /\ Fed(st, toks) \in Model /\ Exact(Fed(st, toks))
           /\ Fed(st, toks).kda = st.kda \o toks
<1>1. /\ st.kda \in Word /\ st.n \in Nat /\ st.rows \in Word
      /\ st.n <= Len(st.rows) /\ Len(st.rows) \in Nat
    BY LenProperties DEF Exact, Model, Word
<1>2. st.n \in 0 .. Len(st.rows)
    BY <1>1
<1> DEFINE f == Fed(st, toks)
<1>3. /\ f \in Model /\ f.kda = st.kda \o toks
      /\ f.rows = Overwritten(st.rows, st.n, toks)
      /\ f.n = st.n + Len(toks) /\ f.pos = st.pos + Len(toks)
      /\ f.n <= Len(f.rows)
    BY <1>1, AttendedFacts
<1> HIDE DEF f
<1>4. Len(st.kda \o toks) = Len(st.kda) + Len(toks)
    BY <1>1, ConcatProperties DEF Word
<1>5. SubSeq(f.rows, 1, st.n + Len(toks)) = SubSeq(st.rows, 1, st.n) \o toks
    <2>1. st.rows \in Seq(Tokens) /\ toks \in Seq(Tokens)
        BY <1>1 DEF Word
    <2>2. SubSeq(Overwritten(st.rows, st.n, toks), 1, st.n + Len(toks)) =
            SubSeq(st.rows, 1, st.n) \o toks
        BY <1>2, <2>1, OverwrittenFacts
    <2>3. QED BY <1>3, <2>2
<1>6. Exact(f)
    BY <1>3, <1>4, <1>5 DEF Exact
<1>7. QED BY <1>3, <1>6 DEF f

\* What TypeOK says of a state.
LEMMA ModelTyped ==
    ASSUME NEW st \in Model, st.n <= Len(st.rows)
    PROVE  /\ st.pos \in Nat /\ st.n \in 0 .. Len(st.rows)
           /\ st.kda \in Seq(Tokens) /\ st.rows \in Seq(Tokens)
<1>1. /\ st.pos \in Nat /\ st.n \in Nat
      /\ st.kda \in Seq(Tokens) /\ st.rows \in Seq(Tokens)
    BY DEF Model
<1>2. Len(st.rows) \in Nat
    BY <1>1, LenProperties
<1>3. QED BY <1>1, <1>2

\* A failed forward leaves a state of the right shape.
LEMMA CutShape ==
    ASSUME NEW st \in Model, st.n <= Len(st.rows), NEW toks \in Word,
           NEW new \in Cut(st, toks)
    PROVE  new \in Model /\ new.n <= Len(new.rows)
<1>1. CASE new = Attended(st, toks)
    BY <1>1, AttendedFacts
<1>2. CASE new = [st EXCEPT !.kda = @ \o toks]
    <2> DEFINE k == st.kda \o toks
    <2>1. k \in Word
        BY ConcatProperties DEF Model, Word
    <2>2. new = [st EXCEPT !.kda = k]
        BY <1>2 DEF Model
    <2> HIDE DEF k
    <2>3. QED BY <2>1, <2>2 DEF Model, Word
<1>3. QED BY <1>1, <1>2 DEF Cut

\* A row of a consistent state stands for the tokens the state was fed.
LEMMA ExactRow ==
    ASSUME NEW st, Exact(st)
    PROVE  Row(st) = st.kda
BY DEF Exact, Row

\* The rows of a batch.
LEMMA RowsFacts ==
    ASSUME NEW st \in Model, Exact(st), NEW toks \in Word
    PROVE  /\ Rows(st, toks) =
                [j \in DOMAIN toks |-> st.kda \o SubSeq(toks, 1, j)]
           /\ Rows(st, toks) \in Seq(Word)
           /\ Len(Rows(st, toks)) = Len(toks)
           /\ Rows(st, toks) # <<>> => toks # <<>>
<1>1. Len(toks) \in Nat /\ DOMAIN toks = 1 .. Len(toks) /\ st.kda \in Word
    BY LenProperties DEF Word, Model
<1>2. ASSUME NEW j \in DOMAIN toks
      PROVE  /\ Row(Fed(st, SubSeq(toks, 1, j))) =
                    st.kda \o SubSeq(toks, 1, j)
             /\ st.kda \o SubSeq(toks, 1, j) \in Word
    <2>1. SubSeq(toks, 1, j) \in Word
        <3>1. j \in 0 .. Len(toks)
            BY <1>1
        <3>2. QED BY <3>1, Prefix DEF Word
    <2>2. QED BY <1>1, <2>1, FedExact, ExactRow, ConcatProperties DEF Word
<1>3. Rows(st, toks) = [j \in DOMAIN toks |-> st.kda \o SubSeq(toks, 1, j)]
    BY <1>2 DEF Rows
<1> DEFINE F == [j \in 1 .. Len(toks) |-> st.kda \o SubSeq(toks, 1, j)]
<1>4. F \in [1 .. Len(toks) -> Word]
    BY <1>1, <1>2
<1> HIDE DEF F
<1>5. F \in Seq(Word) /\ Len(F) = Len(toks) /\ (F # <<>> => toks # <<>>)
    <2>1. F \in Seq(Word) /\ Len(F) = Len(toks)
        BY <1>1, <1>4
    <2>2. F # <<>> => Len(F) # 0
        BY <2>1, EmptySeq
    <2>3. QED BY <2>1, <2>2, EmptySeq DEF Word
<1>6. Rows(st, toks) = F
    BY <1>1, <1>3 DEF F
<1>7. QED BY <1>3, <1>5, <1>6

\* A rollback is exact: the rows beyond the snapshot do not count.
LEMMA RestoredExact ==
    ASSUME NEW st \in Model, Exact(st), NEW w \in Word, NEW b \in Word,
           st.kda = w \o b, NEW sn \in [pos : Nat, kda : Word, n : Nat],
           sn.kda = w, sn.n = Len(w), sn.pos = Len(w)
    PROVE  /\ Restored(st, sn) \in Model /\ Exact(Restored(st, sn))
           /\ Restored(st, sn).kda = w
<1>1. /\ st.rows \in Word /\ st.n = Len(w \o b) /\ st.n <= Len(st.rows)
      /\ SubSeq(st.rows, 1, st.n) = w \o b
      /\ Len(w) \in Nat /\ Len(b) \in Nat
      /\ Len(w \o b) = Len(w) + Len(b) /\ Len(st.rows) \in Nat
    BY LenProperties, ConcatProperties DEF Exact, Model, Word
<1> DEFINE r == Restored(st, sn)
<1>2. /\ r \in Model /\ r.kda = w /\ r.n = Len(w) /\ r.pos = Len(w)
      /\ r.rows = st.rows
    <2>1. PICK x \in Nat : x = Len(w)
        BY <1>1
    <2>2. r = [st EXCEPT !.pos = x, !.n = x, !.kda = w]
        BY <2>1 DEF Restored, Model
    <2> HIDE DEF r
    <2>3. QED BY <2>1, <2>2 DEF Model, Word
<1> HIDE DEF r
<1>3. SubSeq(st.rows, 1, Len(w)) = w
    <2> DEFINE a == SubSeq(st.rows, 1, st.n)
    <2>1. st.n \in 0 .. Len(st.rows) /\ Len(w) \in 0 .. Len(st.rows)
          /\ Len(w) \in 0 .. Len(w)
        BY <1>1
    <2>2. /\ a \in Word /\ Len(a) = st.n
          /\ \A i \in 1 .. st.n : a[i] = st.rows[i]
        BY <1>1, <2>1, Prefix DEF Word
    <2>3. \A i \in 1 .. Len(w) : (w \o b)[i] = w[i]
        BY <1>1, ConcatProperties DEF Word
    <2>4. \A i \in 1 .. Len(w) : st.rows[i] = w[i]
        <3>1. \A i \in 1 .. Len(w) : i \in 1 .. st.n
            BY <1>1
        <3>2. QED BY <1>1, <2>2, <2>3, <3>1
    <2>5. /\ SubSeq(st.rows, 1, Len(w)) \in Word
          /\ Len(SubSeq(st.rows, 1, Len(w))) = Len(w)
          /\ \A i \in 1 .. Len(w) :
                SubSeq(st.rows, 1, Len(w))[i] = st.rows[i]
        BY <1>1, <2>1, Prefix DEF Word
    <2>6. QED BY <2>4, <2>5, SeqEqual DEF Word
<1>4. Exact(r)
    BY <1>1, <1>2, <1>3 DEF Exact
<1>5. QED BY <1>2, <1>4 DEF r

-----------------------------------------------------------------------------
(* What the draft head's forwards do.                                      *)

\* The pairs a chain of drafts feeds back are written beyond the clean ones.
LEMMA AbsorbedFacts ==
    ASSUME NEW hd \in HeadRec, hd.n <= Len(hd.rows),
           NEW pairs \in Seq(Pairs)
    PROVE  LET a == Absorbed(hd, pairs) IN
           /\ a \in HeadRec /\ a.pos = hd.pos
           /\ a.n = hd.n + Len(pairs) /\ a.n <= Len(a.rows)
           /\ Len(hd.rows) <= Len(a.rows)
           /\ \A i \in 1 .. hd.n : a.rows[i] = hd.rows[i]
           /\ \A j \in 1 .. Len(pairs) : a.rows[hd.n + j] = pairs[j]
<1>1. /\ hd.pos \in Nat /\ hd.n \in Nat /\ hd.rows \in Seq(Pairs)
      /\ Len(hd.rows) \in Nat
    BY LenProperties DEF HeadRec
<1>2. PICK m \in Nat : m = Len(pairs)
    BY LenProperties
<1>3. hd.n \in 0 .. Len(hd.rows)
    BY <1>1
<1>4. PICK o \in Seq(Pairs) :
        /\ o = Overwritten(hd.rows, hd.n, pairs)
        /\ hd.n + m <= Len(o) /\ Len(hd.rows) <= Len(o)
        /\ \A i \in 1 .. hd.n : o[i] = hd.rows[i]
        /\ \A j \in 1 .. m : o[hd.n + j] = pairs[j]
    <2> DEFINE w == Overwritten(hd.rows, hd.n, pairs)
    <2>1. /\ w \in Seq(Pairs) /\ hd.n + Len(pairs) <= Len(w)
          /\ Len(hd.rows) <= Len(w)
          /\ \A i \in 1 .. hd.n : w[i] = hd.rows[i]
          /\ \A j \in 1 .. Len(pairs) : w[hd.n + j] = pairs[j]
        BY <1>1, <1>3, OverwrittenFacts
    <2> HIDE DEF w
    <2>2. /\ w \in Seq(Pairs) /\ hd.n + m <= Len(w) /\ Len(hd.rows) <= Len(w)
          /\ \A i \in 1 .. hd.n : w[i] = hd.rows[i]
          /\ \A j \in 1 .. m : w[hd.n + j] = pairs[j]
        BY <1>2, <2>1
    <2>3. QED BY <2>2 DEF w
<1>5. PICK x \in Nat : x = hd.n + m
    BY <1>1, <1>2
<1> DEFINE a == [hd EXCEPT !.rows = o, !.n = x]
<1>6. a \in HeadRec /\ a.pos = hd.pos /\ a.n = x /\ a.rows = o
    BY DEF HeadRec
<1>7. Absorbed(hd, pairs) = a
    BY <1>2, <1>4, <1>5 DEF Absorbed, HeadRec
<1> HIDE DEF a
<1>8. QED BY <1>2, <1>4, <1>5, <1>6, <1>7

LEMMA TakenFacts ==
    ASSUME NEW hd \in HeadRec, hd.n <= Len(hd.rows),
           NEW pairs \in Seq(Pairs)
    PROVE  LET t == Taken(hd, pairs) IN
           /\ t \in HeadRec /\ t.pos = hd.pos + Len(pairs)
           /\ t.n = hd.n + Len(pairs) /\ t.n <= Len(t.rows)
           /\ Len(hd.rows) <= Len(t.rows)
           /\ \A i \in 1 .. hd.n : t.rows[i] = hd.rows[i]
           /\ \A j \in 1 .. Len(pairs) : t.rows[hd.n + j] = pairs[j]
<1> DEFINE a == Absorbed(hd, pairs)
           t == [a EXCEPT !.pos = a.pos + Len(pairs)]
<1>1. /\ a \in HeadRec /\ a.pos = hd.pos
      /\ a.n = hd.n + Len(pairs) /\ a.n <= Len(a.rows)
      /\ Len(hd.rows) <= Len(a.rows)
      /\ \A i \in 1 .. hd.n : a.rows[i] = hd.rows[i]
      /\ \A j \in 1 .. Len(pairs) : a.rows[hd.n + j] = pairs[j]
    BY AbsorbedFacts
<1>2. Taken(hd, pairs) = t
    BY DEF Taken
<1>3. hd.pos \in Nat /\ Len(pairs) \in Nat
    BY LenProperties DEF HeadRec
<1> HIDE DEF a
<1>4. t \in HeadRec /\ t.pos = hd.pos + Len(pairs) /\ t.n = a.n
      /\ t.rows = a.rows
    <2>1. PICK x \in Nat : x = a.pos + Len(pairs)
        BY <1>1, <1>3
    <2>2. t = [a EXCEPT !.pos = x]
        BY <2>1
    <2>3. a \in HeadRec
        BY <1>1
    <2>4. /\ [a EXCEPT !.pos = x] \in HeadRec /\ [a EXCEPT !.pos = x].pos = x
          /\ [a EXCEPT !.pos = x].n = a.n
          /\ [a EXCEPT !.pos = x].rows = a.rows
        BY <2>3 DEF HeadRec
    <2>5. QED BY <1>1, <2>1, <2>2, <2>4
<1> HIDE DEF t
<1>5. QED BY <1>1, <1>2, <1>4

LEMMA FaultyCounts ==
    ASSUME faults \in 0 .. MaxFaults, Faulty
    PROVE  faults' \in 0 .. MaxFaults
BY SpeculationAssumption DEF Faulty

\* gspec_chain: whatever it drafts and wherever it fails, the rows of the
\* state it began with stay.
LEMMA ChainFacts ==
    ASSUME prompt \in Word, depth \in Nat, faults \in 0 .. MaxFaults,
           NEW hd \in HeadRec, hd.pos <= hd.n, hd.n <= Len(hd.rows),
           Chain(hd)
    PROVE  /\ drafts' \in [1 .. depth -> Tokens]
           /\ head' \in HeadRec /\ head'.pos <= head'.n
           /\ head'.n <= Len(head'.rows)
           /\ hd.n <= Len(head'.rows)
           /\ \A i \in 1 .. hd.n : head'.rows[i] = hd.rows[i]
           /\ faults' \in 0 .. MaxFaults
<1> DEFINE R == Min({depth - 1, HeadCap - hd.pos})
           own(d) == [i \in 1 .. depth |-> [h |-> OwnHidden, tok |-> d[i]]]
           fed(d, k) == Taken(hd, SubSeq(own(d), 1, k))
<1>1. PICK d \in [1 .. depth -> Tokens], k \in 0 .. R :
        /\ drafts' = d
        /\ head' = IF k < R THEN Absorbed(fed(d, k), <<own(d)[k + 1]>>)
                   ELSE fed(d, k)
        /\ IF k < R THEN Faulty ELSE UNCHANGED faults
    BY DEF Chain
<1>2. R \in Int /\ R <= depth - 1
    <2>1. /\ hd.pos \in Nat /\ HeadCap - hd.pos \in Int /\ depth - 1 \in Int
        BY LenProperties, SpeculationAssumption
           DEF HeadRec, HeadCap, MainCap, Word
    <2> DEFINE y == HeadCap - hd.pos
               z == depth - 1
    <2> HIDE DEF y, z
    <2>2. Min({z, y}) \in {z, y} /\ Min({z, y}) <= z
        BY <2>1, MinOfTwo DEF y, z
    <2>3. QED BY <2>1, <2>2 DEF y, z
<1> HIDE DEF R
<1>3. k \in 0 .. depth /\ (k < R => k + 1 \in 1 .. depth)
    BY <1>2
<1>4. /\ own(d) \in Seq(Pairs) /\ Len(own(d)) = depth
      /\ \A i \in 1 .. depth : own(d)[i] \in Pairs
    <2>1. \A i \in 1 .. depth : [h |-> OwnHidden, tok |-> d[i]] \in Pairs
        BY DEF Pairs
    <2>2. own(d) \in [1 .. depth -> Pairs]
        BY <2>1
    <2> HIDE DEF own
    <2>3. QED BY <2>2
<1>5. SubSeq(own(d), 1, k) \in Seq(Pairs)
    <2> HIDE DEF own
    <2>1. QED BY <1>3, <1>4, Prefix
<1>6. k < R => <<own(d)[k + 1]>> \in Seq(Pairs)
    <2>1. k < R => own(d)[k + 1] \in Pairs
        BY <1>3, <1>4
    <2> HIDE DEF own
    <2>2. QED BY <2>1
<1> HIDE DEF own
<1>7. hd.n \in Nat /\ hd.pos \in Nat
    BY DEF HeadRec
<1>8. /\ fed(d, k) \in HeadRec /\ fed(d, k).pos <= fed(d, k).n
      /\ hd.n <= fed(d, k).n
      /\ fed(d, k).n <= Len(fed(d, k).rows)
      /\ \A i \in 1 .. hd.n : fed(d, k).rows[i] = hd.rows[i]
    <2> DEFINE p == SubSeq(own(d), 1, k)
    <2> HIDE DEF p
    <2>1. p \in Seq(Pairs) /\ Len(p) \in Nat
        BY <1>5, LenProperties DEF p
    <2>2. /\ Taken(hd, p) \in HeadRec
          /\ Taken(hd, p).pos = hd.pos + Len(p)
          /\ Taken(hd, p).n = hd.n + Len(p)
          /\ Taken(hd, p).n <= Len(Taken(hd, p).rows)
          /\ \A i \in 1 .. hd.n : Taken(hd, p).rows[i] = hd.rows[i]
        BY <2>1, TakenFacts
    <2>3. QED BY <1>7, <2>1, <2>2 DEF p
<1> HIDE DEF fed
<1>9. CASE k < R
    <2> DEFINE g == fed(d, k)
               p == <<own(d)[k + 1]>>
    <2>1. p \in Seq(Pairs) /\ Len(p) = 1
        BY <1>6, <1>9
    <2>2. g \in HeadRec /\ g.pos <= g.n /\ g.n <= Len(g.rows)
          /\ g.n \in Nat /\ g.pos \in Nat /\ hd.n <= g.n
          /\ \A i \in 1 .. hd.n : g.rows[i] = hd.rows[i]
        BY <1>8 DEF HeadRec
    <2>3. head' = Absorbed(g, p) /\ Faulty
        BY <1>1, <1>9
    <2> HIDE DEF g, p
    <2>4. /\ head' \in HeadRec /\ head'.pos = g.pos
          /\ head'.n = g.n + Len(p) /\ head'.n <= Len(head'.rows)
          /\ \A i \in 1 .. g.n : head'.rows[i] = g.rows[i]
        <3> DEFINE a == Absorbed(g, p)
        <3>1. /\ a \in HeadRec /\ a.pos = g.pos
              /\ a.n = g.n + Len(p) /\ a.n <= Len(a.rows)
              /\ \A i \in 1 .. g.n : a.rows[i] = g.rows[i]
            BY <2>1, <2>2, AbsorbedFacts
        <3>2. head' = a
            BY <2>3
        <3> HIDE DEF a
        <3>3. QED BY <3>1, <3>2
    <2>5. hd.n <= Len(head'.rows)
          /\ \A i \in 1 .. hd.n : head'.rows[i] = hd.rows[i]
        <3>1. Len(head'.rows) \in Nat
            BY <2>4, LenProperties DEF HeadRec
        <3>2. \A i \in 1 .. hd.n : i \in 1 .. g.n
            BY <1>7, <2>2
        <3>3. QED BY <1>7, <2>1, <2>2, <2>4, <3>1, <3>2
    <2>6. faults' \in 0 .. MaxFaults
        BY <2>3, FaultyCounts
    <2>7. head'.pos <= head'.n
        BY <2>1, <2>2, <2>4
    <2>8. QED BY <1>1, <2>4, <2>5, <2>6, <2>7
<1>10. CASE ~(k < R)
    <2>1. head' = fed(d, k) /\ faults' = faults
        BY <1>1, <1>10
    <2>2. hd.n <= Len(head'.rows)
        <3>1. Len(head'.rows) \in Nat /\ head'.n \in Nat
            BY <1>8, <2>1, LenProperties DEF HeadRec
        <3>2. QED BY <1>7, <1>8, <2>1, <3>1
    <2>3. QED BY <1>1, <1>8, <2>1, <2>2
<1>11. QED BY <1>9, <1>10

LEMMA RewoundFacts ==
    ASSUME Shapes
    PROVE  /\ Rewound(head, clean) \in HeadRec
           /\ Rewound(head, clean).pos = clean.n
           /\ Rewound(head, clean).n = clean.n
           /\ Rewound(head, clean).rows = head.rows
           /\ clean.n \in Nat /\ clean.n <= Len(head.rows)
<1>1. head \in HeadRec /\ clean.n \in Nat /\ clean.pos = clean.n
      /\ clean.n <= Len(head.rows)
    BY DEF Shapes
<1>2. Rewound(head, clean) = [head EXCEPT !.pos = clean.n, !.n = clean.n]
    BY <1>1 DEF Rewound
<1>3. \A x \in Nat : LET r == [head EXCEPT !.pos = x, !.n = x] IN
        r \in HeadRec /\ r.pos = x /\ r.n = x /\ r.rows = head.rows
    BY <1>1 DEF HeadRec
<1>4. QED BY <1>1, <1>2, <1>3

\* What is left of a head, whatever its forwards did.
HeadKept ==
    /\ drafts' \in [1 .. depth -> Tokens]
    /\ head' \in HeadRec /\ head'.pos <= head'.n
    /\ head'.n <= Len(head'.rows)
    /\ clean' \in [pos : Nat, n : Nat] /\ clean'.n = clean'.pos
    /\ clean'.n <= Len(head'.rows)
    /\ stale' \in BOOLEAN
    /\ faults' \in 0 .. MaxFaults

\* The true pairs are learnt: behind the clean ones, which stay.
LEMMA LearnFacts ==
    ASSUME TypeOK, Shapes, NEW pairs \in Seq(Pairs), Learn(pairs)
    PROVE  /\ HeadKept /\ stale' = stale
           /\ clean'.n = clean.n + Len(pairs)
           /\ \A i \in 1 .. clean.n : head'.rows[i] = head.rows[i]
           /\ \A j \in 1 .. Len(pairs) :
                head'.rows[clean.n + j] = pairs[j]
<1> DEFINE r == Rewound(head, clean)
           l == Taken(r, pairs)
<1>1. /\ r \in HeadRec /\ r.pos = clean.n /\ r.n = clean.n
      /\ r.rows = head.rows
      /\ clean.n \in Nat /\ clean.n <= Len(head.rows)
    BY RewoundFacts
<1> HIDE DEF r
<1>2. Len(pairs) \in Nat
    BY LenProperties
<1>3. /\ l \in HeadRec /\ l.pos = clean.n + Len(pairs)
      /\ l.n = clean.n + Len(pairs) /\ l.n <= Len(l.rows)
      /\ \A i \in 1 .. clean.n : l.rows[i] = head.rows[i]
      /\ \A j \in 1 .. Len(pairs) : l.rows[clean.n + j] = pairs[j]
    <2>1. r.n <= Len(r.rows)
        BY <1>1
    <2>2. /\ l \in HeadRec /\ l.pos = r.pos + Len(pairs)
          /\ l.n = r.n + Len(pairs) /\ l.n <= Len(l.rows)
          /\ \A i \in 1 .. r.n : l.rows[i] = r.rows[i]
          /\ \A j \in 1 .. Len(pairs) : l.rows[r.n + j] = pairs[j]
        BY <1>1, <2>1, TakenFacts
    <2> HIDE DEF l
    <2>3. QED BY <1>1, <2>2
<1>4. clean' = Clean(l) /\ Chain(l) /\ stale' = stale
    BY DEF Learn, r
<1> HIDE DEF l
<1>5. /\ drafts' \in [1 .. depth -> Tokens]
      /\ head' \in HeadRec /\ head'.pos <= head'.n
      /\ head'.n <= Len(head'.rows) /\ l.n <= Len(head'.rows)
      /\ \A i \in 1 .. l.n : head'.rows[i] = l.rows[i]
      /\ faults' \in 0 .. MaxFaults
    <2>1. prompt \in Word /\ depth \in Nat /\ faults \in 0 .. MaxFaults
        BY SpeculationAssumption DEF TypeOK, Word
    <2>2. l.pos <= l.n
        BY <1>1, <1>2, <1>3
    <2>3. QED BY <1>3, <1>4, <2>1, <2>2, ChainFacts
<1>6. /\ clean' \in [pos : Nat, n : Nat] /\ clean'.n = l.n
      /\ clean'.pos = l.n
    BY <1>1, <1>2, <1>3, <1>4 DEF Clean
<1>7. HeadKept
    BY <1>4, <1>5, <1>6 DEF HeadKept, Shapes
<1>8. /\ \A i \in 1 .. clean.n : i \in 1 .. l.n
      /\ \A j \in 1 .. Len(pairs) : clean.n + j \in 1 .. l.n
    BY <1>1, <1>2, <1>3
<1>9. QED BY <1>3, <1>4, <1>5, <1>6, <1>7, <1>8

LEMMA LearnNotFacts ==
    ASSUME TypeOK, Shapes, NEW pairs \in Seq(Pairs), LearnNot(pairs)
    PROVE  HeadKept /\ stale'
<1> DEFINE r == Rewound(head, clean)
<1>1. /\ r \in HeadRec /\ r.pos = clean.n /\ r.n = clean.n
      /\ r.rows = head.rows
      /\ clean.n \in Nat /\ clean.n <= Len(head.rows)
    BY RewoundFacts
<1>2. /\ \/ Faulty /\ head' = Absorbed(r, pairs)
         \/ UNCHANGED faults /\ head' = r
      /\ AllDead /\ stale' = TRUE /\ clean' = clean
    BY DEF LearnNot
<1> HIDE DEF r
<1>3. Len(pairs) \in Nat /\ Len(head.rows) \in Nat
    BY <1>1, LenProperties DEF HeadRec
<1>4. drafts' \in [1 .. depth -> Tokens]
    BY <1>2, SpeculationAssumption DEF AllDead
<1>5. /\ head' \in HeadRec /\ head'.pos <= head'.n
      /\ head'.n <= Len(head'.rows) /\ clean.n <= Len(head'.rows)
    <2>1. CASE head' = r
        BY <1>1, <2>1
    <2>2. CASE head' = Absorbed(r, pairs)
        <3> DEFINE a == Absorbed(r, pairs)
        <3>0. r.n <= Len(r.rows)
            BY <1>1
        <3>b. /\ a \in HeadRec /\ a.pos = r.pos
              /\ a.n = r.n + Len(pairs)
              /\ a.n <= Len(a.rows)
              /\ Len(r.rows) <= Len(a.rows)
            BY <1>1, <3>0, AbsorbedFacts
        <3> HIDE DEF a
        <3>1. /\ head' \in HeadRec /\ head'.pos = clean.n
              /\ head'.n = clean.n + Len(pairs)
              /\ head'.n <= Len(head'.rows)
              /\ Len(head.rows) <= Len(head'.rows)
            BY <1>1, <2>2, <3>b DEF a
        <3>2. Len(head'.rows) \in Nat
            BY <3>1, LenProperties DEF HeadRec
        <3>3. QED BY <1>1, <1>3, <3>1, <3>2
    <2>3. QED BY <1>2, <2>1, <2>2
<1>6. faults' \in 0 .. MaxFaults
    BY <1>2, FaultyCounts DEF TypeOK
<1>7. clean' \in [pos : Nat, n : Nat] /\ clean'.n = clean'.pos
    BY <1>2 DEF Shapes
<1>8. stale' /\ stale' \in BOOLEAN
    BY <1>2
<1>9. QED BY <1>2, <1>4, <1>5, <1>6, <1>7, <1>8 DEF HeadKept

-----------------------------------------------------------------------------
(* The inductive step, action by action.                                   *)

\* What the types say of the texts.
LEMMA Basics ==
    ASSUME TypeOK, Shapes
    PROVE  /\ prompt \in Word /\ Len(prompt) \in Nat \ {0}
           /\ DOMAIN prompt = 1 .. Len(prompt)
           /\ depth \in Nat \ {0} /\ MaxTokens \in Nat
           /\ stream \in Word /\ Text \in Word /\ sent \in Word
           /\ out \in Word /\ batch \in Word /\ held \in Tokens
           /\ main.kda \in Word /\ snap.kda \in Word /\ carried \in Word
           /\ drafts \in Word /\ Len(drafts) = depth
           /\ main \in Model /\ main.n <= Len(main.rows)
<1>1. prompt \in Word /\ prompt # <<>>
    BY SpeculationAssumption DEF TypeOK, Word
<1>2. depth \in Nat \ {0} /\ MaxTokens \in Nat
    BY SpeculationAssumption DEF TypeOK
<1>3. /\ stream \in Word /\ sent \in Word /\ held \in Tokens
      /\ drafts \in [1 .. depth -> Tokens]
    BY DEF TypeOK, Word
<1>4. Text \in Word
    BY <1>1, <1>3, ConcatProperties DEF Text, Word
<1>5. drafts \in Word /\ Len(drafts) = depth
    BY <1>2, <1>3 DEF Word
<1>6. /\ main.kda \in Word /\ snap.kda \in Word /\ carried \in Word
      /\ out \in Word /\ batch \in Word
      /\ main \in Model /\ main.n <= Len(main.rows)
    BY DEF Shapes, Model, Word
<1>7. Len(prompt) \in Nat \ {0} /\ DOMAIN prompt = 1 .. Len(prompt)
    BY <1>1, EmptySeq, LenProperties DEF Word
<1>8. QED BY <1>1, <1>2, <1>3, <1>4, <1>5, <1>6, <1>7

\* A forward of the main model fails: the request ends there.
LEMMA BreakKeeps ==
    ASSUME SInv, NEW toks \in Word, NEW reason \in {"error", "length"},
           Break(toks, reason)
    PROVE  SInv'
<1>1. TypeOK /\ Shapes
    BY DEF SInv
<1>2. main' \in Model /\ main'.n <= Len(main'.rows)
    BY <1>1, Basics, CutShape DEF Break
<1>3. faults' \in 0 .. MaxFaults
    BY <1>1, FaultyCounts DEF Break, TypeOK
<1>4. /\ pc' = "done" /\ broken' = TRUE /\ finish' = reason
      /\ UNCHANGED <<prompt, depth, snap, head, clean, carried, drafts,
                     stale, held, q, batch, seen, matched, out, stream,
                     context, sent>>
    BY DEF Break, request, mtp, step, draws
<1>5. TypeOK'
    <2>1. main'.pos \in Nat /\ main'.n \in 0 .. Len(main'.rows)
          /\ main'.kda \in Seq(Tokens) /\ main'.rows \in Seq(Tokens)
        BY <1>2, LenProperties DEF Model
    <2>2. QED BY <1>1, <1>3, <1>4, <2>1 DEF TypeOK
<1>6. Shapes'
    BY <1>1, <1>2, <1>4 DEF Shapes
<1>7. Phases' /\ HeadPhases' /\ WholeText'
    BY <1>4 DEF Phases, HeadPhases, WholeText
<1>8. QED BY <1>5, <1>6, <1>7 DEF SInv

\* gspec_prefill's forward: the whole prompt, and the first token of the
\* text from its last row.
LEMMA PrefillKeeps ==
    ASSUME SInv, Prefill
    PROVE  SInv'
<1>1. /\ TypeOK /\ Shapes /\ Phases
    BY DEF SInv
<1>2. PICK x \in Tokens : DrawFrom(Last(seen'), x) /\ held' = x
    BY DEF Prefill
<1>3. /\ pc' = "warm" /\ q' = Len(prompt) /\ main' = Fed(main, prompt)
      /\ seen' = Rows(main, prompt)
      /\ UNCHANGED <<prompt, depth, snap, head, clean, carried, drafts,
                     stale, batch, matched, out, sent, finish, faults,
                     broken>>
    BY DEF Prefill, request, mtp, client, failure
<1>4. /\ pc = "prefill" /\ Exact(main) /\ main.kda = <<>>
      /\ stream = <<>> /\ sent = <<>> /\ out = <<>>
      /\ clean.n = 0 /\ ~stale /\ snap.pos = 0
      /\ Len(sent) < MaxTokens
    BY <1>1 DEF Prefill, Phases
<1>5. /\ main' \in Model /\ Exact(main') /\ main'.kda = prompt
    <2>1. <<>> \o prompt = prompt
        BY <1>1, Basics, ConcatEmptySeq DEF Word
    <2>2. QED BY <1>1, <1>3, <1>4, <2>1, Basics, FedExact
<1>6. /\ seen' = [j \in DOMAIN prompt |-> SubSeq(prompt, 1, j)]
      /\ seen' \in Seq(Word)
    <2>1. \A j \in DOMAIN prompt :
            <<>> \o SubSeq(prompt, 1, j) = SubSeq(prompt, 1, j)
        <3>1. ASSUME NEW j \in DOMAIN prompt
              PROVE  <<>> \o SubSeq(prompt, 1, j) = SubSeq(prompt, 1, j)
            <4>1. j \in 0 .. Len(prompt)
                BY <1>1, Basics
            <4>2. SubSeq(prompt, 1, j) \in Seq(Tokens)
                BY <1>1, <4>1, Basics, Prefix DEF Word
            <4>3. QED BY <4>2, ConcatEmptySeq
        <3>2. QED BY <3>1
    <2>2. /\ Rows(main, prompt) =
                [j \in DOMAIN prompt |-> main.kda \o SubSeq(prompt, 1, j)]
          /\ Rows(main, prompt) \in Seq(Word)
        BY <1>1, <1>4, Basics, RowsFacts
    <2>3. [j \in DOMAIN prompt |-> main.kda \o SubSeq(prompt, 1, j)] =
          [j \in DOMAIN prompt |-> SubSeq(prompt, 1, j)]
        BY <1>4, <2>1
    <2>4. QED BY <1>3, <2>2, <2>3
<1>7. stream' = Append(stream, x) /\ stream' \in Word /\ <<>> \in Word
    BY <1>1, <1>2, Basics, AppendProperties, EmptySeq DEF DrawFrom, Word
<1>8. Text' = Append(main'.kda, held')
    <2>1. prompt \o Append(<<>>, x) = Append(prompt \o <<>>, x)
        BY <1>1, <1>7, Basics, ConcatAppend DEF Word
    <2>2. prompt \o <<>> = prompt
        BY <1>1, Basics, ConcatEmptySeq DEF Word
    <2>3. QED BY <1>2, <1>3, <1>4, <1>5, <1>7, <2>1, <2>2 DEF Text
<1>9. stream' = Append(sent' \o out', held')
    <2>1. <<>> \o <<>> = <<>>
        BY <1>7, ConcatEmptySeq DEF Word
    <2>2. QED BY <1>2, <1>3, <1>4, <1>7, <2>1
<1>10. TypeOK'
    <2>1. main'.pos \in Nat /\ main'.n \in 0 .. Len(main'.rows)
          /\ main'.kda \in Seq(Tokens) /\ main'.rows \in Seq(Tokens)
        BY <1>5, LenProperties DEF Model, Exact
    <2>2. q' \in Nat /\ snap'.pos <= q'
        BY <1>1, <1>3, <1>4, Basics
    <2>3. QED BY <1>1, <1>2, <1>3, <1>7, <2>1, <2>2 DEF TypeOK, Word
<1>11. Shapes'
    <2>1. snap'.pos <= q' /\ main'.n <= Len(main'.rows)
        BY <1>1, <1>3, <1>4, <1>5, Basics DEF Exact
    <2>2. QED BY <1>1, <1>3, <1>5, <1>6, <2>1 DEF Shapes
<1>12. Phases'
    <2>1. Settled'
        BY <1>3, <1>5, <1>8 DEF Settled
    <2>2. QED BY <1>3, <1>4, <1>5, <1>6, <1>9, <2>1 DEF Phases
<1>13. HeadPhases' /\ WholeText'
    BY <1>3 DEF HeadPhases, WholeText
<1>14. QED BY <1>10, <1>11, <1>12, <1>13 DEF SInv

\* The pairs of the prompt are learnt, or the head is given up as stale.
LEMMA WarmKeeps ==
    ASSUME SInv, Warm
    PROVE  SInv'
<1>1. TypeOK /\ Shapes /\ Phases
    BY DEF SInv
<1>2. /\ pc' = "step" /\ carried' = Last(seen)
      /\ UNCHANGED <<prompt, depth, main, snap, held, q, batch, seen, matched,
                     out, stream, context, sent, finish, broken>>
    BY DEF Warm, request, states, step, draws, client
<1>3. /\ main.kda = prompt /\ clean.n = 0 /\ ~stale /\ out = <<>>
      /\ seen = [j \in DOMAIN prompt |-> SubSeq(prompt, 1, j)]
      /\ Settled /\ stream = Append(sent \o out, held)
      /\ Len(sent) < MaxTokens
    BY <1>1 DEF Warm, Phases
<1>4. PICK n \in Nat \ {0} : n = Len(prompt)
    BY <1>1, Basics
<1>5. /\ DOMAIN prompt = 1 .. n /\ prompt \in Seq(Tokens)
      /\ \A j \in 1 .. n : /\ SubSeq(prompt, 1, j) \in Word
                           /\ seen[j] = SubSeq(prompt, 1, j)
                           /\ prompt[j] \in Tokens
    <2>1. DOMAIN prompt = 1 .. n /\ prompt \in Seq(Tokens)
        BY <1>1, <1>4, Basics DEF Word
    <2>2. ASSUME NEW j \in 1 .. n
          PROVE  SubSeq(prompt, 1, j) \in Word /\ prompt[j] \in Tokens
        <3>1. j \in 0 .. Len(prompt)
            BY <1>4
        <3>2. QED BY <1>4, <2>1, <3>1, Prefix, ElementOfSeq DEF Word
    <2>3. QED BY <1>3, <2>1, <2>2
<1>6. carried' = prompt
    <2>1. Len(seen) = n
        <3>1. DOMAIN seen = 1 .. n
            BY <1>3, <1>5
        <3>2. seen \in Seq(Word)
            BY <1>1 DEF Shapes
        <3>3. DOMAIN seen = 1 .. Len(seen) /\ Len(seen) \in Nat
            BY <3>2, LenProperties
        <3>4. QED BY <3>1, <3>3
    <2>2. carried' = SubSeq(prompt, 1, n)
        BY <1>2, <1>5, <2>1 DEF Last
    <2>3. QED BY <1>4, <1>5, <2>2, SubSeqFull
<1>7. HeadKept /\ (~stale' => HeadOn(prompt)')
    <2>1. CASE n > 1
        <3>1. PromptPairs \in Seq(Pairs) /\ Len(PromptPairs) = n - 1
              /\ \A p \in 1 .. n - 1 : PromptPairs[p] =
                    [h |-> SubSeq(prompt, 1, p), tok |-> prompt[p + 1]]
            <4>1. ASSUME NEW p \in 1 .. n - 1
                  PROVE  /\ [h |-> seen[p], tok |-> prompt[p + 1]] \in Pairs
                         /\ seen[p] = SubSeq(prompt, 1, p)
                <5>1. p \in 1 .. n /\ p + 1 \in 1 .. n
                    OBVIOUS
                <5>2. /\ seen[p] \in Seq(Tokens) /\ prompt[p + 1] \in Tokens
                      /\ seen[p] = SubSeq(prompt, 1, p)
                    BY <1>5, <5>1 DEF Word
                <5>3. QED BY <5>2 DEF Pairs
            <4>2. n - 1 \in Nat
                OBVIOUS
            <4>3. PromptPairs = [p \in 1 .. n - 1 |->
                        [h |-> seen[p], tok |-> prompt[p + 1]]]
                BY <1>4 DEF PromptPairs
            <4>4. PromptPairs \in [1 .. n - 1 -> Pairs]
                BY <4>1, <4>3
            <4>5. PromptPairs \in Seq(Pairs) /\ Len(PromptPairs) = n - 1
                BY <4>2, <4>4
            <4>6. QED BY <4>1, <4>3, <4>5
        <3>2. CASE Learn(PromptPairs)
            <4>1. /\ HeadKept /\ clean'.n = clean.n + Len(PromptPairs)
                  /\ \A j \in 1 .. Len(PromptPairs) :
                        head'.rows[clean.n + j] = PromptPairs[j]
                BY <1>1, <3>1, <3>2, LearnFacts
            <4>2. clean'.n = n - 1
                BY <1>3, <3>1, <4>1
            <4>3. \A p \in 1 .. n - 1 : head'.rows[p] = PromptPairs[p]
                <5>1. ASSUME NEW p \in 1 .. n - 1
                      PROVE  head'.rows[p] = PromptPairs[p]
                    <6>1. p \in 1 .. Len(PromptPairs) /\ clean.n + p = p
                        BY <1>3, <3>1
                    <6>2. QED BY <4>1, <6>1
                <5>2. QED BY <5>1
            <4>4. QED BY <1>2, <1>4, <1>6, <3>1, <4>1, <4>2, <4>3 DEF HeadOn
        <3>3. CASE LearnNot(PromptPairs)
            BY <1>1, <3>1, <3>3, LearnNotFacts
        <3>4. QED BY <1>4, <2>1, <3>2, <3>3 DEF Warm
    <2>2. CASE n = 1
        <3>1. AllDead /\ UNCHANGED <<head, clean, stale, faults>>
            BY <1>4, <2>2 DEF Warm
        <3>2. drafts' \in [1 .. depth -> Tokens]
            BY <3>1, SpeculationAssumption DEF AllDead
        <3>3. HeadKept
            BY <1>1, <3>1, <3>2 DEF HeadKept, Shapes, TypeOK
        <3>4. clean'.n = 0 /\ Len(prompt') - 1 = 0
            BY <1>2, <1>3, <1>4, <2>2, <3>1
        <3>5. 1 .. clean'.n = {}
            BY <3>4
        <3>6. QED BY <1>2, <1>6, <3>3, <3>4, <3>5 DEF HeadOn
    <2>3. QED BY <2>1, <2>2
<1>8. TypeOK'
    BY <1>1, <1>2, <1>7 DEF TypeOK, HeadKept, HeadRec
<1>9. Shapes'
    <2>1. carried' \in Word
        BY <1>5, <1>6 DEF Word
    <2>2. QED BY <1>1, <1>2, <1>7, <2>1 DEF Shapes, HeadKept
<1>10. Settled'
    BY <1>2, <1>3 DEF Settled, Exact, Text
<1>11. Phases'
    BY <1>2, <1>3, <1>10 DEF Phases
<1>12. HeadPhases'
    <2>1. ~stale' => HeadOn(main.kda)'
        BY <1>2, <1>3, <1>7 DEF HeadOn
    <2>2. QED BY <1>2, <2>1 DEF HeadPhases
<1>13. WholeText'
    BY <1>2 DEF WholeText
<1>14. QED BY <1>8, <1>9, <1>11, <1>12, <1>13 DEF SInv

\* The tokens of a step: the held one, and the drafts but the first.
LEMMA BatchFacts ==
    ASSUME TypeOK, Shapes, Ahead > 0
    PROVE  /\ Batch \in Word /\ Len(Batch) = Ahead
           /\ Ahead \in Nat \ {0} /\ Ahead <= depth
           /\ DOMAIN Batch = 1 .. Ahead /\ Batch[1] = held
           /\ \A j \in 2 .. Ahead : Batch[j] = drafts[j]
<1>1. Ahead \in Nat \ {0} /\ Ahead <= depth
    <2>1. depth \in Int /\ MainCap - q \in Int
        BY Basics DEF MainCap, TypeOK
    <2> DEFINE a == depth
               b == MainCap - q
    <2> HIDE DEF a, b
    <2>2. Min({a, b}) \in {a, b} /\ Min({a, b}) <= a
        BY <2>1, MinOfTwo DEF a, b
    <2>3. Ahead \in Int /\ Ahead <= depth
        BY <2>1, <2>2 DEF Ahead, a, b
    <2>4. QED BY <2>3
<1>2. PICK m \in Nat \ {0} : m = Ahead
    BY <1>1
<1> DEFINE d == SubSeq(drafts, 2, m)
           h == <<held>>
<1>3. /\ d \in Seq(Tokens) /\ Len(d) = m - 1
      /\ \A i \in 1 .. m - 1 : d[i] = drafts[i + 1]
    <2>1. \A i \in 2 .. m : drafts[i] \in Tokens
        BY <1>1, <1>2, Basics, ElementOfSeq DEF Word
    <2>2. /\ d \in Seq(Tokens) /\ Len(d) = IF 2 <= m THEN m - 2 + 1 ELSE 0
          /\ \A i \in 1 .. m - 2 + 1 : d[i] = drafts[2 + i - 1]
        BY <2>1, SubSeqProperties
    <2> HIDE DEF d
    <2>3. \A i \in 1 .. m - 1 : i \in 1 .. m - 2 + 1 /\ 2 + i - 1 = i + 1
        OBVIOUS
    <2>4. QED BY <2>2, <2>3
<1>4. h \in Seq(Tokens) /\ Len(h) = 1 /\ h[1] = held
    BY Basics
<1>5. Batch = h \o d
    BY <1>2 DEF Batch
<1> HIDE DEF h, d
<1>6. /\ Batch \in Seq(Tokens) /\ Len(Batch) = m
      /\ \A i \in 1 .. 1 + (m - 1) :
            Batch[i] = IF i <= 1 THEN h[i] ELSE d[i - 1]
    <2>1. /\ h \o d \in Seq(Tokens) /\ Len(h \o d) = Len(h) + Len(d)
          /\ \A i \in 1 .. Len(h) + Len(d) :
                (h \o d)[i] = IF i <= Len(h) THEN h[i] ELSE d[i - Len(h)]
        BY <1>3, <1>4, ConcatProperties
    <2>2. /\ Batch \in Seq(Tokens) /\ Len(Batch) = 1 + (m - 1)
          /\ \A i \in 1 .. 1 + (m - 1) :
                Batch[i] = IF i <= 1 THEN h[i] ELSE d[i - 1]
        BY <1>3, <1>4, <1>5, <2>1
    <2>3. QED BY <2>2
<1>7. DOMAIN Batch = 1 .. m
    BY <1>6, LenProperties
<1>8. Batch[1] = held
    BY <1>4, <1>6
<1>9. ASSUME NEW j \in 2 .. m
      PROVE  Batch[j] = drafts[j]
    <2>1. j \in 1 .. 1 + (m - 1) /\ ~(j <= 1) /\ j - 1 \in 1 .. m - 1
          /\ (j - 1) + 1 = j
        OBVIOUS
    <2>2. QED BY <1>3, <1>6, <2>1
<1>10. QED BY <1>1, <1>2, <1>6, <1>7, <1>8, <1>9 DEF Word

\* The batch is fed behind a snapshot.
LEMMA VerifyKeeps ==
    ASSUME SInv, Verify
    PROVE  SInv'
<1>1. TypeOK /\ Shapes /\ Phases /\ HeadPhases
    BY DEF SInv
<1>2. /\ pc' = "walk" /\ snap' = Snapshot(main) /\ batch' = Batch
      /\ main' = Fed(main, Batch) /\ seen' = Rows(main, Batch)
      /\ out' = <<held>> /\ matched' = 0
      /\ UNCHANGED <<prompt, depth, head, clean, carried, drafts, stale,
                     held, q, stream, context, sent, finish, faults,
                     broken>>
    BY DEF Verify, request, mtp, draws, client, failure
<1>3. /\ pc = "step" /\ out = <<>> /\ Settled
      /\ stream = Append(sent \o out, held) /\ Len(sent) < MaxTokens
    BY <1>1 DEF Verify, Phases
<1>4. /\ Batch \in Word /\ Len(Batch) = Ahead
      /\ Ahead \in Nat \ {0} /\ Ahead <= depth
      /\ DOMAIN Batch = 1 .. Ahead /\ Batch[1] = held
      /\ \A j \in 2 .. Ahead : Batch[j] = drafts[j]
    BY <1>1, BatchFacts DEF Verify
<1>5. PICK w \in Word : w = main.kda
    BY <1>1, Basics
<1>6. main \in Model /\ Exact(main) /\ q = Len(w) /\ Len(w) \in Nat
    BY <1>1, <1>3, <1>5, Basics, LenProperties DEF Settled, Word
<1>7. /\ snap' \in [pos : Nat, kda : Word, n : Nat]
      /\ snap'.kda = w /\ snap'.n = Len(w) /\ snap'.pos = Len(w)
    BY <1>2, <1>5, <1>6 DEF Snapshot, Exact, Model, Word
<1>8. /\ main' \in Model /\ Exact(main') /\ main'.kda = w \o batch'
    BY <1>2, <1>4, <1>5, <1>6, FedExact
<1>9. /\ seen' = [j \in DOMAIN batch' |-> w \o SubSeq(batch', 1, j)]
      /\ seen' \in Seq(Word)
    <2>1. /\ Rows(main, Batch) =
                [j \in DOMAIN Batch |-> main.kda \o SubSeq(Batch, 1, j)]
          /\ Rows(main, Batch) \in Seq(Word)
        BY <1>4, <1>6, RowsFacts
    <2>2. QED BY <1>2, <1>5, <2>1
<1>10. Kept' = <<held>> /\ <<held>> \in Word /\ held \in Tokens
    <2>1. held \in Tokens /\ <<held>> \in Seq(Tokens)
        BY <1>1, Basics
    <2>2. Kept' = SubSeq(Batch, 1, 0 + 1)
        BY <1>2 DEF Kept
    <2>3. /\ SubSeq(Batch, 1, 1) \in Seq(Tokens)
          /\ Len(SubSeq(Batch, 1, 1)) = 1
          /\ \A i \in 1 .. 1 : SubSeq(Batch, 1, 1)[i] = Batch[i]
        <3>1. 1 \in 0 .. Len(Batch)
            BY <1>4
        <3>2. QED BY <1>4, <3>1, Prefix DEF Word
    <2>4. SubSeq(Batch, 1, 1) = <<held>>
        <3>1. \A i \in 1 .. Len(SubSeq(Batch, 1, 1)) :
                SubSeq(Batch, 1, 1)[i] = <<held>>[i]
            BY <1>4, <2>3
        <3>2. Len(<<held>>) = 1
            OBVIOUS
        <3>3. QED BY <2>1, <2>3, <3>1, <3>2, SeqEqual
    <2>5. QED BY <2>1, <2>2, <2>4 DEF Word
<1>11. Text' = w \o <<held>> /\ stream' = sent \o <<held>>
    <2>1. Text = Append(w, held)
        BY <1>3, <1>5 DEF Settled
    <2>2. Append(w, held) = w \o <<held>>
        BY <1>10, AppendIsConcat DEF Word
    <2>3. sent \in Seq(Tokens)
        BY <1>1, Basics DEF Word
    <2>4. sent \o <<>> = sent /\ Append(sent, held) = sent \o <<held>>
        BY <1>10, <2>3, ConcatEmptySeq, AppendIsConcat
    <2>5. QED BY <1>2, <1>3, <2>1, <2>2, <2>4 DEF Text
<1>12. Len(main'.kda) \in Nat /\ main'.kda \in Word
    BY <1>8, LenProperties DEF Model, Word
<1>13. TypeOK'
    <2>1. main'.pos \in Nat /\ main'.n \in 0 .. Len(main'.rows)
          /\ main'.kda \in Seq(Tokens) /\ main'.rows \in Seq(Tokens)
        BY <1>8, ModelTyped DEF Exact
    <2>2. snap'.n = snap'.pos /\ snap'.pos <= q'
        BY <1>2, <1>6, <1>7
    <2>3. Len(batch') <= depth' /\ matched' <= Len(batch')
        BY <1>2, <1>4
    <2>4. QED BY <1>1, <1>2, <2>1, <2>2, <2>3 DEF TypeOK
<1>14. Shapes'
    <2>1. main'.n <= Len(main'.rows)
        BY <1>8 DEF Exact
    <2>2. snap'.n = snap'.pos /\ snap'.pos <= q'
        BY <1>2, <1>6, <1>7
    <2>3. out' \in Word /\ matched' \in Nat /\ batch' \in Word
        BY <1>2, <1>4, <1>10
    <2>4. QED BY <1>1, <1>2, <1>7, <1>8, <1>9, <2>1, <2>2, <2>3 DEF Shapes
<1>15. InStep'
    <2>1. snap'.n = Len(snap'.kda) /\ matched' + 1 <= Len(batch')
        BY <1>2, <1>4, <1>7
    <2>2. \A j \in 2 .. Len(batch') : batch'[j] = drafts'[j]
        BY <1>2, <1>4
    <2>3. seen' = [j \in DOMAIN batch' |-> snap'.kda \o SubSeq(batch', 1, j)]
        BY <1>7, <1>9
    <2>4. out' = Kept'
        BY <1>2, <1>10
    <2>5. QED BY <2>1, <2>2, <2>3, <2>4 DEF InStep
<1>16. Phases'
    <2>1. RunsAhead'
        BY <1>2, <1>6, <1>7, <1>8 DEF RunsAhead
    <2>2. Text' = snap'.kda \o Kept' /\ stream' = sent' \o out'
        BY <1>2, <1>7, <1>10, <1>11
    <2>3. QED BY <1>2, <1>3, <1>15, <2>1, <2>2 DEF Phases
<1>17. HeadPhases'
    <2>1. ~stale' => HeadOn(w)'
        BY <1>1, <1>2, <1>3, <1>5 DEF HeadPhases, HeadOn
    <2>2. QED BY <1>2, <1>7, <2>1 DEF HeadPhases, HeadOn
<1>18. WholeText'
    BY <1>2 DEF WholeText
<1>19. QED BY <1>13, <1>14, <1>16, <1>17, <1>18 DEF SInv

\* There is always room for another step: the client has not got all it
\* asked for, and the cap leaves room for it.
LEMMA RoomForAStep ==
    ASSUME SInv, pc = "step"
    PROVE  Ahead > 0
<1>1. TypeOK /\ Shapes /\ Phases
    BY DEF SInv
<1>2. /\ Settled /\ out = <<>> /\ stream = Append(sent \o out, held)
      /\ Len(sent) < MaxTokens
    BY <1>1 DEF Phases
<1>3. PICK n \in Nat, l \in Nat, d \in Nat \ {0}, t \in Nat :
        n = Len(prompt) /\ l = Len(sent) /\ d = depth /\ t = MaxTokens
    <2>1. Len(sent) \in Nat
        BY <1>1, Basics, LenProperties DEF Word
    <2>2. QED BY <1>1, <2>1, Basics
<1>4. Len(stream) = l + 1
    <2>1. sent \in Seq(Tokens) /\ held \in Tokens
        BY <1>1, Basics DEF Word
    <2>2. sent \o <<>> = sent
        BY <2>1, ConcatEmptySeq
    <2>3. Len(Append(sent, held)) = Len(sent) + 1
        BY <2>1, AppendProperties
    <2>4. QED BY <1>2, <1>3, <2>2, <2>3
<1>5. Len(Text) = n + (l + 1)
    <2>1. Len(prompt \o stream) = Len(prompt) + Len(stream)
        BY <1>1, Basics, ConcatProperties DEF Word
    <2>2. QED BY <1>3, <1>4, <2>1 DEF Text
<1>6. Len(Text) = q + 1 /\ q \in Nat
    <2>1. Len(Append(main.kda, held)) = Len(main.kda) + 1
        BY <1>1, Basics, AppendProperties DEF Word
    <2>2. Text = Append(main.kda, held) /\ q = Len(main.kda)
        BY <1>2 DEF Settled
    <2>3. q \in Nat
        BY <1>1 DEF TypeOK
    <2>4. QED BY <2>1, <2>2, <2>3
<1>7. q = n + l /\ l < t
    BY <1>2, <1>3, <1>5, <1>6
<1>8. MainCap - q \in Int /\ MainCap - q > 0
    BY <1>3, <1>7 DEF MainCap
<1> DEFINE b == MainCap - q
<1> HIDE DEF b
<1>9. Min({d, b}) \in {d, b}
    <2>1. d \in Int /\ b \in Int
        BY <1>8 DEF b
    <2>2. QED BY <2>1, MinOfTwo
<1>10. Ahead \in {d, b}
    BY <1>3, <1>9 DEF Ahead, b
<1>11. QED BY <1>8, <1>10 DEF b

\* A step without room never is: a step ends a request only when a forward
\* of the main model fails.
LEMMA StepFailsKeeps ==
    ASSUME SInv, StepFails
    PROVE  SInv'
<1>1. Ahead > 0
    BY RoomForAStep DEF StepFails
<1>2. Break(Batch, "length")
    BY <1>1 DEF StepFails
<1>3. Batch \in Word
    BY <1>1, BatchFacts DEF SInv
<1>4. QED BY <1>2, <1>3, BreakKeeps

\* What is kept of a batch, and what it grows by.
LEMMA KeptFacts ==
    ASSUME TypeOK, Shapes, InStep
    PROVE  /\ Kept \in Word /\ Len(Kept) = matched + 1
           /\ \A j \in 1 .. matched + 1 : Kept[j] = batch[j]
           /\ Len(batch) \in Nat /\ matched + 1 \in 1 .. Len(batch)
           /\ DOMAIN batch = 1 .. Len(batch)
           /\ seen[matched + 1] = snap.kda \o Kept
           /\ snap.kda \o Kept \in Word
<1>1. batch \in Seq(Tokens) /\ snap.kda \in Seq(Tokens) /\ matched \in Nat
      /\ matched + 1 <= Len(batch)
    BY Basics DEF Shapes, InStep, Word
<1>2. Len(batch) \in Nat /\ DOMAIN batch = 1 .. Len(batch)
    BY <1>1, LenProperties
<1>3. matched + 1 \in 0 .. Len(batch) /\ matched + 1 \in 1 .. Len(batch)
    BY <1>1, <1>2
<1>4. /\ Kept \in Seq(Tokens) /\ Len(Kept) = matched + 1
      /\ \A j \in 1 .. matched + 1 : Kept[j] = batch[j]
    BY <1>1, <1>3, Prefix DEF Kept
<1>5. seen[matched + 1] = snap.kda \o Kept
    <2>1. seen = [j \in DOMAIN batch |-> snap.kda \o SubSeq(batch, 1, j)]
        BY DEF InStep
    <2>2. matched + 1 \in DOMAIN batch
        BY <1>2, <1>3
    <2>3. QED BY <2>1, <2>2 DEF Kept
<1>6. snap.kda \o Kept \in Seq(Tokens)
    BY <1>1, <1>4, ConcatProperties
<1>7. QED BY <1>2, <1>3, <1>4, <1>5, <1>6 DEF Word

\* A draft that equals the draw is accepted; the other draw ends the walk.
LEMMA WalkKeeps ==
    ASSUME SInv, Walk
    PROVE  SInv'
<1>1. TypeOK /\ Shapes /\ Phases /\ HeadPhases
    BY DEF SInv
<1>2. PICK x \in Tokens :
        /\ DrawFrom(RowOf, x)
        /\ IF matched + 1 < Len(batch) /\ x = drafts[matched + 2]
             THEN /\ matched' = matched + 1 /\ out' = Append(out, x)
                  /\ UNCHANGED <<held, pc>>
             ELSE /\ held' = x /\ pc' = "fixup"
                  /\ UNCHANGED <<matched, out>>
    BY DEF Walk
<1>3. UNCHANGED <<prompt, depth, main, snap, head, clean, carried, drafts,
                  stale, q, batch, seen, sent, finish, faults, broken>>
    BY DEF Walk, request, states, mtp, client, failure
<1>4. /\ pc = "walk" /\ RunsAhead /\ InStep
      /\ Text = snap.kda \o Kept /\ stream = sent \o out
      /\ Len(sent) < MaxTokens
    BY <1>1 DEF Walk, Phases
<1>5. /\ Kept \in Word /\ Len(Kept) = matched + 1
      /\ Len(batch) \in Nat /\ matched + 1 \in 1 .. Len(batch)
      /\ snap.kda \o Kept \in Word
    BY <1>1, <1>4, KeptFacts
<1>6. /\ prompt \in Seq(Tokens) /\ stream \in Seq(Tokens)
      /\ sent \in Seq(Tokens) /\ out \in Seq(Tokens)
      /\ snap.kda \in Seq(Tokens) /\ Kept \in Seq(Tokens)
      /\ batch \in Seq(Tokens) /\ matched \in Nat
    BY <1>1, <1>5, Basics DEF Word, Shapes
<1>7. /\ stream' = Append(stream, x) /\ stream' \in Word
      /\ Append(out, x) \in Word
    BY <1>2, <1>6, AppendProperties DEF DrawFrom, Word
<1>8. Text' = Append(Text, x)
    <2>1. prompt \o Append(stream, x) = Append(prompt \o stream, x)
        BY <1>6, ConcatAppend
    <2>2. QED BY <1>3, <1>7, <2>1 DEF Text
<1>9. CASE matched + 1 < Len(batch) /\ x = drafts[matched + 2]
    <2>1. /\ matched' = matched + 1 /\ out' = Append(out, x)
          /\ held' = held /\ pc' = "walk"
        BY <1>2, <1>4, <1>9
    <2>2. x = batch[matched + 2]
        <3>1. matched + 2 \in 2 .. Len(batch)
            BY <1>5, <1>6, <1>9
        <3>2. QED BY <1>4, <1>9, <3>1 DEF InStep
    <2>3. Kept' = Append(Kept, x)
        <3>1. Kept' = SubSeq(batch, 1, (matched + 1) + 1)
            BY <1>3, <2>1 DEF Kept
        <3>2. matched + 1 \in 0 .. Len(batch) - 1
            BY <1>5, <1>6, <1>9
        <3>3. SubSeq(batch, 1, (matched + 1) + 1) =
              Append(SubSeq(batch, 1, matched + 1), batch[(matched + 1) + 1])
            BY <1>6, <3>2, PrefixGrows
        <3>4. (matched + 1) + 1 = matched + 2
            BY <1>6
        <3>5. QED BY <2>2, <3>1, <3>3, <3>4 DEF Kept
    <2>4. Text' = snap'.kda \o Kept'
        <3>1. snap.kda \o Append(Kept, x) = Append(snap.kda \o Kept, x)
            <4> DEFINE w == snap.kda
            <4>1. w \in Seq(Tokens)
                BY <1>6
            <4> HIDE DEF w
            <4>2. w \o Append(Kept, x) = Append(w \o Kept, x)
                BY <1>6, <4>1, ConcatAppend
            <4>3. QED BY <4>2 DEF w
        <3>2. QED BY <1>3, <1>4, <1>8, <2>3, <3>1
    <2>5. stream' = sent' \o out'
        <3>1. sent \o Append(out, x) = Append(sent \o out, x)
            BY <1>6, ConcatAppend
        <3>2. QED BY <1>3, <1>4, <1>7, <2>1, <3>1
    <2>6. matched' \in Nat /\ matched' + 1 <= Len(batch)
          /\ matched' <= Len(batch)
        BY <1>5, <1>6, <1>9, <2>1
    <2>7. TypeOK'
        BY <1>1, <1>3, <1>7, <2>1, <2>6 DEF TypeOK, Word
    <2>8. Shapes'
        BY <1>1, <1>3, <1>7, <2>1, <2>6 DEF Shapes
    <2>9. InStep'
        <3>1. out' = Kept'
            BY <1>4, <2>1, <2>3 DEF InStep
        <3>2. QED BY <1>3, <1>4, <2>6, <3>1 DEF InStep
    <2>10. RunsAhead'
        BY <1>3, <1>4 DEF RunsAhead, Exact
    <2>11. Phases'
        BY <1>3, <1>4, <2>1, <2>4, <2>5, <2>9, <2>10 DEF Phases
    <2>12. HeadPhases' /\ WholeText'
        BY <1>1, <1>3, <1>4, <2>1 DEF HeadPhases, HeadOn, WholeText
    <2>13. QED BY <2>7, <2>8, <2>11, <2>12 DEF SInv
<1>10. CASE ~(matched + 1 < Len(batch) /\ x = drafts[matched + 2])
    <2>1. /\ held' = x /\ pc' = "fixup" /\ matched' = matched /\ out' = out
        BY <1>2, <1>10
    <2>2. Kept' = Kept
        BY <1>3, <2>1 DEF Kept
    <2>3. Text' = Append(snap'.kda \o Kept', held')
        BY <1>3, <1>4, <1>8, <2>1, <2>2
    <2>4. stream' = Append(sent' \o out', held')
        BY <1>3, <1>4, <1>7, <2>1
    <2>5. TypeOK'
        BY <1>1, <1>3, <1>7, <2>1 DEF TypeOK, Word
    <2>6. Shapes'
        BY <1>1, <1>3, <2>1 DEF Shapes
    <2>7. InStep'
        BY <1>3, <1>4, <2>1, <2>2 DEF InStep
    <2>8. RunsAhead'
        BY <1>3, <1>4 DEF RunsAhead, Exact
    <2>9. Phases'
        BY <1>3, <1>4, <2>1, <2>3, <2>4, <2>7, <2>8 DEF Phases
    <2>10. HeadPhases' /\ WholeText'
        BY <1>1, <1>3, <1>4, <2>1 DEF HeadPhases, HeadOn, WholeText
    <2>11. QED BY <2>5, <2>6, <2>9, <2>10 DEF SInv
<1>11. QED BY <1>9, <1>10

\* What a fixup starts from: the main model has taken the whole batch behind
\* the snapshot.
LEMMA FixupFacts ==
    ASSUME SInv, pc = "fixup"
    PROVE  /\ RunsAhead /\ InStep
           /\ Text = Append(snap.kda \o Kept, held)
           /\ stream = Append(sent \o out, held)
           /\ Len(sent) < MaxTokens
           /\ Kept \in Word /\ Len(Kept) = matched + 1
           /\ Len(batch) \in Nat /\ matched + 1 \in 1 .. Len(batch)
           /\ Len(snap.kda \o Kept) = q + matched + 1
           /\ q \in Nat /\ matched \in Nat
           /\ RolledBack \in Model /\ Exact(RolledBack)
           /\ RolledBack.kda = snap.kda
<1>1. TypeOK /\ Shapes /\ Phases
    BY DEF SInv
<1>2. /\ RunsAhead /\ InStep
      /\ Text = Append(snap.kda \o Kept, held)
      /\ stream = Append(sent \o out, held) /\ Len(sent) < MaxTokens
    BY <1>1 DEF Phases
<1>3. /\ Kept \in Word /\ Len(Kept) = matched + 1
      /\ Len(batch) \in Nat /\ matched + 1 \in 1 .. Len(batch)
    BY <1>1, <1>2, KeptFacts
<1>4. q = Len(snap.kda) /\ q \in Nat /\ matched \in Nat
    BY <1>1, <1>2 DEF RunsAhead, TypeOK, Shapes
<1>5. Len(snap.kda \o Kept) = q + matched + 1
    <2>1. Len(snap.kda \o Kept) = Len(snap.kda) + Len(Kept)
        BY <1>1, <1>3, Basics, ConcatProperties DEF Word
    <2>2. Len(snap.kda \o Kept) = q + (matched + 1)
        BY <1>3, <1>4, <2>1
    <2>3. q + (matched + 1) = q + matched + 1
        <3>1. \A a, b \in Nat : a + (b + 1) = a + b + 1
            OBVIOUS
        <3>2. QED BY <1>4, <3>1
    <2>4. QED BY <2>2, <2>3
<1>6. /\ RolledBack \in Model /\ Exact(RolledBack)
      /\ RolledBack.kda = snap.kda
    <2>1. /\ main \in Model /\ Exact(main)
          /\ main.kda = snap.kda \o batch
          /\ snap \in [pos : Nat, kda : Word, n : Nat]
          /\ snap.n = Len(snap.kda) /\ snap.pos = Len(snap.kda)
          /\ snap.kda \in Word /\ batch \in Word
        BY <1>1, <1>2, Basics DEF RunsAhead, InStep, Shapes
    <2>2. QED BY <2>1, RestoredExact DEF RolledBack
<1>7. QED BY <1>2, <1>3, <1>4, <1>5, <1>6

\* After the fixup the main model has taken the accepted tokens, each once.
LEMMA FixupKeeps ==
    ASSUME SInv, Fixup
    PROVE  SInv'
<1>1. TypeOK /\ Shapes /\ Phases /\ HeadPhases
    BY DEF SInv
<1>2. /\ pc = "fixup" /\ pc' = "replay" /\ q' = q + matched + 1
      /\ main' = IF matched + 1 < Len(batch) THEN Fed(RolledBack, Kept)
                 ELSE main
      /\ UNCHANGED <<prompt, depth, snap, head, clean, carried, drafts,
                     stale, held, batch, seen, matched, out, stream,
                     context, sent, finish, faults, broken>>
    BY DEF Fixup, request, mtp, draws, client, failure
<1>3. /\ RunsAhead /\ InStep
      /\ Text = Append(snap.kda \o Kept, held)
      /\ stream = Append(sent \o out, held)
      /\ Len(sent) < MaxTokens
      /\ Kept \in Word /\ Len(Kept) = matched + 1
      /\ Len(batch) \in Nat /\ matched + 1 \in 1 .. Len(batch)
      /\ Len(snap.kda \o Kept) = q + matched + 1
      /\ q \in Nat /\ matched \in Nat
      /\ RolledBack \in Model /\ Exact(RolledBack)
      /\ RolledBack.kda = snap.kda
    BY <1>2, FixupFacts
<1>4. main' \in Model /\ Exact(main') /\ main'.kda = snap.kda \o Kept
    <2>1. CASE matched + 1 < Len(batch)
        <3>1. main' = Fed(RolledBack, Kept)
            BY <1>2, <2>1
        <3>2. QED BY <1>3, <3>1, FedExact
    <2>2. CASE ~(matched + 1 < Len(batch))
        <3>1. matched + 1 = Len(batch)
            BY <1>3, <2>2
        <3>2. Kept = batch
            BY <1>1, <3>1, Basics, SubSeqFull DEF Kept, Word
        <3>3. QED BY <1>1, <1>2, <1>3, <2>2, <3>2, Basics DEF RunsAhead
    <2>3. QED BY <2>1, <2>2
<1>5. Kept' = Kept
    BY <1>2 DEF Kept
<1>6. Settled'
    <2>1. Text' = Text
        BY <1>2 DEF Text
    <2>2. QED BY <1>2, <1>3, <1>4, <2>1 DEF Settled
<1>7. InStep'
    BY <1>2, <1>3, <1>5 DEF InStep
<1>8. main'.n <= Len(main'.rows)
    BY <1>4 DEF Exact
<1>9. q' \in Nat /\ snap'.pos <= q'
    <2>1. snap.pos \in Nat /\ snap.pos <= q
        BY <1>1 DEF Shapes
    <2>2. QED BY <1>2, <1>3, <2>1
<1>10. TypeOK'
    <2>1. main'.pos \in Nat /\ main'.n \in 0 .. Len(main'.rows)
          /\ main'.kda \in Seq(Tokens) /\ main'.rows \in Seq(Tokens)
        BY <1>4, <1>8, ModelTyped
    <2>2. QED BY <1>1, <1>2, <1>9, <2>1 DEF TypeOK
<1>11. Shapes'
    BY <1>1, <1>2, <1>4, <1>8, <1>9 DEF Shapes
<1>12. Phases'
    BY <1>2, <1>3, <1>4, <1>5, <1>6, <1>7 DEF Phases
<1>13. HeadPhases' /\ WholeText'
    BY <1>1, <1>2 DEF HeadPhases, HeadOn, WholeText
<1>14. QED BY <1>10, <1>11, <1>12, <1>13 DEF SInv

\* The forward of a fixup fails: the request ends there.
LEMMA FixupFailsKeeps ==
    ASSUME SInv, FixupFails
    PROVE  SInv'
<1>1. TypeOK /\ Shapes
    BY DEF SInv
<1>2. /\ RolledBack \in Model /\ Exact(RolledBack) /\ Kept \in Word
    BY FixupFacts DEF FixupFails
<1>3. main' \in Model /\ main'.n <= Len(main'.rows)
    <2>1. RolledBack.n <= Len(RolledBack.rows)
        BY <1>2 DEF Exact
    <2>2. main' \in Cut(RolledBack, Kept)
        BY DEF FixupFails
    <2>3. QED BY <1>2, <2>1, <2>2, CutShape
<1>4. faults' \in 0 .. MaxFaults
    BY <1>1, FaultyCounts DEF FixupFails, TypeOK
<1>5. /\ pc' = "done" /\ broken' = TRUE /\ finish' = "length"
      /\ UNCHANGED <<prompt, depth, snap, head, clean, carried, drafts,
                     stale, held, q, batch, seen, matched, out, stream,
                     context, sent>>
    BY DEF FixupFails, request, mtp, step, draws
<1>6. TypeOK'
    <2>1. main'.pos \in Nat /\ main'.n \in 0 .. Len(main'.rows)
          /\ main'.kda \in Seq(Tokens) /\ main'.rows \in Seq(Tokens)
        BY <1>3, ModelTyped
    <2>2. QED BY <1>1, <1>4, <1>5, <2>1 DEF TypeOK
<1>7. Shapes'
    BY <1>1, <1>3, <1>5 DEF Shapes
<1>8. Phases' /\ HeadPhases' /\ WholeText'
    BY <1>5 DEF Phases, HeadPhases, WholeText
<1>9. QED BY <1>6, <1>7, <1>8 DEF SInv

\* The token that a stop or the client's limit takes from what is to be sent.
LEMMA SendFacts ==
    ASSUME SInv, pc = "send"
    PROVE  /\ Settled /\ stream = Append(sent \o out, held)
           /\ Sent \in Word /\ Tail(out) \in Word /\ Head(out) \in Tokens
           /\ Len(Sent) = Len(sent) + 1 /\ Len(sent) \in Nat
           /\ Len(sent) < MaxTokens /\ MaxTokens \in Nat
           /\ Sent \o Tail(out) = sent \o out
           /\ stream[Len(sent) + 1] = Head(out)
           /\ Len(out) = 1 => Tail(out) = <<>>
           /\ Len(out) # 1 => Tail(out) # <<>>
<1>1. TypeOK /\ Shapes /\ Phases
    BY DEF SInv
<1>2. /\ Settled /\ out # <<>> /\ stream = Append(sent \o out, held)
      /\ Len(sent) < MaxTokens
    BY <1>1 DEF Phases
<1>3. sent \in Seq(Tokens) /\ out \in Seq(Tokens) /\ held \in Tokens
      /\ MaxTokens \in Nat
    BY <1>1, Basics DEF Word
<1>4. /\ Sent \in Seq(Tokens) /\ Tail(out) \in Seq(Tokens)
      /\ Head(out) \in Tokens /\ Sent \o Tail(out) = sent \o out
      /\ (sent \o out)[Len(sent) + 1] = Head(out)
      /\ Len(sent) < Len(sent \o out)
      /\ Len(out) = 1 => Tail(out) = <<>>
    BY <1>2, <1>3, MoveHead DEF Sent
<1>5. Len(Sent) = Len(sent) + 1 /\ Len(sent) \in Nat
    BY <1>3, <1>4, AppendProperties, LenProperties DEF Sent
<1>6. stream[Len(sent) + 1] = Head(out)
    <2> DEFINE t == sent \o out
    <2>1. t \in Seq(Tokens) /\ Len(t) \in Nat
        BY <1>3, ConcatProperties, LenProperties
    <2>2. t[Len(sent) + 1] = Head(out) /\ Len(sent) < Len(t)
        BY <1>4
    <2>3. stream = Append(t, held)
        BY <1>2
    <2> HIDE DEF t
    <2>4. \A i \in 1 .. Len(t) : Append(t, held)[i] = t[i]
        BY <1>3, <2>1, AppendProperties
    <2>5. Len(sent) + 1 \in 1 .. Len(t)
        BY <1>5, <2>1, <2>2
    <2>6. QED BY <2>2, <2>3, <2>4, <2>5
<1>7. Len(out) # 1 => Tail(out) # <<>>
    <2>1. Len(Tail(out)) = Len(out) - 1 /\ Len(out) \in Nat
        BY <1>2, <1>3, HeadTailProperties, LenProperties
    <2>2. Tail(out) = <<>> => Len(Tail(out)) = 0
        BY <1>4, EmptySeq
    <2>3. QED BY <2>1, <2>2
<1>8. QED BY <1>2, <1>3, <1>4, <1>5, <1>6, <1>7 DEF Word

\* A token goes to the client, or the text ends with it.
LEMMA SendKeeps ==
    ASSUME SInv, Send
    PROVE  SInv'
<1>1. TypeOK /\ Shapes /\ Phases /\ HeadPhases
    BY DEF SInv
<1>2. /\ pc = "send"
      /\ UNCHANGED <<prompt, depth, main, snap, head, clean, carried, drafts,
                     stale, held, q, batch, seen, matched, stream, context,
                     faults, broken>>
    BY DEF Send, request, states, mtp, step, draws, failure
<1>3. /\ Settled /\ stream = Append(sent \o out, held)
      /\ Sent \in Word /\ Tail(out) \in Word /\ Head(out) \in Tokens
      /\ Len(Sent) = Len(sent) + 1 /\ Len(sent) \in Nat
      /\ Len(sent) < MaxTokens /\ MaxTokens \in Nat
      /\ Sent \o Tail(out) = sent \o out
      /\ stream[Len(sent) + 1] = Head(out)
      /\ Len(out) = 1 => Tail(out) = <<>>
      /\ Len(out) # 1 => Tail(out) # <<>>
    BY <1>2, SendFacts
<1>4. Settled'
    BY <1>2, <1>3 DEF Settled, Exact, Text
<1>5. /\ sent' \in Word /\ out' \in Word
      /\ finish' \in {"none", "stop", "stop_string", "length", "error"}
      /\ pc' \in {"step", "send", "done"}
    BY <1>1, <1>2, <1>3, Basics DEF Send, TypeOK
<1>6. TypeOK'
    BY <1>1, <1>2, <1>5 DEF TypeOK, Word
<1>7. Shapes'
    BY <1>1, <1>2, <1>5 DEF Shapes
<1>8. Phases'
    <2>1. CASE pc' = "done"
        BY <2>1 DEF Phases
    <2>2. CASE pc' # "done"
        <3>1. /\ sent' = Sent /\ out' = Tail(out) /\ Len(Sent) # MaxTokens
              /\ pc' = IF Len(out) = 1 THEN "step" ELSE "send"
            BY <2>2 DEF Send
        <3>2. Len(sent') < MaxTokens
            BY <1>3, <3>1
        <3>3. stream' = Append(sent' \o out', held')
            BY <1>2, <1>3, <3>1
        <3>4. (pc' = "step" => out' = <<>>) /\ (pc' = "send" => out' # <<>>)
            BY <1>3, <3>1
        <3>5. pc' \in {"step", "send"}
            BY <3>1
        <3>6. QED BY <1>4, <3>2, <3>3, <3>4, <3>5 DEF Phases
    <2>3. QED BY <2>1, <2>2
<1>9. HeadPhases'
    BY <1>1, <1>2, <1>5 DEF HeadPhases, HeadOn
<1>10. WholeText'
    <2>1. CASE Head(out) = Eos
        BY <1>2, <1>3, <2>1 DEF Send, WholeText
    <2>2. CASE Head(out) # Eos
        BY <2>2 DEF Send, WholeText
    <2>3. QED BY <2>1, <2>2
<1>11. QED BY <1>6, <1>7, <1>8, <1>9, <1>10 DEF SInv

\* A stop string of the client ends the text.
LEMMA StopStringKeeps ==
    ASSUME SInv, StopString
    PROVE  SInv'
<1>1. TypeOK /\ Shapes
    BY DEF SInv
<1>2. /\ pc = "send" /\ pc' = "done" /\ finish' = "stop_string"
      /\ sent' \in {sent, Sent}
      /\ UNCHANGED <<prompt, depth, main, snap, head, clean, carried, drafts,
                     stale, held, q, batch, seen, matched, out, stream,
                     context, faults, broken>>
    BY DEF StopString, request, states, mtp, step, draws, failure
<1>3. sent' \in Word
    BY <1>1, <1>2, Basics, SendFacts
<1>4. TypeOK'
    BY <1>1, <1>2, <1>3 DEF TypeOK, Word
<1>5. Shapes'
    BY <1>1, <1>2 DEF Shapes
<1>6. Phases' /\ HeadPhases' /\ WholeText'
    BY <1>2 DEF Phases, HeadPhases, WholeText
<1>7. QED BY <1>4, <1>5, <1>6 DEF SInv

\* The pairs of a step: an accepted token with the main model's hidden
\* before it, which stands for the text before it.
LEMMA NewPairsFacts ==
    ASSUME TypeOK, Shapes, InStep
    PROVE  /\ NewPairs \in Seq(Pairs) /\ Len(NewPairs) = matched + 1
           /\ carried = snap.kda =>
                \A j \in 1 .. matched + 1 : NewPairs[j] =
                    [h |-> SubSeq(snap.kda \o Kept, 1,
                                  Len(snap.kda) + (j - 1)),
                     tok |-> Kept[j]]
<1>1. PICK m \in Nat \ {0} : m = matched + 1
    BY DEF Shapes
<1>2. PICK w \in Seq(Tokens), c \in Seq(Tokens), b \in Seq(Tokens) :
        w = snap.kda /\ c = carried /\ b = batch
    BY Basics DEF Word
<1>3. PICK k \in Seq(Tokens) :
        /\ k = Kept /\ Len(k) = m /\ \A j \in 1 .. m : k[j] = b[j]
        /\ m \in 1 .. Len(b) /\ DOMAIN b = 1 .. Len(b) /\ Len(b) \in Nat
    BY <1>1, <1>2, KeptFacts DEF Word
<1>4. ASSUME NEW j \in 1 .. m
      PROVE  /\ seen[j] = w \o SubSeq(k, 1, j)
             /\ seen[j] \in Seq(Tokens)
    <2>1. j \in 0 .. Len(b) /\ j \in DOMAIN b /\ j \in 0 .. Len(k)
        BY <1>3
    <2>2. seen[j] = w \o SubSeq(b, 1, j)
        BY <1>2, <2>1 DEF InStep
    <2>3. /\ SubSeq(b, 1, j) \in Seq(Tokens) /\ Len(SubSeq(b, 1, j)) = j
          /\ \A i \in 1 .. j : SubSeq(b, 1, j)[i] = b[i]
        BY <2>1, Prefix
    <2>4. /\ SubSeq(k, 1, j) \in Seq(Tokens) /\ Len(SubSeq(k, 1, j)) = j
          /\ \A i \in 1 .. j : SubSeq(k, 1, j)[i] = k[i]
        BY <2>1, Prefix
    <2>5. \A i \in 1 .. j : i \in 1 .. m
        OBVIOUS
    <2>6. SubSeq(b, 1, j) = SubSeq(k, 1, j)
        BY <1>3, <2>3, <2>4, <2>5, SeqEqual
    <2>7. w \o SubSeq(k, 1, j) \in Seq(Tokens)
        BY <2>4, ConcatProperties
    <2>8. QED BY <2>2, <2>6, <2>7
<1>5. NewPairs = [j \in 1 .. m |->
                    [h |-> IF j = 1 THEN c ELSE seen[j - 1], tok |-> b[j]]]
    BY <1>1, <1>2 DEF NewPairs
<1>6. ASSUME NEW j \in 1 .. m
      PROVE  [h |-> IF j = 1 THEN c ELSE seen[j - 1], tok |-> b[j]] \in Pairs
    <2>1. b[j] \in Tokens
        BY <1>3, ElementOfSeq
    <2>2. (IF j = 1 THEN c ELSE seen[j - 1]) \in Seq(Tokens)
        <3>1. CASE j = 1
            BY <3>1
        <3>2. CASE j # 1
            <4>1. j - 1 \in 1 .. m
                BY <3>2
            <4>2. seen[j - 1] \in Seq(Tokens)
                BY <1>4, <4>1
            <4>3. QED BY <3>2, <4>2
        <3>3. QED BY <3>1, <3>2
    <2>3. QED BY <2>1, <2>2 DEF Pairs
<1>7. NewPairs \in Seq(Pairs) /\ Len(NewPairs) = m
    <2>1. NewPairs \in [1 .. m -> Pairs]
        BY <1>5, <1>6
    <2>2. QED BY <2>1
<1>8. ASSUME c = w, NEW j \in 1 .. m
      PROVE  NewPairs[j] = [h |-> SubSeq(w \o k, 1, Len(w) + (j - 1)),
                            tok |-> k[j]]
    <2>1. SubSeq(w \o k, 1, Len(w) + (j - 1)) = w \o SubSeq(k, 1, j - 1)
        <3>1. j - 1 \in 0 .. Len(k)
            BY <1>3
        <3>2. QED BY <3>1, PrefixBeyond
    <2>2. (IF j = 1 THEN c ELSE seen[j - 1]) = w \o SubSeq(k, 1, j - 1)
        <3>1. CASE j = 1
            <4>1. SubSeq(k, 1, 0) = <<>>
                BY SubSeqEmpty
            <4>2. w \o <<>> = w
                BY ConcatEmptySeq
            <4>3. j - 1 = 0
                BY <3>1
            <4>4. QED BY <1>8, <3>1, <4>1, <4>2, <4>3
        <3>2. CASE j # 1
            <4>1. j - 1 \in 1 .. m
                BY <3>2
            <4>2. QED BY <1>4, <3>2, <4>1
        <3>3. QED BY <3>1, <3>2
    <2>3. NewPairs[j] = [h |-> IF j = 1 THEN c ELSE seen[j - 1],
                         tok |-> b[j]]
        BY <1>5
    <2>4. b[j] = k[j]
        BY <1>3
    <2>5. QED BY <2>1, <2>2, <2>3, <2>4
<1>9. QED BY <1>1, <1>2, <1>3, <1>7, <1>8

\* The pairs of the step are learnt behind those of the text before it, or
\* the head is given up as stale.
LEMMA ReplayKeeps ==
    ASSUME SInv, Replay
    PROVE  SInv'
<1>1. TypeOK /\ Shapes /\ Phases /\ HeadPhases
    BY DEF SInv
<1>2. /\ pc = "replay" /\ pc' = "send"
      /\ UNCHANGED <<prompt, depth, main, snap, held, q, batch, seen,
                     matched, out, stream, context, sent, finish, broken>>
    BY DEF Replay, request, states, step, draws, client
<1>3. /\ InStep /\ main.kda = snap.kda \o Kept /\ Settled
      /\ stream = Append(sent \o out, held) /\ Len(sent) < MaxTokens
      /\ ~stale => HeadOn(snap.kda)
    BY <1>1, <1>2 DEF Phases, HeadPhases
<1>4. PICK m \in Nat \ {0} : m = matched + 1
    BY <1>1 DEF Shapes
<1>5. PICK w \in Seq(Tokens), k \in Seq(Tokens) :
        /\ w = snap.kda /\ k = Kept /\ Len(k) = m
        /\ seen[m] = w \o k /\ w \o k \in Seq(Tokens)
        /\ Len(w) \in Nat
    <2>1. snap.kda \in Seq(Tokens)
        BY <1>1, Basics DEF Word
    <2>2. /\ Kept \in Seq(Tokens) /\ Len(Kept) = m
          /\ seen[m] = snap.kda \o Kept /\ snap.kda \o Kept \in Seq(Tokens)
        BY <1>1, <1>3, <1>4, KeptFacts DEF Word
    <2>3. QED BY <2>1, <2>2, LenProperties
<1>6. /\ NewPairs \in Seq(Pairs) /\ Len(NewPairs) = m
      /\ carried = w =>
            \A j \in 1 .. m : NewPairs[j] =
                [h |-> SubSeq(w \o k, 1, Len(w) + (j - 1)), tok |-> k[j]]
    BY <1>1, <1>3, <1>4, <1>5, NewPairsFacts
<1>7. /\ HeadKept /\ carried' \in Seq(Tokens)
      /\ ~stale' => HeadOn(w \o k)'
    <2>1. CASE Learn(NewPairs) /\ carried' = seen[matched + 1]
        <3>1. /\ HeadKept /\ stale' = stale
              /\ clean'.n = clean.n + m
              /\ \A i \in 1 .. clean.n : head'.rows[i] = head.rows[i]
              /\ \A j \in 1 .. m : head'.rows[clean.n + j] = NewPairs[j]
            BY <1>1, <1>6, <2>1, LearnFacts
        <3>2. carried' = w \o k
            BY <1>4, <1>5, <2>1
        <3>3. ASSUME ~stale
              PROVE  HeadOn(w \o k)'
            <4>1. /\ clean.n = Len(w) - 1 /\ carried = w
                  /\ \A p \in 1 .. clean.n :
                        head.rows[p] = [h |-> SubSeq(w, 1, p),
                                        tok |-> w[p + 1]]
                BY <1>3, <1>5, <3>3 DEF HeadOn
            <4>2. clean.n \in Nat /\ Len(w) \in Nat
                BY <1>1, <1>5 DEF Shapes
            <4>3. /\ Len(w \o k) = Len(w) + m
                  /\ \A i \in 1 .. Len(w) + m : (w \o k)[i] =
                        IF i <= Len(w) THEN w[i] ELSE k[i - Len(w)]
                <5>1. /\ Len(w \o k) = Len(w) + Len(k)
                      /\ \A i \in 1 .. Len(w) + Len(k) : (w \o k)[i] =
                            IF i <= Len(w) THEN w[i] ELSE k[i - Len(w)]
                    BY ConcatProperties
                <5>2. Len(k) = m
                    BY <1>5
                <5>3. QED BY <5>1, <5>2
            <4>4. clean'.n = Len(w \o k) - 1
                BY <3>1, <4>1, <4>2, <4>3
            <4>5. ASSUME NEW p \in 1 .. clean'.n
                  PROVE  head'.rows[p] = [h |-> SubSeq(w \o k, 1, p),
                                          tok |-> (w \o k)[p + 1]]
                <5>1. CASE p <= clean.n
                    <6>1. p \in 1 .. clean.n /\ p \in 0 .. Len(w)
                          /\ p + 1 \in 1 .. Len(w) + m /\ p + 1 <= Len(w)
                        BY <4>1, <4>2, <5>1
                    <6>2. SubSeq(w \o k, 1, p) = SubSeq(w, 1, p)
                        BY <6>1, PrefixOfConcat
                    <6>3. (w \o k)[p + 1] = w[p + 1]
                        BY <4>3, <6>1
                    <6>4. QED BY <3>1, <4>1, <6>1, <6>2, <6>3
                <5>2. CASE ~(p <= clean.n)
                    <6>1. PICK j \in 1 .. m : p = clean.n + j
                        <7>1. p - clean.n \in 1 .. m
                              /\ p = clean.n + (p - clean.n)
                            BY <3>1, <4>2, <5>2
                        <7>2. QED BY <7>1
                    <6>2. /\ p = Len(w) + (j - 1)
                          /\ p + 1 \in 1 .. Len(w) + m
                          /\ ~(p + 1 <= Len(w)) /\ (p + 1) - Len(w) = j
                        BY <4>1, <4>2, <6>1
                    <6>3. (w \o k)[p + 1] = k[j]
                        BY <4>3, <6>2
                    <6>4. head'.rows[p] = NewPairs[j]
                        BY <3>1, <6>1
                    <6>5. NewPairs[j] =
                            [h |-> SubSeq(w \o k, 1, Len(w) + (j - 1)),
                             tok |-> k[j]]
                        BY <1>6, <4>1
                    <6>6. QED BY <6>2, <6>3, <6>4, <6>5
                <5>3. QED BY <5>1, <5>2
            <4>6. QED BY <3>2, <4>4, <4>5 DEF HeadOn
        <3>4. QED BY <1>5, <3>1, <3>2, <3>3
    <2>2. CASE LearnNot(NewPairs) /\ carried' = carried
        <3>1. HeadKept /\ stale'
            BY <1>1, <1>6, <2>2, LearnNotFacts
        <3>2. carried' \in Seq(Tokens)
            BY <1>1, <2>2, Basics DEF Word
        <3>3. QED BY <3>1, <3>2
    <2>3. QED BY <2>1, <2>2 DEF Replay
<1>8. TypeOK'
    BY <1>1, <1>2, <1>7 DEF TypeOK, HeadKept, HeadRec
<1>9. Shapes'
    BY <1>1, <1>2, <1>7 DEF Shapes, HeadKept, Word
<1>10. Settled'
    BY <1>2, <1>3 DEF Settled, Exact, Text
<1>11. Phases'
    <2>1. out # <<>>
        <3>1. out = k /\ Len(k) = m
            BY <1>3, <1>5 DEF InStep
        <3>2. QED BY <1>5, <3>1, EmptySeq
    <2>2. QED BY <1>2, <1>3, <1>10, <2>1 DEF Phases
<1>12. HeadPhases'
    <2>1. main'.kda = w \o k
        BY <1>2, <1>3, <1>5
    <2>2. QED BY <1>2, <1>7, <2>1 DEF HeadPhases, HeadOn
<1>13. WholeText'
    BY <1>2 DEF WholeText
<1>14. QED BY <1>8, <1>9, <1>11, <1>12, <1>13 DEF SInv

LEMMA StutterKeeps ==
    ASSUME SInv, UNCHANGED vars
    PROVE  SInv'
<1>1. UNCHANGED <<prompt, depth, pc, main, snap, head, clean, carried,
                  drafts, stale, held, q, batch, seen, matched, out, stream,
                  context, sent, finish, faults, broken>>
    BY DEF vars, request, states, mtp, step, draws, client, failure
<1>2. TypeOK'
    BY <1>1 DEF SInv, TypeOK
<1>3. Shapes'
    BY <1>1 DEF SInv, Shapes
<1>4. Phases'
    BY <1>1 DEF SInv, Phases, Settled, Exact, Text, InStep, Kept, RunsAhead
<1>5. HeadPhases' /\ WholeText'
    BY <1>1 DEF SInv, HeadPhases, HeadOn, WholeText
<1>6. QED BY <1>2, <1>3, <1>4, <1>5 DEF SInv

LEMMA InitSInv ==
    ASSUME Init
    PROVE  SInv
<1>1. Dead \in Tokens /\ MaxFaults \in Nat /\ MaxTokens \in Nat \ {0}
    BY SpeculationAssumption
<1>2. <<>> \in Word /\ Len(<<>>) = 0 /\ <<>> \in Seq(Pairs)
      /\ <<>> \in Seq(Word)
    BY EmptySeq DEF Word
<1>3. depth \in Nat /\ drafts \in [1 .. depth -> Tokens]
    BY <1>1, SpeculationAssumption DEF Init
<1>4. TypeOK
    BY <1>1, <1>2, <1>3 DEF Init, TypeOK, Word
<1>5. Shapes
    <2>1. main \in Model /\ main.n <= Len(main.rows)
        BY <1>2 DEF Init, Model, Word
    <2>2. head \in HeadRec /\ head.pos <= head.n /\ head.n <= Len(head.rows)
        BY <1>2 DEF Init, HeadRec
    <2>3. /\ clean \in [pos : Nat, n : Nat] /\ clean.n = clean.pos
          /\ clean.n <= Len(head.rows)
        BY <1>2 DEF Init
    <2>4. /\ snap \in [pos : Nat, kda : Word, n : Nat]
          /\ snap.n = snap.pos /\ snap.pos <= q
        BY <1>2 DEF Init
    <2>5. /\ carried \in Word /\ stale \in BOOLEAN /\ broken \in BOOLEAN
          /\ batch \in Word /\ out \in Word /\ matched \in Nat
          /\ seen \in Seq(Word)
        BY <1>2 DEF Init
    <2>6. QED BY <2>1, <2>2, <2>3, <2>4, <2>5 DEF Shapes
<1>6. Exact(main)
    <2>1. SubSeq(<<>>, 1, 0) = <<>>
        BY SubSeqEmpty
    <2>2. QED BY <1>2, <2>1 DEF Init, Exact
<1>7. Phases
    BY <1>1, <1>2, <1>6 DEF Init, Phases
<1>8. HeadPhases /\ WholeText
    BY DEF Init, HeadPhases, WholeText
<1>9. QED BY <1>4, <1>5, <1>7, <1>8 DEF SInv

LEMMA StepSInv ==
    ASSUME SInv, [Next]_vars
    PROVE  SInv'
<1>1. CASE Prefill
    BY <1>1, PrefillKeeps
<1>2. CASE PrefillFails
    <2>1. prompt \in Word
        BY Basics DEF SInv
    <2>2. QED BY <1>2, <2>1, BreakKeeps DEF PrefillFails
<1>3. CASE Warm
    BY <1>3, WarmKeeps
<1>4. CASE Verify
    BY <1>4, VerifyKeeps
<1>5. CASE StepFails
    BY <1>5, StepFailsKeeps
<1>6. CASE Walk
    BY <1>6, WalkKeeps
<1>7. CASE Fixup
    BY <1>7, FixupKeeps
<1>8. CASE FixupFails
    BY <1>8, FixupFailsKeeps
<1>9. CASE Replay
    BY <1>9, ReplayKeeps
<1>10. CASE Send
    BY <1>10, SendKeeps
<1>11. CASE StopString
    BY <1>11, StopStringKeeps
<1>12. CASE UNCHANGED vars
    BY <1>12, StutterKeeps
<1>13. QED BY <1>1, <1>2, <1>3, <1>4, <1>5, <1>6, <1>7, <1>8, <1>9, <1>10,
              <1>11, <1>12 DEF Next, Terminated

-----------------------------------------------------------------------------
(* The invariant and what it says.                                         *)

\* Every state of a request keeps the invariant.
THEOREM SpeculationInvariant == Spec => []SInv
<1>1. Init => SInv
    BY InitSInv
<1>2. SInv /\ [Next]_vars => SInv'
    BY StepSInv
<1>3. QED BY <1>1, <1>2, PTL DEF Spec

\* The variables have their types; among them, the snapshot is never newer
\* than the step it belongs to, and the draft head never counts a row that
\* was not written.
THEOREM SpeculationTyped == Spec => []TypeOK
<1>1. SInv => TypeOK
    BY DEF SInv
<1>2. QED BY <1>1, SpeculationInvariant, PTL

\* Between two steps, whatever was drafted and rejected, the main model has
\* taken all tokens of the text but the held one, each once: the copied
\* recurrent state and the counted rows agree on it.
THEOREM RollbacksAreExact == Spec => []RollbackExact
<1>1. SInv => RollbackExact
    <2>1. SUFFICES ASSUME SInv, pc = "step"
                   PROVE  /\ main.pos = q /\ q = Len(Text) - 1
                          /\ Row(main) = SubSeq(Text, 1, q)
                          /\ held = Last(Text)
        BY DEF RollbackExact
    <2>2. TypeOK /\ Shapes /\ Exact(main) /\ Text = Append(main.kda, held)
          /\ q = Len(main.kda) /\ q \in Nat
        BY <2>1 DEF SInv, Phases, Settled, TypeOK
    <2>3. PICK w \in Seq(Tokens) : w = main.kda
        BY <2>2, Basics DEF Word
    <2>4. /\ Len(Append(w, held)) = Len(w) + 1
          /\ Append(w, held)[Len(w) + 1] = held
          /\ Append(w, held) = w \o <<held>>
          /\ held \in Tokens
        BY <2>2, Basics, AppendProperties, AppendIsConcat
    <2>5. SubSeq(Append(w, held), 1, Len(w)) = w
        <3>1. <<held>> \in Seq(Tokens) /\ Len(w) \in 0 .. Len(w)
            BY <2>2, <2>3, <2>4
        <3>2. SubSeq(w \o <<held>>, 1, Len(w)) = SubSeq(w, 1, Len(w))
            BY <3>1, PrefixOfConcat
        <3>3. QED BY <2>4, <3>2, SubSeqFull
    <2>6. Row(main) = w
        BY <2>2, <2>3, ExactRow
    <2>7. main.pos = q /\ q = Len(Text) - 1
        BY <2>2, <2>3, <2>4 DEF Exact
    <2>8. held = Last(Text)
        BY <2>2, <2>3, <2>4 DEF Last
    <2>9. QED BY <2>2, <2>3, <2>5, <2>6, <2>7, <2>8
<1>2. QED BY <1>1, SpeculationInvariant, PTL

\* Unless one of its forwards failed, the draft head rests on true pairs
\* only: every token of the text with the main model's hidden before it,
\* none of a rejected draft.
THEOREM PairsAreTrue == Spec => []TruePairs
<1>1. SInv => TruePairs
    <2>1. SUFFICES ASSUME SInv, pc = "step", ~stale
                   PROVE  HeadIsTrue
        BY DEF TruePairs
    <2>2. /\ TypeOK /\ Shapes /\ Text = Append(main.kda, held)
          /\ q = Len(main.kda) /\ q \in Nat /\ HeadOn(main.kda)
        BY <2>1 DEF SInv, Phases, HeadPhases, Settled, TypeOK
    <2>3. PICK w \in Seq(Tokens) : w = main.kda
        BY <2>2, Basics DEF Word
    <2>4. <<held>> \in Seq(Tokens) /\ Append(w, held) = w \o <<held>>
        BY <2>2, Basics, AppendIsConcat
    <2>5. /\ clean.n = q - 1 /\ clean.pos = q - 1 /\ carried = w
          /\ clean.n <= Len(head.rows) /\ Len(w) = q
        BY <2>2, <2>3 DEF HeadOn, Shapes
    <2>6. ASSUME NEW p \in 0 .. q
          PROVE  SubSeq(Text, 1, p) = SubSeq(w, 1, p)
        BY <2>2, <2>3, <2>4, <2>5, <2>6, PrefixOfConcat
    <2>7. ASSUME NEW p \in 1 .. clean.n
          PROVE  head.rows[p] = [h |-> SubSeq(Text, 1, p),
                                 tok |-> Text[p + 1]]
        <3>1. p \in 0 .. q /\ p + 1 \in 1 .. Len(w)
            BY <2>2, <2>5
        <3>2. Text[p + 1] = w[p + 1]
            <4>1. \A i \in 1 .. Len(w) : Append(w, held)[i] = w[i]
                BY <2>2, Basics, AppendProperties
            <4>2. QED BY <2>2, <2>3, <3>1, <4>1
        <3>3. head.rows[p] = [h |-> SubSeq(w, 1, p), tok |-> w[p + 1]]
            BY <2>2, <2>3 DEF HeadOn
        <3>4. QED BY <2>6, <3>1, <3>2, <3>3
    <2>8. carried = SubSeq(Text, 1, q)
        <3>1. q \in 0 .. q
            BY <2>2
        <3>2. SubSeq(w, 1, Len(w)) = w
            BY SubSeqFull
        <3>3. QED BY <2>5, <2>6, <3>1, <3>2
    <2>9. QED BY <2>5, <2>7, <2>8 DEF HeadIsTrue
<1>2. QED BY <1>1, SpeculationInvariant, PTL

\* Unless the main model failed the client gets the whole text: no request
\* ends for want of room in the caches.
THEOREM TextIsWhole == Spec => []WholeText
<1>1. SInv => WholeText
    BY DEF SInv
<1>2. QED BY <1>1, SpeculationInvariant, PTL

-----------------------------------------------------------------------------
(* Speculation is decoding one token at a time.                            *)

\* A draw takes the row of all the text before it.
LEMMA DrawIsOneByOne ==
    ASSUME TypeOK, Shapes, NEW x \in Tokens, DrawFrom(Text, x),
           prompt' = prompt, sent' = sent
    PROVE  OneByOne!Next
<1>1. OneByOne!Draw(x)
    BY DEF DrawFrom, Text, OneByOne!Draw
<1>2. QED BY <1>1 DEF OneByOne!Next

\* The first draw: the row behind the whole prompt.
LEMMA PrefillIsOneByOne ==
    ASSUME SInv, Prefill
    PROVE  OneByOne!Next
<1>1. PICK x \in Tokens : DrawFrom(Last(seen'), x)
    BY DEF Prefill
<1>2. /\ TypeOK /\ Shapes /\ pc = "prefill" /\ pc' = "warm"
      /\ prompt' = prompt /\ sent' = sent /\ stream = <<>>
    BY DEF SInv, Phases, Prefill, request, client
<1>3. /\ seen' = [j \in DOMAIN prompt |-> SubSeq(prompt, 1, j)]
      /\ seen' \in Seq(Word)
    <2>1. SInv'
        BY PrefillKeeps
    <2>2. QED BY <1>2, <2>1 DEF SInv, Phases, Shapes
<1>4. PICK n \in Nat \ {0} : n = Len(prompt) /\ DOMAIN prompt = 1 .. n
                             /\ prompt \in Seq(Tokens)
    BY <1>2, Basics DEF Word
<1>5. Len(seen') = n
    <2>1. DOMAIN seen' = 1 .. Len(seen') /\ Len(seen') \in Nat
        BY <1>3, LenProperties
    <2>2. DOMAIN seen' = 1 .. n
        BY <1>3, <1>4
    <2>3. \A a, b \in Nat : 1 .. a = 1 .. b => a = b
        OBVIOUS
    <2>4. QED BY <2>1, <2>2, <2>3
<1>6. Last(seen') = prompt
    <2>1. Last(seen') = SubSeq(prompt, 1, n)
        BY <1>3, <1>4, <1>5 DEF Last
    <2>2. QED BY <1>4, <2>1, SubSeqFull
<1>7. Text = prompt
    BY <1>2, <1>4, ConcatEmptySeq DEF Text
<1>8. QED BY <1>1, <1>2, <1>6, <1>7, DrawIsOneByOne

\* A draw of the walk: a row of the batch stands for the text so far, since
\* the drafts before it were all accepted.
LEMMA WalkIsOneByOne ==
    ASSUME SInv, Walk
    PROVE  OneByOne!Next
<1>1. PICK x \in Tokens : DrawFrom(RowOf, x)
    BY DEF Walk
<1>2. /\ TypeOK /\ Shapes /\ InStep /\ Text = snap.kda \o Kept
      /\ prompt' = prompt /\ sent' = sent
    BY DEF SInv, Phases, Walk, request, client
<1>3. RowOf = Text
    BY <1>2, KeptFacts DEF RowOf
<1>4. QED BY <1>1, <1>2, <1>3, DrawIsOneByOne

\* What is sent is the next token of the text, and never the one that ends it.
LEMMA SendIsOneByOne ==
    ASSUME SInv, pc = "send", Head(out) # Eos, sent' = Sent,
           UNCHANGED <<prompt, stream, context>>
    PROVE  OneByOne!Next
<1>1. /\ stream[Len(sent) + 1] = Head(out) /\ Len(sent) < MaxTokens
      /\ stream = Append(sent \o out, held)
    BY SendFacts
<1>2. Len(sent) < Len(stream)
    <2>1. TypeOK /\ Shapes /\ out # <<>>
        BY DEF SInv, Phases
    <2>2. sent \in Seq(Tokens) /\ out \in Seq(Tokens) /\ held \in Tokens
        BY <2>1, Basics DEF Word
    <2> DEFINE t == sent \o out
    <2>3. t \in Seq(Tokens) /\ Len(sent) < Len(t) /\ Len(sent) \in Nat
          /\ Len(t) \in Nat
        BY <2>1, <2>2, MoveHead, ConcatProperties, LenProperties
    <2>4. stream = Append(t, held)
        BY <1>1
    <2> HIDE DEF t
    <2>5. Len(Append(t, held)) = Len(t) + 1
        BY <2>2, <2>3, AppendProperties
    <2>6. QED BY <2>3, <2>4, <2>5
<1>3. OneByOne!Send
    BY <1>1, <1>2 DEF Sent, OneByOne!Send
<1>4. QED BY <1>3 DEF OneByOne!Next

LEMMA StepIsOneByOne ==
    ASSUME SInv, [Next]_vars
    PROVE  [OneByOne!Next]_(OneByOne!vars)
<1> DEFINE Still == UNCHANGED <<prompt, stream, context, sent>>
<1>1. CASE Prefill
    BY <1>1, PrefillIsOneByOne
<1>2. CASE Walk
    BY <1>2, WalkIsOneByOne
<1>3. CASE Send
    <2>1. pc = "send" /\ UNCHANGED <<prompt, stream, context>>
        BY <1>3 DEF Send, request, draws
    <2>2. CASE Head(out) = Eos
        BY <1>3, <2>1, <2>2 DEF Send, OneByOne!vars
    <2>3. CASE Head(out) # Eos
        BY <1>3, <2>1, <2>3, SendIsOneByOne DEF Send
    <2>4. QED BY <2>2, <2>3
<1>4. CASE StopString
    <2>1. pc = "send" /\ Head(out) # Eos /\ sent' \in {sent, Sent}
          /\ UNCHANGED <<prompt, stream, context>>
        BY <1>4 DEF StopString, request, draws
    <2>2. CASE sent' = sent
        BY <2>1, <2>2 DEF OneByOne!vars
    <2>3. CASE sent' = Sent
        BY <2>1, <2>3, SendIsOneByOne
    <2>4. QED BY <2>1, <2>2, <2>3
<1>5. CASE PrefillFails \/ StepFails
    BY <1>5 DEF PrefillFails, StepFails, Break, request, draws, OneByOne!vars
<1>6. CASE Warm \/ Verify \/ Replay
    BY <1>6 DEF Warm, Verify, Replay, request, draws, client, OneByOne!vars
<1>7. CASE Fixup \/ FixupFails
    BY <1>7 DEF Fixup, FixupFails, request, draws, client, OneByOne!vars
<1>8. CASE UNCHANGED vars
    BY <1>8 DEF vars, request, draws, client, OneByOne!vars
<1>9. QED BY <1>1, <1>2, <1>3, <1>4, <1>5, <1>6, <1>7, <1>8
          DEF Next, Terminated

\* Whatever is drafted, accepted, rolled back and replayed, and whichever
\* forward fails: every token is drawn from the model's row of exactly the
\* text before it, with one random number each, and the client is sent these
\* tokens in order, as it is without a draft head.
THEOREM SpeculationIsOneByOne == Spec => SameAsOneByOne
<1>1. Init => OneByOne!Init
    BY SpeculationAssumption DEF Init, OneByOne!Init
<1>2. SInv /\ [Next]_vars => [OneByOne!Next]_(OneByOne!vars)
    BY StepIsOneByOne
<1>3. QED BY <1>1, <1>2, SpeculationInvariant, PTL
             DEF Spec, SameAsOneByOne, OneByOne!Spec
=============================================================================
