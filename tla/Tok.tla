-------------------------------- MODULE Tok --------------------------------
(***************************************************************************)
(* The byte-level BPE tokenizer (c/tok.h): added tokens are cut out of the *)
(* text, the rest is split into pieces and each piece is merged.  A        *)
(* character is a member of a small alphabet that the classes of the       *)
(* splitter tell apart; "E" stands for one of two bytes.  A token is the   *)
(* sequence of its bytes: two ids never have the same bytes, so the hash   *)
(* tables and the byte alphabet, which only rename, are left out.  Regex,  *)
(* Longest and OneByOne are what the code is compared with: the pattern of *)
(* tokenizer.json and the reference's way of merging.                      *)
(***************************************************************************)
EXTENDS Integers, Sequences, SequencesExt, FiniteSetsExt

CONSTANTS
    Chars       \* the characters in use, of those the classes below name

\* The classes: cls_L, cls_N, cls_WS, line ends, and fold_contr (which also
\* takes capitals and U+017F) by the letters contractions are made of.
Letters == {"a", "s", "l", "r", "e", "E", "o"}
Digits  == {"1"}
Breaks  == {"nl"}
Spaces  == {" ", "tab"} \cup Breaks
Others  == Chars \ (Letters \cup Digits \cup Spaces)

CharAt(t, i) == IF i <= Len(t) THEN t[i] ELSE "end"
Is(t, i, class) == CharAt(t, i) \in class

\* The first position from i on whose character is outside the class.
PastRun(t, i, class) == Min({j \in i..Len(t)+1 : ~Is(t, j, class)})

-----------------------------------------------------------------------------
(* The splitter: the end of the piece that begins at i                     *)

Contraction(t, i) ==
    IF CharAt(t, i) # "'" THEN 0
    ELSE IF CharAt(t, i+1) = "s" THEN 2
    ELSE IF <<CharAt(t, i+1), CharAt(t, i+2)>> \in {<<"r", "e">>, <<"l", "l">>} THEN 3
    ELSE 0

\* Regression: line ends count as blanks.
BlankEndOne(t, i) ==
    LET r == PastRun(t, i, Spaces) IN
    IF r # Len(t) + 1 /\ r - i >= 2 THEN r - 1 ELSE r

\* A run of blanks: up to its last line end, else all but its last blank when
\* something follows it and it has more than one.
BlankEnd(t, i) ==
    LET r  == PastRun(t, i, Spaces)
        nl == {k \in i..r-1 : Is(t, k, Breaks)}
    IN  IF nl # {} THEN Max(nl) + 1
        ELSE IF r # Len(t) + 1 /\ r - i >= 2 THEN r - 1 ELSE r

SplitMatch(t, i) ==
    LET c == CharAt(t, i)
        k == IF c = " " THEN i + 1 ELSE i
    IN  CASE Contraction(t, i) # 0 -> i + Contraction(t, i)
          [] Contraction(t, i) = 0 /\ c \in Letters -> PastRun(t, i, Letters)
          [] Contraction(t, i) = 0 /\ c \notin Letters \cup Breaks \cup Digits
                                   /\ Is(t, i+1, Letters) -> PastRun(t, i+1, Letters)
          [] c \in Digits -> Min({PastRun(t, i, Digits), i + 3})
          [] Contraction(t, i) = 0 /\ Is(t, k, Others) /\ ~Is(t, i+1, Letters)
                -> PastRun(t, PastRun(t, k, Others), Breaks)
          [] c \in Spaces /\ ~Is(t, k, Others)
                          /\ (c \notin Breaks => ~Is(t, i+1, Letters)) -> BlankEnd(t, i)

\* The pieces of a text, in order.
SplitPieces(t) ==
    LET from[n \in 0..Len(t)] ==    \* the pieces of the last n characters
          IF n = 0 THEN <<>>
          ELSE LET i == Len(t) - n + 1
                   e == SplitMatch(t, i)
               IN  <<SubSeq(t, i, e - 1)>> \o from[Len(t) + 1 - e]
    IN  from[Len(t)]

-----------------------------------------------------------------------------
(* Merging: the table is a sequence of pairs of tokens, the rank is the     *)
(* place of a pair in it; tok_load drops pairs whose tokens are unknown     *)

BytesOf(c) == IF c = "E" THEN <<"e1", "e2">> ELSE <<c>>

LoadMerges(merges, vocab) ==
    {r \in DOMAIN merges : {merges[r][1], merges[r][2], merges[r][1] \o merges[r][2]}
                             \subseteq vocab}

\* The ranks in use that two neighbours of the piece have.
Ranks(w, merges, loaded) ==
    {r \in loaded : \E i \in 1..Len(w)-1 : <<w[i], w[i+1]>> = merges[r]}

\* One sweep: every occurrence of the pair, from the left.
RECURSIVE Sweep(_, _)
Sweep(w, pair) ==
    IF Len(w) < 2 THEN w
    ELSE IF <<w[1], w[2]>> = pair
         THEN <<w[1] \o w[2]>> \o Sweep(SubSeq(w, 3, Len(w)), pair)
         ELSE <<w[1]>> \o Sweep(Tail(w), pair)

\* bpe_piece: the best pair everywhere, until no pair has a rank.
RECURSIVE Merged(_, _, _)
Merged(w, merges, loaded) ==
    LET rs == Ranks(w, merges, loaded) IN
    IF rs = {} THEN w ELSE Merged(Sweep(w, merges[Min(rs)]), merges, loaded)

BpePiece(piece, merges, vocab) ==
    LET bytes == FlattenSeq([i \in DOMAIN piece |-> BytesOf(piece[i])])
    IN  Merged([i \in DOMAIN bytes |-> <<bytes[i]>>], merges, LoadMerges(merges, vocab))

EncodeNormal(t, merges, vocab) ==
    LET ps == SplitPieces(t)
    IN  FlattenSeq([i \in DOMAIN ps |-> BpePiece(ps[i], merges, vocab)])

-----------------------------------------------------------------------------
(* Added tokens: sorted by first byte and falling length, the first hit of *)
(* the bucket of the text's first byte counts                              *)

\* Insertion sort, as tok_load does it.
InsertAdded(sorted, a) ==
    LET after == {j \in 1..Len(sorted) : a[1] = sorted[j][1] /\ Len(sorted[j]) >= Len(a)}
    IN  InsertAt(sorted, IF after = {} THEN 1 ELSE Max(after) + 1, a)

Sorted(added) == FoldLeft(InsertAdded, <<>>, added)

\* The bytes the match takes; 0 is no match.
AddedMatch(sorted, t, i) ==
    LET hits == {j \in DOMAIN sorted : IsPrefix(sorted[j], SubSeq(t, i, Len(t)))}
    IN  IF hits = {} THEN 0 ELSE Len(sorted[Min(hits)])

\* tok_encode: the spans between the added tokens, each encoded on its own.
TokEncode(t, special, added, merges, vocab) ==
    LET sorted == Sorted(added)
        from[i \in 1..Len(t)+1, span \in 1..Len(t)+1] ==
          LET m == IF special /\ i <= Len(t) THEN AddedMatch(sorted, t, i) ELSE 0 IN
          IF i > Len(t) THEN EncodeNormal(SubSeq(t, span, Len(t)), merges, vocab)
          ELSE IF m = 0 THEN from[i + 1, span]
          ELSE EncodeNormal(SubSeq(t, span, i - 1), merges, vocab)
               \o <<SubSeq(t, i, i + m - 1)>> \o from[i + m, i + m]
    IN  from[1, 1]

\* tok_decode: the bytes of the tokens, one after the other.
Decode(ids) == FlattenSeq(ids)

-----------------------------------------------------------------------------
(* What it is compared with                                                *)

\* The alternatives of the pattern in tokenizer.json: whether [i, e) matches.
All(t, i, e, class) == \A j \in i..e-1 : Is(t, j, class)
NotBlank == Letters \cup Digits \cup Others
Alternative(n, t, i, e) ==
    CASE n = 1 -> SubSeq(t, i, e - 1) \in {<<"'", "s">>, <<"'", "r", "e">>, <<"'", "l", "l">>}
      [] n = 2 -> \E b \in {i, i + 1} : /\ b < e /\ All(t, b, e, Letters)
                                        /\ All(t, i, b, Chars \ (Breaks \cup Letters \cup Digits))
      [] n = 3 -> All(t, i, e, Digits) /\ e - i <= 3
      [] n = 4 -> \E b \in {i, i + 1}, m \in i..e :
                     /\ b < m /\ All(t, i, b, {" "}) /\ All(t, b, m, Others)
                     /\ All(t, m, e, Breaks)
      [] n = 5 -> All(t, i, e, Spaces) /\ Is(t, e - 1, Breaks)
      [] n = 6 -> All(t, i, e, Spaces) /\ ~Is(t, e, NotBlank)
      [] n = 7 -> All(t, i, e, Spaces)

\* The longest match of the first alternative that has one.
Regex(t, i) ==
    LET ends(n) == {e \in i+1..Len(t)+1 : Alternative(n, t, i, e)}
    IN  Max(ends(Min({n \in 1..7 : ends(n) # {}})))

\* Every piece ends where the pattern of the tokenizer ends it: the order of its
\* alternatives and what each gives back (split_match).
SplitsAsThePattern(t) == \A i \in DOMAIN t : SplitMatch(t, i) = Regex(t, i)

\* The reference merges one pair at a time: the lowest rank, leftmost first.
RECURSIVE OneByOne(_, _, _)
OneByOne(w, merges, loaded) ==
    LET rs == Ranks(w, merges, loaded) IN
    IF rs = {} THEN w
    ELSE LET i == Min({j \in 1..Len(w)-1 : <<w[j], w[j+1]>> = merges[Min(rs)]})
         IN  OneByOne(SubSeq(w, 1, i-1) \o <<w[i] \o w[i+1]>> \o SubSeq(w, i+2, Len(w)),
                      merges, loaded)

\* A table as a training run leaves it: a token is made before it is used.
Trained(merges) ==
    \A i, j \in DOMAIN merges : merges[j][1] \o merges[j][2] \in {merges[i][1], merges[i][2]}
                                  => j < i

\* Merging every occurrence of the best pair at once gives the tokens the
\* reference gets by merging one pair at a time, for every trained table, the
\* pairs tok_load skips included (bpe_piece).
MergesAsTheReference(bytes, merges, vocab) ==
    LET w == [i \in DOMAIN bytes |-> <<bytes[i]>>]
        loaded == LoadMerges(merges, vocab)
    IN  Trained(merges) => Merged(w, merges, loaded) = OneByOne(w, merges, loaded)

\* Where added tokens lie in a text: the longest at the leftmost place counts,
\* whatever order tokenizer.json lists them in (added_match).
AddedAreLongest(t, added) ==
    \A i \in DOMAIN t :
      AddedMatch(Sorted(added), t, i) =
        Max({0} \cup {Len(added[j]) : j \in {k \in DOMAIN added :
                                        IsPrefix(added[k], SubSeq(t, i, Len(t)))}})

\* Decoding what a text is encoded to gives its bytes back (tok_encode, tok_decode).
DecodesToItself(t, special, added, merges, vocab) ==
    Decode(TokEncode(t, special, added, merges, vocab))
      = FlattenSeq([i \in DOMAIN t |-> BytesOf(t[i])])
=============================================================================
