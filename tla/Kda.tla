-------------------------------- MODULE Kda --------------------------------
(***************************************************************************)
(* The linear-attention core of one head (c/gkda.h).  A decode step runs   *)
(* the recurrence token by token; a prefill runs the chunked form, which   *)
(* solves one triangular system per chunk of C rows.  Both carry the same  *)
(* state from call to call: the matrix S and the window of the short       *)
(* convolution.  The model computes in the field of the integers modulo    *)
(* the prime P instead of in floats, so that the two forms can be compared *)
(* for equality: an element a of the field stands for exp(g), a quotient   *)
(* for exp of a difference.  Rounding, the silu of the convolution, the    *)
(* l2 norms of q and k and the scale of q act on each row before either    *)
(* form sees it and are left out.                                          *)
(***************************************************************************)
EXTENDS Integers, Sequences

CONSTANTS
    P,          \* a prime: the field
    D,          \* the width of a head
    K,          \* the width of the convolution (APUS_GKDA_CONV_K)
    C,          \* the rows of a chunk (APUS_GKDA_CHUNK)
    W,          \* the weights of the convolution, oldest input first
    Inputs,     \* the token rows to feed: [q, k, v, a, b]
    MaxTokens   \* bound: the tokens of one sequence

ASSUME KdaAssumption ==
    /\ P \in Nat \ {0, 1} /\ D \in Nat \ {0} /\ C \in Nat \ {0}
    /\ K \in Nat \ {0, 1} /\ W \in [1..K -> 0..P-1] /\ MaxTokens \in Nat

VARIABLES
    S,      \* the recurrent state: D rows (keys) of D columns (values)
    win,    \* the last K - 1 inputs of the convolution, oldest first
    fed,    \* history: the inputs so far
    outs    \* history: the rows that came out

kdaVars == <<S, win, fed, outs>>

Dim == 1..D

\* The sum of F(1) .. F(n), accumulated in ascending order from zero.
Acc(n, F(_)) ==
    LET sum[i \in 0..n] == IF i = 0 THEN 0 ELSE (sum[i-1] + F(i)) % P IN sum[n]

\* x / y in the field, for y # 0: x times y to the power P - 2.
Div(x, y) ==
    LET pow[n \in 0..P-2] == IF n = 0 THEN 1 ELSE (pow[n-1] * y) % P
    IN  (x * pow[P-2]) % P

Zero == [d \in Dim |-> 0]
One  == [d \in Dim |-> 1]
ZeroRow == [q |-> Zero, k |-> Zero, v |-> Zero]

-----------------------------------------------------------------------------
(* The short convolution: one token, and the loop over a batch             *)

\* One channel: the dot product of the weights with the window and the input.
ConvTok(w, x) ==
    [d \in Dim |-> Acc(K, LAMBDA i : W[i] * (IF i < K THEN w[i][d] ELSE x[d]))]

\* The row the core sees, and the window after it: the oldest input leaves.
ConvStep(w, x) ==
    [row |-> [x EXCEPT !.q = ConvTok([i \in 1..K-1 |-> w[i].q], x.q),
                       !.k = ConvTok([i \in 1..K-1 |-> w[i].k], x.k),
                       !.v = ConvTok([i \in 1..K-1 |-> w[i].v], x.v)],
     win |-> Append(Tail(w), [q |-> x.q, k |-> x.k, v |-> x.v])]

ConvPrefill(w, xs) ==
    LET after[t \in 0..Len(xs)] ==
          IF t = 0 THEN [rows |-> <<>>, win |-> w]
          ELSE LET c == ConvStep(after[t-1].win, xs[t])
               IN  [rows |-> Append(after[t-1].rows, c.row), win |-> c.win]
    IN  after[Len(xs)]

-----------------------------------------------------------------------------
(* The recurrence of a decode step                                         *)

\* One token: decay, read what the key remembers, correct it, query.
RecurrentHead(s, r) ==
    LET dec == [i \in Dim |-> [j \in Dim |-> (s[i][j] * r.a[i]) % P]]
        kvm == [j \in Dim |-> Acc(D, LAMBDA i : dec[i][j] * r.k[i])]
        dl  == [j \in Dim |-> ((r.v[j] - kvm[j]) * r.b) % P]
        new == [i \in Dim |-> [j \in Dim |-> (dec[i][j] + r.k[i] * dl[j]) % P]]
    IN  [S |-> new, o |-> [j \in Dim |-> Acc(D, LAMBDA i : new[i][j] * r.q[i])]]

Recurrent(s, rows) ==
    LET after[t \in 0..Len(rows)] ==
          IF t = 0 THEN [S |-> s, outs |-> <<>>]
          ELSE LET h == RecurrentHead(after[t-1].S, rows[t])
               IN  [S |-> h.S, outs |-> Append(after[t-1].outs, h.o)]
    IN  after[Len(rows)]

-----------------------------------------------------------------------------
(* The chunked form of a prefill                                           *)

\* Rows of zeros fill the last chunk; their decay is exp(0).
Padded(rows) ==
    LET pad == (C - (Len(rows) % C)) % C
    IN  rows \o [i \in 1..pad |-> [q |-> Zero, k |-> Zero, v |-> Zero, a |-> One, b |-> 0]]

\* The decay up to row i, cumulated inside the chunk.
Cumulated(ch) ==
    [d \in Dim |-> LET gc[i \in 1..C] ==
                         IF i = 1 THEN ch[1].a[d] ELSE (gc[i-1] * ch[i].a[d]) % P
                   IN  gc]

\* minus (k_beta . k) . decay, strictly below the diagonal.
Lower(ch, gc) ==
    [i \in 1..C |-> [j \in 1..C |->
        IF j >= i THEN 0
        ELSE (0 - Acc(D, LAMBDA d : ch[i].k[d] * ch[i].b * ch[j].k[d]
                                    * Div(gc[d][i], gc[d][j]))) % P]]

\* One row of the solve: row i, in place, with the solved rows above it.
SolveRow(attn, i) ==
    LET row[j \in 1..i-1] ==
          (attn[i][j] + Acc(i-1, LAMBDA m :
              (IF m < j THEN row[m] ELSE attn[i][m]) * attn[m][j])) % P
    IN  [attn EXCEPT ![i] = [j \in 1..C |-> IF j < i THEN row[j] ELSE @[j]]]

\* Rows in ascending order.
Solve(attn) ==
    LET after[i \in 1..C] == IF i = 1 THEN attn ELSE SolveRow(after[i-1], i)
    IN  after[C]

WithIdentity(attn) == [i \in 1..C |-> [attn[i] EXCEPT ![i] = (@ + 1) % P]]

\* Regression: before it; later rows read the diagonal.
UtEarly(attn) == Solve(WithIdentity(attn))

\* The identity is added after the whole solve.
UtTransform(attn) == WithIdentity(Solve(attn))

\* One chunk: the state it starts from, its rows, the state it leaves.
ChunkStep(s, ch) ==
    LET gc    == Cumulated(ch)
        attn  == UtTransform(Lower(ch, gc))
        value == [i \in 1..C |-> [d \in Dim |->
                    Acc(C, LAMBDA j : attn[i][j] * ch[j].v[d] * ch[j].b)]]
        kcd   == [i \in 1..C |-> [d \in Dim |->
                    Acc(C, LAMBDA j : attn[i][j] * ch[j].k[d] * ch[j].b * gc[d][j])]]
        inter == [i \in 1..C |-> [d \in Dim |->
                    Acc(D, LAMBDA e : ch[i].q[e] * gc[e][i] * s[e][d])]]
        intra == [i \in 1..C |-> [j \in 1..C |->
                    IF j > i THEN 0
                    ELSE Acc(D, LAMBDA e : ch[i].q[e] * ch[j].k[e]
                                           * Div(gc[e][i], gc[e][j]))]]
        vnew  == [i \in 1..C |-> [d \in Dim |->
                    (value[i][d] - Acc(D, LAMBDA e : kcd[i][e] * s[e][d])) % P]]
    IN  [outs |-> [i \in 1..C |-> [d \in Dim |->
                    (inter[i][d] + Acc(C, LAMBDA j : intra[i][j] * vnew[j][d])) % P]],
         S    |-> [e \in Dim |-> [d \in Dim |->
                    (s[e][d] * gc[e][C]
                     + Acc(C, LAMBDA j : ch[j].k[e] * Div(gc[e][C], gc[e][j])
                                         * vnew[j][d])) % P]]]

\* All chunks; what comes out of the padding is dropped.
Chunked(s, rows) ==
    LET all == Padded(rows)
        after[n \in 0..Len(all) \div C] ==
          IF n = 0 THEN [S |-> s, outs |-> <<>>]
          ELSE LET c == ChunkStep(after[n-1].S, SubSeq(all, (n-1) * C + 1, n * C))
               IN  [S |-> c.S, outs |-> after[n-1].outs \o c.outs]
        last == after[Len(all) \div C]
    IN  [last EXCEPT !.outs = SubSeq(@, 1, Len(rows))]

-----------------------------------------------------------------------------
(* A sequence: calls of either form, one after the other                   *)

KdaInit ==
    /\ S = [i \in Dim |-> Zero] /\ win = [i \in 1..K-1 |-> ZeroRow]
    /\ fed = <<>> /\ outs = <<>>

\* One call with a batch of rows; the core is Chunked or Recurrent.
Feed(xs, Core(_, _)) ==
    /\ Len(fed) + Len(xs) <= MaxTokens
    /\ LET c == ConvPrefill(win, xs)
           r == Core(S, c.rows)
       IN  /\ S' = r.S
           /\ win' = c.win
           /\ outs' = outs \o r.outs
    /\ fed' = fed \o xs

Batches == UNION {[1..n -> Inputs] : n \in 1..MaxTokens}

KdaPrefill == \E xs \in Batches : Feed(xs, Chunked)
KdaDecode  == \E xs \in Batches : Feed(xs, Recurrent)

KdaNext == KdaPrefill \/ KdaDecode

-----------------------------------------------------------------------------
(* What both forms compute                                                 *)

\* The input of a convolution tap, zero before the sequence begins.
Tap(n, i, f) == IF n + i - K < 1 THEN Zero ELSE fed[n + i - K][f]
Convolved(n, f) == [d \in Dim |-> Acc(K, LAMBDA i : W[i] * Tap(n, i, f)[d])]

\* The gated delta rule in closed form:
\* S_n = (I - b k k^T) diag(a) S_{n-1} + b k v^T.
DeltaRule ==
    LET st[n \in 0..Len(fed)] ==
          IF n = 0 THEN [i \in Dim |-> Zero]
          ELSE LET k == Convolved(n, "k") v == Convolved(n, "v") x == fed[n] IN
               [i \in Dim |-> [j \in Dim |->
                  (x.b * k[i] * v[j]
                   + Acc(D, LAMBDA m : ((IF m = i THEN 1 ELSE 0) - x.b * k[i] * k[m])
                                       * x.a[m] * st[n-1][m][j])) % P]]
    IN  st

\* However a sequence is cut into prefill and decode calls, whatever the fill of
\* the last chunk, every row and the state left behind are those of the gated
\* delta rule over the inputs from the first (apus_gkda_chunk against
\* apus_gkda_recurrent, and the window of apus_gkda_conv_step between calls).
ChunksAreTheRecurrence ==
    LET st == DeltaRule IN
    /\ S = st[Len(fed)]
    /\ Len(outs) = Len(fed)
    /\ \A n \in 1..Len(fed) :
         outs[n] = [j \in Dim |->
            Acc(D, LAMBDA i : st[n][i][j] * Convolved(n, "q")[i])]
=============================================================================
