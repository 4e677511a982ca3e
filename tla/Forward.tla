------------------------------ MODULE Forward ------------------------------
(***************************************************************************)
(* One forward of the model (c/gmodel.h, apus_gm_run) with the layers it   *)
(* is made of (c/gkda.h, c/gdsa.h, c/gmoe.h) and the pilot behind its      *)
(* hooks (c/gpilot.h): which rows a token attends to, which experts a      *)
(* chunk of tokens resolves and drops again, and what a call leaves in the *)
(* state that the next one builds on.                                      *)
(*                                                                         *)
(* The arithmetic is a parameter: one operator for each kernel, of exactly *)
(* what the kernel reads.  A hidden is a value, whatever its width.        *)
(***************************************************************************)
EXTENDS Integers, Sequences, SequencesExt, FiniteSets, FiniteSetsExt, Functions

CONSTANTS
    Tokens,         \* the vocabulary
    Cap,            \* the rows of a state (kv_cap)
    MaxBatch,       \* bound: tokens of one call
    MaxFaults,      \* bound: experts that cannot be loaded
    Attention,      \* the attention of each layer: "kda" or "dsa"
    Mlp,            \* the feed-forward of each layer: "dense" or "sparse"
    E, TopK,        \* routed experts of a layer, and how many a token takes
    Chunks,         \* tokens of a prefill whose experts are held at once
    KPool, Pools,   \* rows of a pool, and pools that are attended to
    PilotKs,        \* experts the pilot predicts (APUS_GPILOT_K), as asked for
    PilotRoom,      \* the most it can (APUS_GPILOT_MAX_K)
    Backlog,        \* hinted loads that can be under way (spec_cap + io_threads)
    MaxHints,       \* bound: hints of a layer that the cache takes
    Null, Stray     \* no view; an array entry nobody wrote

CONSTANTS
    Embed(_), In(_, _, _), Out(_, _, _, _),     \* streams into and out of a site
    KdaZero, KdaStep(_, _, _), KdaRead(_, _, _),
    PoolScore(_, _, _), Attend(_, _, _),
    Gate(_, _, _), Expert(_, _, _), Weighted(_, _, _, _), Add(_, _),
    Unembed(_)

Layers == DOMAIN Attention
L      == Len(Attention)
Ids    == 0 .. E - 1
Sparse(l) == Mlp[l] = "sparse"

ASSUME ForwardAssumption ==
    /\ Cap \in Nat /\ MaxBatch \in Nat \ {0} /\ MaxFaults \in Nat
    /\ Attention \in Seq({"kda", "dsa"}) \ {<<>>} /\ Mlp \in [Layers -> {"dense", "sparse"}]
    /\ E \in Nat \ {0} /\ TopK \in 1 .. E
    /\ Chunks \subseteq Nat /\ KPool \in Nat \ {0} /\ Pools \in Nat \ {0}
    /\ PilotKs \subseteq Int /\ PilotRoom \in Nat \ {0}
    /\ Backlog \in Nat /\ MaxHints \in Nat
    /\ Stray \notin Ids /\ Null \notin Layers

VARIABLES
    tiered, chunk, pilotK,  \* how the model was opened
    st,                     \* ApusGmodelState: position, recurrences, rows
    snap,                   \* the state before a batch that may be undone, or Null
    ids, decode,            \* the call
    pc, l, t0, ret,         \* where it is, and what it returned
    h, x, sub,              \* the streams, a site's inputs and its outputs
    logits,                 \* the rows the call returned
    marked, views, live,    \* the chunk's experts, their views, each layer's working set
    tset, hints,            \* the pilot's last prediction, its part of the working sets
    fed, faults             \* history: the tokens the state has taken

config == <<tiered, chunk, pilotK>>
call   == <<ids, decode>>
streams == <<h, x, sub>>
experts == <<marked, views, live>>
pilot  == <<tset, hints>>
history == <<fed, faults>>
vars == <<config, st, snap, call, pc, l, t0, ret, streams, logits, experts, pilot, history>>

----------------------------------------------------------------------------
\* Attention.

\* k passes of a strict argmax: descending, and of equals the lower index.
TopKStable(row, k) ==
    LET best(used) == CHOOSE i \in DOMAIN row \ used :
            \A j \in DOMAIN row \ used : row[i] > row[j] \/ (row[i] = row[j] /\ i <= j)
        pick[j \in 0 .. k] == IF j = 0 THEN <<>>
                              ELSE LET p == pick[j - 1] IN Append(p, best(Range(p)))
    IN  pick[k]

\* A pool's rows, and what its last row must not be behind.
PoolEnd(p)  == p * KPool + KPool - 1
PoolRows(p) == p * KPool .. PoolEnd(p)
Unseen      == -1

\* apus_gdsa_indexer: the rows (0-based) that the query at position qpos
\* attends to, when the cache holds n: the best pools of those it has
\* passed, and the pool it is in.
\* Regression: a pool counts as soon as its first row is visible.
SelectEarly(lr, xt, rows, n, qpos) ==
    LET full  == n \div KPool
        score == [p \in 0 .. full - 1 |->
                    IF p * KPool > qpos THEN Unseen
                    ELSE PoolScore(lr, xt, SubSeq(rows, p * KPool + 1, PoolEnd(p) + 1))]
        best  == TopKStable(score, Min({Pools, full}))
        inPool == (qpos + 1) % KPool
    IN  (qpos + 1 - inPool .. qpos)
            \cup UNION {PoolRows(best[j]) : j \in {i \in DOMAIN best : best[i] * KPool <= qpos}}
Select(lr, xt, rows, n, qpos) ==
    LET full  == n \div KPool
        score == [p \in 0 .. full - 1 |->
                    IF PoolEnd(p) > qpos THEN Unseen
                    ELSE PoolScore(lr, xt, SubSeq(rows, p * KPool + 1, PoolEnd(p) + 1))]
        best  == TopKStable(score, Min({Pools, full}))
        inPool == (qpos + 1) % KPool
    IN  (qpos + 1 - inPool .. qpos)
            \cup UNION {PoolRows(best[j]) : j \in {i \in DOMAIN best : PoolEnd(best[i]) <= qpos}}

\* apus_gdsa_attention: over the cache, and what is not selected is masked.
\* What counts is which rows are left, and where each of them is.
Attended(lr, xt, rows, n, sel) ==
    Attend(lr, xt, [i \in sel \cap 0 .. n - 1 |-> rows[i + 1]])

\* apus_gdsa_forward3: all rows are appended, then every token selects and
\* attends.  The rows of an earlier, longer state stay behind the n that count.
DsaForward(lr, s, xs) ==
    LET base == s.n[lr]
        n    == base + Len(xs)
        rows == SubSeq(s.rows[lr], 1, base) \o xs
                    \o SubSeq(s.rows[lr], n + 1, Len(s.rows[lr]))
        out  == [t \in DOMAIN xs |->
                    Attended(lr, xs[t], rows, n, Select(lr, xs[t], rows, n, base + t - 1))]
    IN  [s |-> [s EXCEPT !.rows[lr] = rows, !.n[lr] = n], out |-> out]

\* apus_gdsa_decode_batch2: one token after the other.
DsaDecodeBatch(lr, s, xs) ==
    FoldLeft(LAMBDA acc, xt : LET r == DsaForward(lr, acc.s, <<xt>>)
                              IN  [s |-> r.s, out |-> acc.out \o r.out],
             [s |-> s, out |-> <<>>], xs)

\* apus_gkda_forward: the convolution and the recurrence take the tokens in
\* order; chunked or not, each reads the state right after its own update.
KdaForward(lr, s, xs) ==
    FoldLeft(LAMBDA acc, xt : LET k == KdaStep(lr, acc.s.kda[lr], xt)
                              IN  [s   |-> [acc.s EXCEPT !.kda[lr] = k],
                                   out |-> Append(acc.out, KdaRead(lr, k, xt))],
             [s |-> s, out |-> <<>>], xs)

AttentionOf(lr, s, xs) ==
    IF Attention[lr] = "kda" THEN KdaForward(lr, s, xs)
    ELSE IF decode THEN DsaDecodeBatch(lr, s, xs) ELSE DsaForward(lr, s, xs)

----------------------------------------------------------------------------
\* The experts.

\* apus_gmoe_router: the experts of a token, best first.
Biased(lr, xt) == [e \in Ids |-> Gate(lr, xt, e)]
Route(lr, xt)  == TopKStable(Biased(lr, xt), TopK)

\* A view can be read while the cache holds its expert for the layer.
Usable(lr, e) == views[e] = lr /\ (tiered => e \in live[lr])

\* apus_gmoe_forward2 for one token: its experts in ascending order, then
\* the shared one.
MoeOf(lr, xt) ==
    LET sel == Range(Route(lr, xt))
        y[n \in 0 .. E] == IF n = 0 THEN 0
                           ELSE IF n - 1 \in sel THEN Add(y[n - 1], Weighted(lr, xt, sel, n - 1))
                           ELSE y[n - 1]
    IN  Add(y[E], Expert(lr, "shared", xt))

----------------------------------------------------------------------------
\* The pilot.

\* apus_gpilot_create clamps the depth.
PilotDepth == Min({pilotK, PilotRoom, E})

\* apus_gpilot_predict writes the n best experts of the next layer, at most
\* all of them, to the front of tset.
Predicted(target, ht) ==
    LET best == TopKStable(Biased(target, In(target, "ffn", ht)), Min({PilotDepth, E}))
    IN  [j \in 1 .. PilotRoom |-> IF j <= Len(best) THEN best[j] ELSE tset[j]]

\* apus_gpilot_on_post_attn: the first PilotDepth entries are hinted, for
\* one token at a time or for all tokens of a prefill together.
Hinting(lr, hs) ==
    UNION {LET set == Predicted(lr + 1, ht) IN {set[j] : j \in 1 .. PilotDepth} :
           ht \in Range(hs)}

\* apus_gcache_hint gives the next layer's working set an entry, unless the
\* expert is there already, or the admission rule drops the hint.
Pilot(lr, hs) ==
    IF tiered /\ lr < L /\ Sparse(lr + 1) /\ PilotDepth > 0
      THEN /\ tset' = Predicted(lr + 1, Last(hs))
           /\ \E new \in SUBSET (Hinting(lr, hs) \ live[lr + 1]) :
                 /\ Cardinality(new) <= MaxHints
                 /\ live' = [live EXCEPT ![lr + 1] = @ \cup new]
                 /\ hints' = hints \cup {<<lr + 1, e>> : e \in new}
      ELSE UNCHANGED <<pilot, live>>

----------------------------------------------------------------------------
\* A call.

NoViews  == [e \in Ids |-> Null]
NewState == [pos |-> 0, kda |-> [i \in Layers |-> KdaZero],
             rows |-> [i \in Layers |-> <<>>], n |-> [i \in Layers |-> 0]]

Init ==
    /\ tiered \in BOOLEAN /\ chunk \in Chunks /\ pilotK \in PilotKs
    /\ st = NewState /\ snap = Null /\ ids = <<>> /\ decode = FALSE
    /\ pc = "idle" /\ l = 1 /\ t0 = 0 /\ ret = 0
    /\ h = <<>> /\ x = <<>> /\ sub = <<>> /\ logits = <<>>
    /\ marked = {} /\ views = NoViews /\ live = [i \in Layers |-> {}]
    /\ tset = [j \in 1 .. PilotRoom |-> Stray] /\ hints = {}
    /\ fed = <<>> /\ faults = 0

\* A request is one prefill, then decode steps and batches.  A call that does
\* not fit is refused; gsnap keeps what a batch may have to undo.
Begin(toks, dec) ==
    /\ pc = "idle" /\ dec = (st.pos > 0)
    /\ UNCHANGED <<config, st, t0, logits, experts, pilot, history>>
    /\ IF st.pos + Len(toks) > Cap
         THEN ret' = -1 /\ UNCHANGED <<snap, call, pc, l, streams>>
         ELSE /\ ids' = toks /\ decode' = dec
              /\ snap' = IF dec /\ Len(toks) > 1 THEN st ELSE Null
              /\ h' = [t \in DOMAIN toks |-> Embed(toks[t])]
              /\ x' = <<>> /\ sub' = <<>>
              /\ pc' = "attention" /\ l' = 1 /\ ret' = 0

\* The attention site of a layer, and the hook behind it.
AttentionSite ==
    /\ pc = "attention"
    /\ LET xs == [t \in DOMAIN h |-> In(l, "attn", h[t])]
           r  == AttentionOf(l, st, xs)
       IN  /\ st' = r.s
           /\ h' = [t \in DOMAIN h |-> Out(l, "attn", h[t], r.out[t])]
    /\ x' = [t \in DOMAIN h |-> In(l, "ffn", h'[t])]
    /\ sub' = <<>> /\ t0' = 0 /\ pc' = "mlp"
    /\ Pilot(l, h')
    /\ UNCHANGED <<config, snap, call, l, ret, logits, marked, views, history>>

\* apus_gm_hc_post of the feed-forward site.
EndOfLayer(ys) ==
    /\ h' = [t \in DOMAIN h |-> Out(l, "ffn", h[t], ys[t])]
    /\ l' = IF l = L THEN l ELSE l + 1
    /\ pc' = IF l = L THEN "head" ELSE "attention"

\* A dense layer, or a sparse one whose experts are all in memory.
ResidentMlp ==
    /\ pc = "mlp" /\ ~(tiered /\ Sparse(l))
    /\ sub' = [t \in DOMAIN x |-> IF Sparse(l) THEN MoeOf(l, x[t]) ELSE Expert(l, "dense", x[t])]
    /\ views' = IF Sparse(l) THEN [e \in Ids |-> l] ELSE views
    /\ EndOfLayer(sub')
    /\ UNCHANGED <<config, st, snap, call, t0, ret, x, logits, marked, live, pilot, history>>

\* The tokens of the chunk that starts behind t0.
ChunkSize   == IF Len(ids) > 1 /\ chunk > 0 /\ chunk < Len(ids) THEN chunk ELSE Len(ids)
ChunkTokens == t0 + 1 .. Min({t0 + ChunkSize, Len(ids)})

\* The union of what the chunk's tokens route to.  Regression: the last
\* expert of every token is missed.
UnionShort(lr, xs) == UNION {{Route(lr, xt)[j] : j \in 1 .. TopK - 1} : xt \in xs}
ChunkUnion(lr, xs) == UNION {Range(Route(lr, xt)) : xt \in xs}

\* The pre-pass, and hint_demand of the union: the loads overlap.
RouteChunk ==
    /\ pc = "mlp" /\ tiered /\ Sparse(l)
    /\ marked' = ChunkUnion(l, {x[t] : t \in ChunkTokens})
    /\ views' = NoViews
    /\ live' = [live EXCEPT ![l] = @ \cup marked']
    /\ pc' = "resolve"
    /\ UNCHANGED <<config, st, snap, call, l, t0, ret, streams, logits, pilot, history>>

\* Ascending.  An expert that cannot be read loses its entry and ends the
\* call in the middle: the position stays, what the layers took stays taken,
\* and the working set keeps the rest of the union.
Resolve ==
    /\ pc = "resolve" /\ \E e \in marked : views[e] = Null
    /\ LET e == Min({i \in marked : views[i] = Null}) IN
        \/ /\ views' = [views EXCEPT ![e] = l]
           /\ UNCHANGED <<pc, ret, live, hints, faults>>
        \/ /\ faults < MaxFaults /\ faults' = faults + 1
           /\ live' = [live EXCEPT ![l] = @ \ {e}] /\ hints' = hints \ {<<l, e>>}
           /\ ret' = -1 /\ pc' = "failed"
           /\ UNCHANGED views
    /\ UNCHANGED <<config, st, snap, call, l, t0, streams, logits, marked, tset, fed>>

\* The entries of a layer's working set that the pilot's hints made.
Hinted(lr) == {e \in live[lr] : <<lr, e>> \in hints}

\* apus_gcache_layer_end: the layer's working set is promoted or dropped, but
\* for entries that are still being loaded: not those of the chunk, and of
\* the hinted ones no more than the I/O pool has under way.
\* Regression: only behind the last chunk.
LayerEndLate(late) == IF t0 + ChunkSize >= Len(ids) THEN [live EXCEPT ![l] = late] ELSE live
LayerEnd(late)     == [live EXCEPT ![l] = late]

ForwardChunk ==
    /\ pc = "resolve" /\ \A e \in marked : views[e] # Null
    /\ sub' = sub \o [i \in 1 .. Cardinality(ChunkTokens) |-> MoeOf(l, x[t0 + i])]
    /\ \E late \in SUBSET (live[l] \ marked) :
          /\ Cardinality(late \cap Hinted(l)) <= Backlog
          /\ live' = LayerEnd(late)
          /\ hints' = {p \in hints : p[1] = l => p[2] \in late}
    /\ IF t0 + ChunkSize < Len(ids)
         THEN t0' = t0 + ChunkSize /\ pc' = "mlp" /\ UNCHANGED <<h, l>>
         ELSE UNCHANGED t0 /\ EndOfLayer(sub')
    /\ UNCHANGED <<config, st, snap, call, ret, x, logits, marked, views, tset, history>>

NewPos == st.pos + Len(ids)

Finish ==
    /\ pc = "head"
    /\ logits' = [t \in DOMAIN h |-> Unembed(h[t])]
    /\ st' = [st EXCEPT !.pos = NewPos]
    /\ fed' = fed \o ids
    /\ pc' = "idle"
    /\ UNCHANGED <<config, snap, call, l, t0, ret, streams, experts, pilot, faults>>

\* gsnap's rollback: the recurrences are copied back, the rows uncounted.
Undone == [st EXCEPT !.pos = snap.pos, !.kda = snap.kda, !.n = snap.n]

Rollback ==
    /\ pc = "idle" /\ snap # Null
    /\ st' = Undone /\ snap' = Null
    /\ fed' = SubSeq(fed, 1, snap.pos)
    /\ logits' = <<>>
    /\ UNCHANGED <<config, call, pc, l, t0, ret, streams, experts, pilot, faults>>

\* The next request starts from a state of its own; the cache is the same.
NextRequest ==
    /\ pc = "failed"
    /\ st' = NewState /\ snap' = Null
    /\ ids' = <<>> /\ decode' = FALSE /\ logits' = <<>>
    /\ pc' = "idle" /\ ret' = 0
    /\ fed' = <<>>
    /\ UNCHANGED <<config, l, t0, streams, experts, pilot, faults>>

Next ==
    \/ \E s \in 1 .. MaxBatch, dec \in BOOLEAN : \E toks \in [1 .. s -> Tokens] :
            Begin(toks, dec)
    \/ AttentionSite \/ ResidentMlp \/ RouteChunk \/ Resolve \/ ForwardChunk
    \/ Finish \/ Rollback \/ NextRequest

Spec == Init /\ [][Next]_vars

----------------------------------------------------------------------------
\* The model as a function of the whole text, one token at a time and with
\* every expert at hand: what every way to run it has to compute.

\* The pools a query may use, and those with fewer than Pools better ones.
RefPools(lr, a, t) ==
    LET passed == {p \in 0 .. Len(a) : PoolEnd(p) < t}
        score(p) == PoolScore(lr, a[t], SubSeq(a, p * KPool + 1, PoolEnd(p) + 1))
        better(p) == {q \in passed : score(q) > score(p) \/ (score(q) = score(p) /\ q < p)}
    IN  {p \in passed : Cardinality(better(p)) < Pools}

RefAttention(lr, a, t) ==
    IF Attention[lr] = "kda"
      THEN KdaRead(lr, FoldLeft(LAMBDA k, xt : KdaStep(lr, k, xt), KdaZero, SubSeq(a, 1, t)), a[t])
      ELSE LET own == {i \in 0 .. t - 1 : i \div KPool = t \div KPool}
               sel == own \cup UNION {PoolRows(p) : p \in RefPools(lr, a, t)}
           IN  Attend(lr, a[t], [i \in sel |-> a[i + 1]])

RefExperts(lr, xt) ==
    LET better(e) == {d \in Ids : \/ Gate(lr, xt, d) > Gate(lr, xt, e)
                                  \/ Gate(lr, xt, d) = Gate(lr, xt, e) /\ d < e}
    IN  {e \in Ids : Cardinality(better(e)) < TopK}

RefMlp(lr, xt) ==
    IF Sparse(lr)
      THEN LET sel == RefExperts(lr, xt)
           IN  Add(FoldLeft(LAMBDA y, e : IF e \in sel THEN Add(y, Weighted(lr, xt, sel, e)) ELSE y,
                            0, [i \in 1 .. E |-> i - 1]),
                   Expert(lr, "shared", xt))
      ELSE Expert(lr, "dense", xt)

\* A function on 1 .. n, as a tuple: TLC then computes each of its values once.
Tuple(f) == SubSeq(f, 1, Len(f))

RefLayer(hs, lr) ==
    LET a  == Tuple([t \in DOMAIN hs |-> In(lr, "attn", hs[t])])
        h1 == Tuple([t \in DOMAIN hs |-> Out(lr, "attn", hs[t], RefAttention(lr, a, t))])
    IN  Tuple([t \in DOMAIN hs |-> Out(lr, "ffn", h1[t], RefMlp(lr, In(lr, "ffn", h1[t])))])

RefRows(toks) ==
    LET hs == FoldLeft(RefLayer, [t \in DOMAIN toks |-> Embed(toks[t])], [i \in 1 .. L |-> i])
    IN  [t \in DOMAIN toks |-> Unembed(hs[t])]

----------------------------------------------------------------------------
\* Properties.

\* The rows of a call are the model's rows for the tokens the state has
\* taken: however they were cut into calls and chunks, whatever was rolled
\* back, with the experts in memory or resolved as they are needed.
RowsAreTheModels ==
    pc = "idle" =>
        /\ st.pos = Len(fed)
        /\ LET k == Len(logits) IN
              logits = SubSeq(RefRows(fed), Len(fed) - k + 1, Len(fed))

\* When a chunk is computed every expert its tokens route to has a view of
\* this layer that the cache still holds ("never dereferenced" otherwise).
\* And what the pilot hints is an expert of a sparse layer, never an entry
\* that no prediction wrote.
ViewsResolved ==
    /\ pc = "resolve" /\ (\A e \in marked : views[e] # Null) =>
           \A t \in ChunkTokens : \A e \in RefExperts(l, x[t]) : Usable(l, e)
    /\ \A hint \in hints : Sparse(hint[1]) /\ hint[2] \in Ids

\* The experts a chunk can take, and those the pilot can hint in one call.
ChunkShare == TopK * (IF chunk > 0 THEN Min({chunk, MaxBatch}) ELSE MaxBatch)
PilotShare == MaxBatch * Max({PilotDepth, 0})

\* What the cache holds of a layer: the experts of one chunk at a time, what
\* calls that failed left of theirs, and the pilot's hints, those of one call
\* (or a failed one) and those whose loads are late.
LiveUnionBounded ==
    \A i \in Layers :
        /\ Cardinality(live[i] \ Hinted(i)) <= (faults + 1) * ChunkShare
        /\ Cardinality(Hinted(i)) <= (faults + 1) * PilotShare + Backlog

\* In a prefill that is cut into chunks "the chunk bounds the live union at
\* tc*topk payloads".
ChunkBoundsLive ==
    faults = 0 /\ ~decode /\ ChunkSize < Len(ids) =>
        \A i \in Layers : Cardinality(live[i]) <= TopK * ChunkSize
=============================================================================
