------------------------------- MODULE Loader -------------------------------
(***************************************************************************)
(* Opening a container (apus_gmodel_config_load and apus_gmodel_open2 in   *)
(* c/gmodel.h, apus_gcache_open in c/gcache.h, c/st.h below them) and the  *)
(* start of the engine that serves it (engine_init and serve_main in       *)
(* c/apus.c).  A container holds parts: the tensors one branch of the      *)
(* loader asks for together, present with the right type and shape or not. *)
(* Layers 0 .. L-1 are the model, layer L is the MTP block.                *)
(***************************************************************************)
EXTENDS Integers, FiniteSets, Sequences, SequencesExt, TLC

CONSTANTS
    L,          \* num_hidden_layers
    E,          \* n_routed_experts
    DsaLayers,  \* layers of sparse attention; the others are KDA
    Sparse      \* layers with experts; the others are dense

ASSUME LoaderAssumption ==
    L \in Nat \ {0} /\ E \in Nat \ {0} /\ DsaLayers \subseteq 0..L-1 /\ Sparse \subseteq 0..L-1

Top == <<-1, "top">>    \* embed_tokens, norm, lm_head

\* A container con: config and manifest can be read; the config claims an MTP
\* block; the parts that are there, and those of another type or shape; the
\* expert slabs on record, those whose record names no block or shard, and those
\* of another size or in a shard that cannot be opened; main, the manifest's
\* n_main_layers; the tokenizer is absent, ok or bad.

Attention(l) == IF l # L /\ l \notin DsaLayers THEN "kda" ELSE "dsa"
HasExperts(l) == l = L \/ l \in Sparse

\* The parts of one layer in the order they are asked for; the experts come
\* last, and only when they are loaded eagerly.
Asked(l) ==
    <<"norms">> \o (IF l = L THEN <<>> ELSE <<"hc">>) \o <<Attention(l)>>
    \o (IF l = L THEN <<"glue", "eh_proj">> ELSE <<>>)
    \o (IF HasExperts(l) THEN <<"router", "shared", "experts">> ELSE <<"dense">>)

\* Regression, which the loader warns of: the glue after the experts, where
\* the tiered branch has already gone on to the next layer.
LoadedLate(l, tiered) ==
    LET seq == <<"norms">> \o (IF l = L THEN <<>> ELSE <<"hc">>) \o <<Attention(l)>>
               \o (IF HasExperts(l) THEN <<"router", "shared", "experts">> ELSE <<"dense">>)
    IN  IF tiered \/ l # L THEN SelectSeq(seq, LAMBDA p : p # "experts" \/ ~tiered)
        ELSE seq \o <<"glue", "eh_proj">>

\* What the loader asks of one layer: the tiered branch ends at the experts.
Loaded(l, tiered) == SelectSeq(Asked(l), LAMBDA p : ~tiered \/ p # "experts")

\* The MTP block is there if the config says so, or if eh_proj is, of any shape.
Detected(con) == con.claims \/ <<L, "eh_proj">> \in con.parts \cup con.odd

\* The eager load looks every slab up and reads it.
HasPart(con, l, p) ==
    IF p = "experts" THEN \A e \in 0..E-1 : <<l, e>> \in con.slabs \ (con.bad \cup con.broken)
    ELSE <<l, p>> \in con.parts

-----------------------------------------------------------------------------
(* The expert cache                                                        *)

\* apus_gcache_open for n layers: a record without block or shard is refused;
\* records behind the model's layers belong to the MTP block and count only when
\* it was loaded; of those that count a bad one is refused, and a missing one is
\* not noticed.
CacheOpen(con, n) ==
    LET main   == IF con.main > n THEN n ELSE con.main
        served == {r \in con.slabs : r[1] < main \/ (r[1] = main /\ n > main)}
    IN  [ok   |-> /\ con.manifest /\ con.broken = {}
                  /\ \A r \in served : r \notin con.bad /\ r[1] < n /\ r[2] < E,
         recs |-> served]

\* LRU slots per layer: as many as asked for, or the budget is shared by the
\* layers that have records (slots = 0); never more than there are experts.
SlotsPerLayer(con, n, budget, slots) ==
    LET recs   == CacheOpen(con, n).recs
        sparse == {l \in 0..n-1 : \E r \in recs : r[1] = l}
        shares == IF sparse = {} THEN n ELSE Cardinality(sparse)
        per    == IF slots > 0 THEN slots
                  ELSE IF budget \div shares = 0 THEN 1 ELSE budget \div shares
    IN  IF per > E THEN E ELSE per

-----------------------------------------------------------------------------
(* Opening, and the start of serve                                         *)

Failed == [up |-> FALSE]

\* apus_gmodel_open2: everything asked for, then the cache; a failure at any
\* point closes what was opened.
OpenModel(con, tiered, want) ==
    LET mtp    == Detected(con) /\ (~tiered \/ want)
        n      == L + (IF mtp THEN 1 ELSE 0)
        asked  == {<<l, p>> \in (0..n-1) \X {"norms", "hc", "kda", "dsa", "glue", "eh_proj", "dense",
                                            "router", "shared", "experts"} :
                     p \in ToSet(Loaded(l, tiered))}
        cache  == IF tiered THEN CacheOpen(con, n) ELSE [ok |-> TRUE, recs |-> {}]
    IN  IF /\ con.config /\ con.manifest
           /\ Top \in con.parts
           /\ \A a \in asked : HasPart(con, a[1], a[2])
           /\ cache.ok
        THEN [up |-> TRUE, mtp |-> mtp, loaded |-> asked \cup {Top}, recs |-> cache.recs]
        ELSE Failed

\* apus_gmtp_bind finds the block of a model that has it.
Bound(m) == m.mtp

\* serve_main before its loop: speculation by default gives way to a container
\* without the block, asked for explicitly it does not; the block is then bound.
Start(con, opt) ==
    LET m    == OpenModel(con, opt.tiered, opt.spec)
        spec == opt.spec /\ m.mtp
    IN  IF \/ ~m.up
           \/ opt.spec /\ ~m.mtp /\ opt.explicit
           \/ spec /\ ~Bound(m)
           \/ con.tok = "bad"
        THEN Failed
        ELSE m @@ [spec |-> spec, text |-> con.tok = "ok"]

-----------------------------------------------------------------------------
(* What the forward reads                                                  *)

ReadOf(l) ==
    {<<l, "norms">>, <<l, Attention(l)>>}
    \cup (IF l = L THEN {<<l, "glue">>, <<l, "eh_proj">>} ELSE {<<l, "hc">>})
    \cup (IF HasExperts(l) THEN {<<l, "router">>, <<l, "shared">>} ELSE {<<l, "dense">>})

Layers(spec) == 0..(IF spec THEN L ELSE L - 1)
ExpertsOf(spec) == {r \in Layers(spec) \X (0..E-1) : HasExperts(r[1])}

Whole(con, spec) ==
    /\ con.config /\ con.manifest /\ con.bad \cup con.broken = {} /\ con.tok # "bad"
    /\ Top \in con.parts /\ \A l \in Layers(spec) : ReadOf(l) \subseteq con.parts
    /\ ExpertsOf(spec) \subseteq con.slabs

\* An engine that is up has every weight a forward will read, those of the
\* draft head if it will speculate; experts are in memory or, with a cache,
\* on record for each one the container lists (unless the manifest counts fewer
\* layers than the config); and a container that lacks
\* nothing starts, with speculation if it was wanted and can be had
\* (c/gmodel.h:620-1100, c/apus.c:765-830).
StartsComplete(con, opt) ==
    LET s == Start(con, opt) IN
    /\ s.up => /\ Top \in s.loaded
               /\ \A l \in Layers(s.spec) : ReadOf(l) \subseteq s.loaded
               /\ IF opt.tiered
                  THEN con.main >= L => s.recs \cap ExpertsOf(s.spec) = con.slabs \cap ExpertsOf(s.spec)
                  ELSE \A l \in Layers(s.spec) :
                         HasExperts(l) => <<l, "experts">> \in s.loaded
               /\ s.spec => opt.spec
    /\ Whole(con, Detected(con)) /\ con.main >= L =>
         /\ s.up = (Detected(con) \/ ~opt.spec \/ ~opt.explicit)
         /\ s.up => s.spec = (opt.spec /\ Detected(con))

\* The cache divides its budget among the layers that use it, and no more than
\* the budget is promised unless one slot per layer already exceeds it
\* (c/gcache.h:954-971).
BudgetIsShared(con, n, budget) ==
    LET users == {l \in 0..n-1 : \E r \in CacheOpen(con, n).recs : r[1] = l}
        spl   == SlotsPerLayer(con, n, budget, 0)
    IN  /\ spl = 1 \/ spl * Cardinality(users) <= budget
        /\ users # {} /\ spl < E => (spl + 1) * Cardinality(users) > budget
=============================================================================
