----------------------------- MODULE MCDownload -----------------------------
(***************************************************************************)
(* A small checkpoint for Download: three shards, an expert slab in each   *)
(* stream, a dense tensor.                                                 *)
(***************************************************************************)
EXTENDS Download

MCOrder   == <<"a1", "a2", "b1", "b2", "d">>
MCSlabs   == {"A", "B"}
MCSlabOf  == [t \in ToSet(MCOrder) |->
                 CASE t \in {"a1", "a2"} -> "A" [] t \in {"b1", "b2"} -> "B"
                   [] OTHER -> "none"]
MCGroupOf == [t \in ToSet(MCOrder) |->
                 IF t \in {"b1", "b2"} THEN "mtp" ELSE "main"]
\* Every layout that leaves no shard empty.
MCLayouts == {h \in [ToSet(MCOrder) -> {1, 2, 3}] :
                 \A s \in {1, 2, 3} : \E t \in ToSet(MCOrder) : h[t] = s}
=============================================================================
