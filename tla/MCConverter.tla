---------------------------- MODULE MCConverter ----------------------------
(***************************************************************************)
(* A small checkpoint for Converter: a slab of two members in each stream  *)
(* and a dense tensor, over two shards, in every possible layout.          *)
(***************************************************************************)
EXTENDS Converter

MCOrder   == <<"a1", "a2", "b1", "b2", "d">>
MCSlabs   == {"A", "B"}
MCSlabOf  == [t \in ToSet(MCOrder) |->
                 CASE t \in {"a1", "a2"} -> "A" [] t \in {"b1", "b2"} -> "B"
                   [] OTHER -> "none"]
MCGroupOf == [t \in ToSet(MCOrder) |->
                 IF t \in {"b1", "b2"} THEN "mtp" ELSE "main"]
MCLayouts == [ToSet(MCOrder) -> {1, 2}]
MCAny     == {{1}, {2}, {1, 2}}
============================================================================
