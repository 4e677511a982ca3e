---------------------------- MODULE ExpertStore ----------------------------
(***************************************************************************)
(* What the expert cache promises its one reader: an ask for an expert is  *)
(* answered, with exactly that expert's bytes or (when faults may happen)  *)
(* with an error that ends the forward; an answer keeps its bytes until    *)
(* the reader gives the layer back.  No slot, thread, queue or eviction.   *)
(***************************************************************************)
CONSTANTS Layers, Experts, MayFail

VARIABLES asked,  \* <<>>, or the <<layer, expert>> being waited for
          held    \* the answers in use: the expert asked for and its bytes
vars == <<asked, held>>

Answer(l, e) == [ask |-> <<l, e>>, bytes |-> <<l, e>>]

Init == asked = <<>> /\ held = {}

Ask(l, e) == asked = <<>> /\ asked' = <<l, e>> /\ UNCHANGED held

Serve(l, e) ==
    /\ asked \in {<<>>, <<l, e>>}
    /\ asked' = <<>>
    /\ held' = held \cup {Answer(l, e)}

Fail == MayFail /\ asked' = <<>> /\ held' = {}

Release(l) ==
    /\ asked = <<>>
    /\ held' = {h \in held : h.ask[1] # l}
    /\ UNCHANGED asked

Next ==
    \/ \E l \in Layers, e \in Experts : Ask(l, e) \/ Serve(l, e)
    \/ Fail
    \/ \E l \in Layers : Release(l)

Spec == Init /\ [][Next]_vars
=============================================================================
