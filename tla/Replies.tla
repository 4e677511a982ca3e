------------------------------ MODULE Replies ------------------------------
(***************************************************************************)
(* The protocol between the gateway and the engine (c/apus.c:345-390): one *)
(* line of a request is answered by a sequence of events of which the last *)
(* and only the last is terminal.  The engine is checked to answer in      *)
(* these shapes (Serve) and the gateway to rely on nothing else (Gateway). *)
(***************************************************************************)
EXTENDS Naturals, Sequences

Terminal == {"done", "error", "encoded"}

\* A reply of k token events and the one that ends them.
Generated(k, last) == <<"prompt">> \o [i \in 1..k |-> "token"] \o <<last>>

\* The shapes of a reply with at most n token events.
Shapes(cmd, n) ==
    {<<"error">>} \cup (IF cmd = "encode" THEN {<<"encoded">>}
                        ELSE IF cmd = "generate"
                             THEN {Generated(k, last) : k \in 0..n, last \in {"done", "error"}}
                             ELSE {})
=============================================================================
