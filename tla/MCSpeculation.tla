--------------------------- MODULE MCSpeculation ---------------------------
(* Speculation on small requests: a prompt of one token, whose draft head  *)
(* begins without a pair, and one of two; tokens 0 (the dead draft), 1 and *)
(* 2 (the end of a text).                                                  *)
EXTENDS Speculation

MCPrompts == {<<1>>, <<0, 1>>}
MCTorn    == <<-1>>
MCOwn     == <<-2>>
=============================================================================
