----------------------------- MODULE MCForward -----------------------------
(***************************************************************************)
(* Forward with three layers and arithmetic modulo a small prime:          *)
(* different inputs of a kernel nearly always give different values, and   *)
(* scores that are equal do happen.  All texts are tried without a pilot,  *)
(* whose hints do not change a row, and few of them with one.              *)
(***************************************************************************)
EXTENDS Forward

\* A pilot of one expert sees texts that differ in one token, a deeper one
\* texts of one token that fit in one call.
Text == fed \o (IF pc = "idle" THEN <<>> ELSE ids)
FewTexts ==
    LET others == {i \in DOMAIN Text : Text[i] # 1}
    IN  /\ pilotK > 0 => Cardinality(others) <= 1
        /\ pilotK > 1 => others = {} /\ Len(Text) <= MaxBatch

FewSpec == Init /\ [][Next /\ FewTexts']_vars

P == 241

AttentionOfLayers == <<"kda", "dsa", "dsa">>
MlpOfLayers       == <<"dense", "sparse", "sparse">>

MCEmbed(id)         == 7 * id + 3
MCIn(lr, site, v)   == (v * 5 + lr + (IF site = "attn" THEN 1 ELSE 2)) % P
MCOut(lr, site, v, y) == (v * 3 + y * 11 + lr) % P
MCKdaStep(lr, k, v) == (k * 13 + v + lr) % P
MCKdaRead(lr, k, v) == (k * 17 + v) % P
MCPoolScore(lr, v, rows) == (FoldLeft(+, v, rows) + lr) % 3
MCAttend(lr, v, rows) == FoldSet(LAMBDA i, acc : (acc + (i + 2) * (i + 2) * rows[i]) % P, v, DOMAIN rows)
MCGate(lr, v, e)    == (v + (e + 1) * (v \div 3) + lr) % 4
MCExpert(lr, e, v)  == (v * (IF e = "shared" THEN 23 ELSE IF e = "dense" THEN 29 ELSE 31) + lr) % P
MCWeighted(lr, v, sel, e) == (v * (e + 2) + 37 * FoldSet(+, 0, sel) + lr) % P
MCAdd(y, c)         == (y * 41 + c) % P
MCUnembed(v)        == (v * 43 + 1) % P
=============================================================================
