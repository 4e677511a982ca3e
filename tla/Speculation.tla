---------------------------- MODULE Speculation ----------------------------
(***************************************************************************)
(* Speculative decoding of c/gmtp.h (ApusGspec) and the loop of c/apus.c   *)
(* that serves one request with it.  A draft head guesses the next tokens, *)
(* the main model takes them in one batch, the guesses that equal its own  *)
(* draws are kept, and both are rolled back to the tokens that were kept.  *)
(*                                                                         *)
(* A hidden and a logits row stand for the tokens they were computed from. *)
(* The recurrent (KDA) layers remember every token they took; the sparse   *)
(* attention (DSA) layers keep rows, the first n of which count.  A draw   *)
(* is any token, and so is a draft: the weights are not modelled.          *)
(***************************************************************************)
EXTENDS Integers, Sequences, SequencesExt, FiniteSetsExt

CONSTANTS
    Tokens,     \* the vocabulary
    Eos,        \* the token that ends a text; never sent
    Dead,       \* the draft of a head that failed: token 0
    Torn,       \* what a row of an inconsistent state was computed from
    OwnHidden,  \* a hidden of the draft head, not of the main model
    Prompts,    \* the prompts of a request
    Depths,     \* the drafts per step (--spec-k)
    MaxTokens,  \* the tokens a client asks for
    MaxFaults   \* bound: forwards that fail for want of an expert

ASSUME SpeculationAssumption ==
    /\ {Eos, Dead} \subseteq Tokens /\ Torn \notin Seq(Tokens)
    /\ Prompts \subseteq Seq(Tokens) \ {<<>>}
    /\ Depths \subseteq 1 .. 63
    /\ MaxTokens \in Nat \ {0} /\ MaxFaults \in Nat

VARIABLES
    prompt, depth,      \* the request
    pc,                 \* where gspec_prefill, gspec_step or the loop is
    main, snap,         \* the main model's state and its snapshot
    head, clean,        \* the draft head's state and its snapshot
    carried,            \* h_prev: the hidden that pairs with the next token
    drafts,             \* the drafts of the next step
    held, q,            \* the token drawn and not yet fed, its position
    batch, seen,        \* the tokens of a step; what its rows were computed from
    matched, out,       \* the walk: drafts accepted, tokens to send
    stream, context,    \* history: all draws, and the row of the last one
    sent, finish,       \* what the client got, and the reason it was given
    faults, broken,     \* history: faults so far; the main model failed
    stale               \* history: a replay of the draft head failed

request == <<prompt, depth>>
states  == <<main, snap>>
mtp     == <<head, clean, carried, drafts, stale>>
step    == <<held, q, batch, seen, matched>>
draws   == <<stream, context>>
client  == <<sent, finish>>
failure == <<faults, broken>>
vars    == <<request, pc, states, mtp, step, out, draws, client, failure>>

Pairs == [h : Seq(Tokens) \cup {Torn, OwnHidden}, tok : Tokens]

\* The position counter stays where it is when a forward fails; n does not.
TypeOK ==
    /\ prompt \in Prompts /\ depth \in Depths
    /\ pc \in {"prefill", "warm", "step", "walk", "fixup", "replay", "send", "done"}
    /\ main.pos \in Nat /\ main.n \in 0 .. Len(main.rows)
    /\ main.kda \in Seq(Tokens) /\ main.rows \in Seq(Tokens)
    /\ snap.n = snap.pos /\ snap.pos <= q
    /\ head.pos <= head.n /\ head.n <= Len(head.rows)
    /\ head.rows \in Seq(Pairs)
    /\ drafts \in [1 .. depth -> Tokens]
    /\ held \in Tokens /\ q \in Nat
    /\ Len(batch) <= depth /\ matched <= Len(batch)
    /\ stream \in Seq(Tokens) /\ sent \in Seq(Tokens)
    /\ finish \in {"none", "stop", "stop_string", "length", "error"}
    /\ faults \in 0 .. MaxFaults

----------------------------------------------------------------------------
\* The states of a request and what a forward does to them.

\* Room for the batch that runs ahead of the tokens sent.  Regression: no room
\* for the last of them.
CapShort == Len(prompt) + MaxTokens - 1
MainCap  == Len(prompt) + MaxTokens + depth + 1
HeadCap  == MainCap + depth

\* Rows are written from n on; those beyond stay as they were.
Overwritten(rows, n, new) ==
    SubSeq(rows, 1, n) \o new \o SubSeq(rows, n + Len(new) + 1, Len(rows))

\* gm_run: every layer takes the tokens, and the position moves at the end.
Attended(st, toks) == [st EXCEPT !.kda = @ \o toks,
                                 !.rows = Overwritten(@, st.n, toks),
                                 !.n = @ + Len(toks)]
Fed(st, toks) == [Attended(st, toks) EXCEPT !.pos = @ + Len(toks)]

\* A failed resolve leaves in the middle: the layers before it have taken
\* the tokens, those behind it have not.
Cut(st, toks) == {[st EXCEPT !.kda = @ \o toks], Attended(st, toks)}

\* What a logits row, or a hidden, of a state was computed from.
Row(st) == IF st.kda = SubSeq(st.rows, 1, st.n) /\ st.pos = st.n
             THEN st.kda ELSE Torn

\* The rows of a batch that starts at st.
Rows(st, toks) == [j \in DOMAIN toks |-> Row(Fed(st, SubSeq(toks, 1, j)))]

\* gsnap: the recurrent state is copied, the rows are only counted.
\* Regression: the recurrent state is forgotten.
Snapshot(st) == [pos |-> st.pos, kda |-> st.kda, n |-> st.n]
RestoredRows(st, sn) == [st EXCEPT !.pos = sn.pos, !.n = sn.n]
Restored(st, sn)     == [st EXCEPT !.pos = sn.pos, !.n = sn.n, !.kda = sn.kda]

\* The draft head takes pairs of a hidden and a token; it has rows only.
Absorbed(hd, pairs) == [hd EXCEPT !.rows = Overwritten(@, hd.n, pairs),
                                  !.n = @ + Len(pairs)]
Taken(hd, pairs) == [Absorbed(hd, pairs) EXCEPT !.pos = @ + Len(pairs)]
Fits(hd, pairs)  == hd.pos + Len(pairs) <= HeadCap
Rewound(hd, sn)  == [hd EXCEPT !.pos = sn.pos, !.n = sn.n]
Clean(hd)        == [pos |-> hd.pos, n |-> hd.n]

Init ==
    /\ prompt \in Prompts /\ depth \in Depths
    /\ pc = "prefill"
    /\ main = [pos |-> 0, kda |-> <<>>, n |-> 0, rows |-> <<>>]
    /\ snap = [pos |-> 0, kda |-> <<>>, n |-> 0]
    /\ head = [pos |-> 0, n |-> 0, rows |-> <<>>]
    /\ clean = [pos |-> 0, n |-> 0]
    /\ carried = <<>> /\ drafts = [i \in 1 .. depth |-> Dead] /\ stale = FALSE
    /\ held = Dead /\ q = 0 /\ batch = <<>> /\ seen = <<>> /\ matched = 0
    /\ out = <<>> /\ stream = <<>> /\ context = <<>>
    /\ sent = <<>> /\ finish = "none"
    /\ faults = 0 /\ broken = FALSE

----------------------------------------------------------------------------
\* Forwards that fail, draws, and the end of the request.

Faulty == faults < MaxFaults /\ faults' = faults + 1

\* apus_sample: one random number, any token.
DrawFrom(row, x) ==
    /\ stream' = Append(stream, x)
    /\ context' = row

\* The main model fails.  The caller of gspec_prefill reports it; that of
\* gspec_step takes the 0 it returns for the end of the text.
Break(toks, reason) ==
    /\ Faulty
    /\ main' \in Cut(main, toks)
    /\ broken' = TRUE /\ finish' = reason /\ pc' = "done"
    /\ UNCHANGED <<request, snap, mtp, step, out, draws, sent>>

----------------------------------------------------------------------------
\* The draft head.

\* gspec_chain: depth drafts from a clean state, each fed back with the
\* head's own hidden; when a forward fails the rest is dead.
Chain(hd) ==
    \E d \in [1 .. depth -> Tokens] :
    \E k \in 0 .. Min({depth - 1, HeadCap - hd.pos}) :
        LET own   == [i \in 1 .. depth |-> [h |-> OwnHidden, tok |-> d[i]]]
            fails == k < Min({depth - 1, HeadCap - hd.pos})
            fed   == Taken(hd, SubSeq(own, 1, k))
        IN  /\ \A i \in k + 2 .. depth : d[i] = Dead
            /\ drafts' = d
            /\ head' = IF fails THEN Absorbed(fed, <<own[k + 1]>>) ELSE fed
            /\ IF fails THEN Faulty ELSE UNCHANGED faults

AllDead == drafts' = [i \in 1 .. depth |-> Dead]

\* The true pairs are fed to the clean state, which becomes the new one.
Learn(pairs) ==
    LET learnt == Taken(Rewound(head, clean), pairs) IN
    /\ Fits(Rewound(head, clean), pairs)
    /\ clean' = Clean(learnt)
    /\ Chain(learnt)
    /\ UNCHANGED stale

\* The forward fails: for want of room before it begins, or of an expert.
LearnNot(pairs) ==
    LET hd == Rewound(head, clean) IN
    /\ IF Fits(hd, pairs) THEN Faulty /\ head' = Absorbed(hd, pairs)
                          ELSE UNCHANGED faults /\ head' = hd
    /\ AllDead
    /\ stale' = TRUE
    /\ UNCHANGED clean

----------------------------------------------------------------------------
\* gspec_prefill.

Prefill ==
    /\ pc = "prefill"
    /\ main' = Fed(main, prompt)
    /\ seen' = Rows(main, prompt)
    /\ \E x \in Tokens : DrawFrom(Last(seen'), x) /\ held' = x
    /\ q' = Len(prompt)
    /\ pc' = "warm"
    /\ UNCHANGED <<request, snap, mtp, batch, matched, out, client, failure>>

PrefillFails == pc = "prefill" /\ Break(prompt, "error")

\* Token p pairs with the hidden before it; the first one has no pair.
PromptPairs == [p \in 1 .. Len(prompt) - 1 |-> [h |-> seen[p], tok |-> prompt[p + 1]]]

Warm ==
    /\ pc = "warm"
    /\ carried' = Last(seen)
    /\ \/ Len(prompt) > 1 /\ (Learn(PromptPairs) \/ LearnNot(PromptPairs))
       \/ Len(prompt) = 1 /\ AllDead /\ UNCHANGED <<head, clean, stale, faults>>
    /\ pc' = "step"
    /\ UNCHANGED <<request, states, step, out, draws, client, broken>>

----------------------------------------------------------------------------
\* gspec_step.

\* The tokens of a step: the one that is held and what room allows of the
\* drafts.  The first draft guesses the token that is held.
Ahead == Min({depth, MainCap - q})
Batch == <<held>> \o SubSeq(drafts, 2, Ahead)

Verify ==
    /\ pc = "step" /\ Ahead > 0
    /\ snap' = Snapshot(main)
    /\ batch' = Batch
    /\ main' = Fed(main, Batch)
    /\ seen' = Rows(main, Batch)
    /\ out' = <<held>> /\ matched' = 0
    /\ pc' = "walk"
    /\ UNCHANGED <<request, mtp, held, q, draws, client, failure>>

\* The loop ends when a step has nothing for it.
StepFails ==
    /\ pc = "step"
    /\ IF Ahead > 0 THEN Break(Batch, "length")
       ELSE /\ finish' = "length" /\ pc' = "done"
            /\ UNCHANGED <<request, states, mtp, step, out, draws, sent, failure>>

\* One turn of the accept walk: the model's own draw at the next position.
\* The draw that ends the walk is held; it is kept in a local variable
\* until the state is fixed up, where nobody looks.  Regression: the draw
\* is taken from the row behind.
RowBehind == Last(seen)
RowOf     == seen[matched + 1]

Walk ==
    /\ pc = "walk"
    /\ \E x \in Tokens :
        /\ DrawFrom(RowOf, x)
        /\ IF matched + 1 < Len(batch) /\ x = drafts[matched + 2]
             THEN /\ matched' = matched + 1 /\ out' = Append(out, x)
                  /\ UNCHANGED <<held, pc>>
             ELSE /\ held' = x /\ pc' = "fixup"
                  /\ UNCHANGED <<matched, out>>
    /\ UNCHANGED <<request, states, mtp, q, batch, seen, client, failure>>

\* What is fed again after a rollback: the tokens that were accepted.
Kept == SubSeq(batch, 1, matched + 1)

RolledBack == Restored(main, snap)

\* After a partial reject the accepted tokens are fed to the old state.
Fixup ==
    /\ pc = "fixup"
    /\ main' = IF matched + 1 < Len(batch) THEN Fed(RolledBack, Kept) ELSE main
    /\ q' = q + matched + 1
    /\ pc' = "replay"
    /\ UNCHANGED <<request, snap, mtp, held, batch, seen, matched, out,
                   draws, client, failure>>

FixupFails ==
    /\ pc = "fixup" /\ matched + 1 < Len(batch)
    /\ Faulty
    /\ main' \in Cut(RolledBack, Kept)
    /\ broken' = TRUE /\ finish' = "length" /\ pc' = "done"
    /\ UNCHANGED <<request, snap, mtp, step, out, draws, sent>>

\* The accepted tokens and the hiddens before them.  Regression: each with
\* its own hidden.
PairsInStep == [j \in 1 .. matched + 1 |-> [h |-> seen[j], tok |-> batch[j]]]
NewPairs == [j \in 1 .. matched + 1 |->
                [h |-> IF j = 1 THEN carried ELSE seen[j - 1], tok |-> batch[j]]]

Replay ==
    /\ pc = "replay"
    /\ \/ Learn(NewPairs) /\ carried' = seen[matched + 1]
       \/ LearnNot(NewPairs) /\ UNCHANGED carried
    /\ pc' = "send"
    /\ UNCHANGED <<request, states, step, out, draws, client, broken>>

----------------------------------------------------------------------------
\* The loop of serve_cmd_generate_glm.

Sent == Append(sent, Head(out))

Send ==
    /\ pc = "send"
    /\ IF Head(out) = Eos
         THEN finish' = "stop" /\ pc' = "done" /\ UNCHANGED <<sent, out>>
         ELSE /\ sent' = Sent /\ out' = Tail(out)
              /\ IF Len(Sent) = MaxTokens THEN finish' = "length" /\ pc' = "done"
                 ELSE /\ UNCHANGED finish
                      /\ pc' = IF Len(out) = 1 THEN "step" ELSE "send"
    /\ UNCHANGED <<request, states, mtp, step, draws, failure>>

\* A stop string ends with this token: the client gets what is before it.
StopString ==
    /\ pc = "send" /\ Head(out) # Eos
    /\ sent' \in {sent, Sent}
    /\ finish' = "stop_string" /\ pc' = "done"
    /\ UNCHANGED <<request, states, mtp, step, out, draws, failure>>

Terminated == pc = "done" /\ UNCHANGED vars

Next ==
    \/ Prefill \/ PrefillFails \/ Warm
    \/ Verify \/ StepFails \/ Walk \/ Fixup \/ FixupFails \/ Replay
    \/ Send \/ StopString \/ Terminated

Spec == Init /\ [][Next]_vars

----------------------------------------------------------------------------
\* Properties.

\* All tokens of the text; the last of them is held and not fed yet.
Text == prompt \o stream

\* Between two steps the main model is where one-by-one decoding would be:
\* whatever was rejected, every layer has taken the accepted tokens, each
\* once, and nothing else.
RollbackExact ==
    pc = "step" => /\ main.pos = q /\ q = Len(Text) - 1
                   /\ Row(main) = SubSeq(Text, 1, q)
                   /\ held = Last(Text)

\* Unless one of its forwards failed, the draft head rests on true pairs:
\* every token with the main model's hidden before it, none of a rejected
\* draft, none of its own ("consistent through q-1 (true pairs only)").
HeadIsTrue ==
    /\ clean.pos = q - 1 /\ clean.n = q - 1 /\ clean.n <= Len(head.rows)
    /\ \A p \in 1 .. clean.n :
          head.rows[p] = [h |-> SubSeq(Text, 1, p), tok |-> Text[p + 1]]
    /\ carried = SubSeq(Text, 1, q)
TruePairs == pc = "step" /\ ~stale => HeadIsTrue

\* Unless the main model failed the client gets the whole text: up to the
\* end that was drawn, or as much as it asked for, unless one of its own
\* stop strings came up.
WholeText ==
    pc = "done" /\ ~broken =>
        \/ finish = "stop" /\ stream[Len(sent) + 1] = Eos
        \/ finish = "length" /\ Len(sent) = MaxTokens
        \/ finish = "stop_string"

\* A model that failed is reported, as it is without speculation.
FailureIsTold == pc = "done" /\ broken => finish = "error"

\* What the client gets is what decoding one token at a time gives.
OneByOne == INSTANCE Generation
SameAsOneByOne == OneByOne!Spec
=============================================================================
