------------------------------- MODULE Serve -------------------------------
(***************************************************************************)
(* The engine's answer to one line of input (serve_main and the handlers   *)
(* below it, c/apus.c:393-883), and the text that the command line prints  *)
(* for the same tokens (run_glm).  The state of a request is fresh, so an  *)
(* answer depends on the line, the engine and what the model draws: the    *)
(* tokens in order, the ends of the bursts in which a speculating engine   *)
(* gets them, and the call of the forward that fails.                      *)
(*   engine  [tok, spec, eos, cap]   a tokenizer is loaded; speculation;   *)
(*           the tokens that end a text; the limit when none is asked for  *)
(*   model   [stream, ends, fail]    fail = 0: none, 1: the prefill,       *)
(*           n + 1: the n-th decode step or the n-th burst                 *)
(*   request [id, cmd, ids, text, messages, max, stop]                     *)
(***************************************************************************)
EXTENDS Replies, Integers, FiniteSets, SequencesExt

CONSTANTS
    Pieces,     \* Pieces[t]: the text of token t, a sequence of characters
    MaxStops    \* stop strings that are looked at (16)

ASSUME ServeAssumption == MaxStops \in Nat

Unset == -99    \* max_tokens is not in the request
NoId == 0       \* the id of a line that is no request

-----------------------------------------------------------------------------
(* Requests                                                                *)

BadRequest(id) == <<[id |-> id, type |-> "error", code |-> "bad_request"]>>
EngineError(id) == <<[id |-> id, type |-> "error", code |-> "engine_error"]>>

\* What can be read as a prompt, in the order it is looked for: ids, which must
\* all be numbers, then text, then messages; each may turn out empty.
PromptOk(eng, req) ==
    \/ req.ids = "some"
    \/ req.ids = "absent" /\ eng.tok
       /\ \/ req.text = "some"
          \/ req.text = "absent" /\ req.messages = "some"

\* max_tokens below zero is zero; empty stop strings are passed over.
Limit(eng, req) == IF req.max = Unset THEN eng.cap ELSE IF req.max < 0 THEN 0 ELSE req.max
Stops(req) ==
    LET filled == SelectSeq(req.stop, LAMBDA s : s # <<>>)
    IN  ToSet(SubSeq(filled, 1, IF Len(filled) < MaxStops THEN Len(filled) ELSE MaxStops))

\* eos_token_id of generation_config.json: a number, or the first eight of a
\* list, or the model's own three.
EosOf(gen, own) ==
    IF gen # <<>> THEN ToSet(SubSeq(gen, 1, IF Len(gen) < 8 THEN Len(gen) ELSE 8)) ELSE own

-----------------------------------------------------------------------------
(* Emitting tokens                                                         *)

\* s begins at the position i of text.
OccursAt(text, s, i) == i + Len(s) - 1 <= Len(text) /\ SubSeq(text, i, i + Len(s) - 1) = s
Hits(text, s) == {i \in 1..Len(text) : OccursAt(text, s, i)}

\* Regression: the later of two matches.
StopMatchLate(text, stops) ==
    LET at == UNION {Hits(text, s) : s \in stops}
    IN  IF at = {} THEN 0 ELSE CHOOSE i \in at : \A j \in at : i >= j

\* Where the text is cut: before the earliest match of any stop string, or 0.
StopMatch(text, stops) ==
    LET at == UNION {Hits(text, s) : s \in stops}
    IN  IF at = {} THEN 0 ELSE CHOOSE i \in at : \A j \in at : i <= j

Fresh == [text |-> <<>>, count |-> 0, sent |-> <<>>, fin |-> "none"]

Event(t, piece) == [token |-> t, text |-> piece]

\* The text goes on, or ends in front of the stop string at cut.
Kept(run, t, text, cut) ==
    LET piece(end) == SubSeq(text, Len(run.text) + 1, end) IN
    IF cut = 0
    THEN [run EXCEPT !.text = text, !.count = @ + 1,
                     !.sent = Append(@, Event(t, piece(Len(text))))]
    ELSE [text  |-> SubSeq(text, 1, cut - 1),
          count |-> run.count + 1,
          sent  |-> IF cut - 1 > Len(run.text)
                    THEN Append(run.sent, Event(t, piece(cut - 1))) ELSE run.sent,
          fin   |-> "stop_string"]

\* serve_emit_token
Emit(eng, stops, run, t) ==
    LET text == IF eng.tok THEN run.text \o Pieces[t] ELSE run.text IN
    IF t \in eng.eos THEN [run EXCEPT !.fin = "stop"]
    ELSE Kept(run, t, text, StopMatch(text, stops))

\* The tokens of one burst, up to the limit.
Burst(eng, stops, max, run, tokens) ==
    FoldLeft(LAMBDA r, t : IF r.fin # "none" \/ r.count >= max THEN r
                           ELSE Emit(eng, stops, r, t), run, tokens)

\* The decode loop: every token that goes on is followed by a decode step,
\* the last one included.
DecodeLoop(eng, stops, max, model) ==
    LET step(run, i) ==
            LET r == Emit(eng, stops, run, model.stream[i]) IN
            IF run.fin # "none" THEN run
            ELSE IF r.fin = "none" /\ model.fail = i + 1 THEN [r EXCEPT !.fin = "failed"]
            ELSE r
    IN  FoldLeft(step, Fresh, [i \in 1..max |-> i])

\* The speculation loop: a burst that fails ends the text without an error.
SpecLoop(eng, stops, max, model) ==
    LET from(i) == IF i = 1 THEN 1 ELSE model.ends[i - 1] + 1
        step(run, i) ==
            IF run.fin # "none" \/ run.count >= max THEN run
            ELSE IF model.fail = i + 1 THEN [run EXCEPT !.fin = "length"]
            ELSE Burst(eng, stops, max, run, SubSeq(model.stream, from(i), model.ends[i]))
    IN  FoldLeft(step, Fresh, [i \in DOMAIN model.ends |-> i])

Drawn(eng, stops, max, model) ==
    IF eng.spec THEN SpecLoop(eng, stops, max, model) ELSE DecodeLoop(eng, stops, max, model)

\* What is said of a text, token by token and in the end.
Told(req, model, run) ==
    LET tokens == [i \in DOMAIN run.sent |-> [id |-> req.id, type |-> "token"] @@ run.sent[i]]
        done   == [id |-> req.id, type |-> "done", text |-> run.text, count |-> run.count,
                   finish |-> IF run.fin = "none" THEN "length" ELSE run.fin]
    IN  <<[id |-> req.id, type |-> "prompt"]>>
        \o (IF model.fail = 1 THEN EngineError(req.id)
            ELSE IF run.fin = "failed" THEN tokens \o EngineError(req.id)
            ELSE Append(tokens, done))

\* serve_cmd_generate_glm
Generate(eng, req, model) ==
    IF PromptOk(eng, req) THEN Told(req, model, Drawn(eng, Stops(req), Limit(eng, req), model))
    ELSE BadRequest(req.id)

\* One line; the command "junk" stands for a line that is no JSON object.
Answer(eng, line, model) ==
    IF line.cmd = "junk" THEN BadRequest(NoId)
    ELSE CASE line.cmd = "encode" ->
                IF line.messages = "some"
                THEN <<[id |-> line.id, type |-> "encoded", ids |-> eng.tok]>>
                ELSE BadRequest(line.id)
           [] line.cmd = "generate" -> Generate(eng, line, model)
           [] OTHER -> BadRequest(line.id)

\* run_glm: the tokens that the command line prints, the one that ends the
\* text included; nothing is cut.
RunPrints(eng, max, model) ==
    LET ends == {i \in 1..max : model.stream[i] \in eng.eos}
    IN  SubSeq(model.stream, 1, IF ends = {} THEN max
                                ELSE CHOOSE i \in ends : \A j \in ends : i <= j)

-----------------------------------------------------------------------------
(* Properties of an answer                                                 *)

Concat(pieces) == FoldLeft(LAMBDA a, b : a \o b, <<>>, pieces)

\* The text of the first n tokens.
TextOf(eng, model, n) ==
    Concat([i \in 1..n |-> IF eng.tok THEN Pieces[model.stream[i]] ELSE <<>>])
HasStop(text, stops) == \E s \in stops : \E i \in 1..Len(text) : OccursAt(text, s, i)

\* The reply is one the gateway knows how to read, and all of it is the
\* request's own (c/apus.c:363-377).
InShape(line, reply, n) ==
    /\ [i \in DOMAIN reply |-> reply[i].type]
         \in Shapes(line.cmd, n)
    /\ \A i \in DOMAIN reply : reply[i].id = IF line.cmd = "junk" THEN NoId ELSE line.id

\* What a client is told of a generation that did not fail: the text of as many
\* tokens as were drawn before the first that ends it, the first that completes
\* a stop string, or the limit; cut before the stop string; and what was sent
\* token by token is that text, or goes on into the stop string without ever
\* containing one (c/apus.c:614-645).
TextIsRight(eng, req, model, reply) ==
    LET done   == reply[Len(reply)]
        sent   == Concat([i \in 1..Len(reply) - 2 |-> reply[i + 1].text])
        stops  == Stops(req)
        max    == Limit(eng, req)
        before == {n \in 0..max : \A i \in 1..n : model.stream[i] \notin eng.eos}
        n      == CHOOSE k \in before : \A j \in before : j <= k
        hits   == {k \in 1..n : HasStop(TextOf(eng, model, k), stops)}
        last   == CHOOSE k \in hits : \A j \in hits : k <= j
    IN  (req.cmd = "generate" /\ PromptOk(eng, req) /\ model.fail = 0) =>
        /\ done.type = "done"
        /\ IF hits = {}
           THEN /\ done.text = TextOf(eng, model, n) /\ done.count = n
                /\ done.finish = IF n = max THEN "length" ELSE "stop"
                /\ sent = done.text
           ELSE /\ done.finish = "stop_string" /\ done.count = last
                /\ IsPrefix(done.text, TextOf(eng, model, last))
                /\ ~HasStop(done.text, stops)
                /\ \E s \in stops : OccursAt(TextOf(eng, model, last), s, Len(done.text) + 1)
                /\ \A k \in 1..Len(done.text) : \A s \in stops :
                     ~OccursAt(TextOf(eng, model, last), s, k)
                /\ IsPrefix(done.text, sent) /\ IsPrefix(sent, TextOf(eng, model, last))
                /\ ~HasStop(sent, stops)

\* Speculation and the command line give the same tokens
\* (c/apus.c:600-606, 936-941).
SameTokens(eng, req, model, reply) ==
    LET ids == [i \in 1..Len(reply) - 2 |-> reply[i + 1].token]
    IN  (req.cmd = "generate" /\ PromptOk(eng, req) /\ model.fail = 0) =>
        /\ reply = Answer([eng EXCEPT !.spec = ~@], req, model)
        /\ Stops(req) = {} =>
             ids = SelectSeq(RunPrints(eng, Limit(eng, req), model), LAMBDA t : t \notin eng.eos)
=============================================================================
