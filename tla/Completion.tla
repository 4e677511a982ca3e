----------------------------- MODULE Completion -----------------------------
(***************************************************************************)
(* What the gateway makes of the text of a completion (tools/server.py):   *)
(* the message of a reply, the parts of a stream, and the message that a   *)
(* client sends back in its next request.  Text as in module Template; the *)
(* name of a call, a key and a value are the symbols between the markers.  *)
(***************************************************************************)
EXTENDS Template

-----------------------------------------------------------------------------
(* Calls of tools                                                          *)

\* What json.loads makes of the text of a value: the strings and documents it
\* knows, blanks around them aside.  Any other text is kept as a string.
Quoted == ("\"s\"" :> "s") @@ ("\"7\"" :> "7")
JsonLoads(s) ==
    LET x == Strip(s) IN
    IF Len(x) # 1 THEN Str(s)
    ELSE CASE x[1] \in DOMAIN Quoted  -> Str(<<Quoted[x[1]]>>)
           [] x[1] \in DOMAIN Written -> Doc(x[1])
           [] OTHER -> Str(s)

\* The arguments of a call: a key directly followed by a value, wherever they
\* stand; whatever else is there is passed over.
ArgumentsOf(body) ==
    LET from[i \in 1..Len(body) + 1] ==
          LET keyEnd == {j \in i+1..Len(body)-1 : body[j] = "</arg_key>" /\ body[j+1] = "<arg_value>"}
              end    == {k \in Min(keyEnd)+2..Len(body) : body[k] = "</arg_value>"}
          IN  IF i > Len(body) THEN <<>>
              ELSE IF body[i] # "<arg_key>" \/ keyEnd = {} \/ end = {} THEN from[i+1]
              ELSE <<[key |-> SubSeq(body, i + 1, Min(keyEnd) - 1),
                      val |-> JsonLoads(SubSeq(body, Min(keyEnd) + 2, Min(end) - 1))]>>
                   \o from[Min(end) + 1]
    IN  from[1]

NameOf(body) ==
    IF Has(body, "<arg_key>") THEN SubSeq(body, 1, FirstAt(body, "<arg_key>") - 1) ELSE body

\* A call; its arguments are a string of JSON.
CallOf(body) ==
    [t |-> "call", id |-> "id", function |-> "object", name |-> NameOf(body),
     arguments |-> [t |-> "string", object |-> TRUE, of |-> ArgumentsOf(body)]]
Sound(c) == c.name # <<>> /\ Unique([j \in DOMAIN c.arguments.of |-> c.arguments.of[j].key])
NoCalls == [ok |-> FALSE, calls |-> <<>>]
Prepend(c, rest) ==
    IF Sound(c) /\ rest.ok THEN [ok |-> TRUE, calls |-> <<c>> \o rest.calls] ELSE NoCalls

\* parse_glm_tool_calls on a text that begins with a call; not ok is ValueError.
ParseCalls(text) ==
    LET from[i \in 1..Len(text) + 1] ==
          LET ends == {j \in i+1..Len(text) : text[j] = "</tool_call>"} IN
          IF i > Len(text) \/ text[i] # "<tool_call>"
          THEN [NoCalls EXCEPT !.ok = Strip(SubSeq(text, i, Len(text))) = <<>>]
          ELSE IF ends = {} THEN NoCalls
          ELSE Prepend(CallOf(SubSeq(text, i + 1, Min(ends) - 1)), from[Min(ends) + 1])
    IN  from[1]

-----------------------------------------------------------------------------
(* The message of a reply, and its return                                  *)

\* parse_completion: reasoning, content and calls.
Completed(reasoning, rest, parsed) ==
    IF Has(rest, "<tool_call>") /\ parsed.ok
    THEN [reasoning |-> reasoning, calls |-> parsed.calls,
          content |-> SubSeq(rest, 1, FirstAt(rest, "<tool_call>") - 1)]
    ELSE [reasoning |-> reasoning, calls |-> <<>>, content |-> rest]
ParseCompletion(text) ==
    IF ~Has(text, "</think>") THEN [reasoning |-> text, content |-> <<>>, calls |-> <<>>]
    ELSE LET i    == FirstAt(text, "</think>")
             rest == Behind(text, i)
         IN  Completed(SubSeq(text, 1, i - 1), rest,
                       ParseCalls(Behind(rest, FirstAt(rest, "<tool_call>") - 1)))

\* _chat_once: the message a client gets.  No reasoning is no field; calls
\* without content leave null.
MessageOf(p) ==
    [role |-> "assistant",
     reasoning |-> IF p.reasoning = <<>> THEN "none" ELSE p.reasoning,
     content |-> IF p.content # <<>> \/ p.calls = <<>> THEN Words(p.content) ELSE Null,
     calls |-> p.calls, id |-> "none"]
Reply(text) == MessageOf(ParseCompletion(text))

\* normalize_tool_call_arguments, of a message whose calls are a list: arguments
\* that are the JSON of an object become the object, any others stay.
Normalized(m) ==
    LET AsObject(c) ==
          IF c.t = "call" /\ c.function = "object" /\ c.arguments.t = "string" /\ c.arguments.object
          THEN [c EXCEPT !.arguments = [t |-> "object", of |-> c.arguments.of]]
          ELSE c
    IN  [m EXCEPT !.calls = [q \in DOMAIN m.calls |-> AsObject(m.calls[q])]]

\* The line of a request is JSON, which has no word for a number that is none.
NoJson(m) ==
    \E q \in DOMAIN m.calls : m.calls[q].t = "call" /\ m.calls[q].arguments.t = "object"
        /\ \E j \in DOMAIN m.calls[q].arguments.of : m.calls[q].arguments.of[j].val = Doc("NaN")

\* The prompt of a request (_chat_completions, apus_serve); refused is empty.
RequestPrompt(msgs, opts) ==
    LET sent == [i \in DOMAIN msgs |-> Normalized(msgs[i])] IN
    IF \E i \in DOMAIN sent : NoJson(sent[i]) THEN <<>> ELSE Encode(sent, opts)

-----------------------------------------------------------------------------
(* The parts of a stream.  Here a symbol is a character and ThinkEnd the   *)
(* marker's characters.                                                    *)

ThinkEnd == <<"<", "/", ">">>
Opens(s, i) == i + Len(ThinkEnd) - 1 <= Len(s) /\ SubSeq(s, i, i + Len(ThinkEnd) - 1) = ThinkEnd
MarkAt(s) == {i \in DOMAIN s : Opens(s, i)}

\* ThinkSplitter.feed: what may begin the marker is kept back.
FeedPiece(st, piece) ==
    LET s    == st.pending \o piece
        kept == Min({Len(s), Len(ThinkEnd) - 1})
        i    == Min(MarkAt(s))
    IN  IF st.closed THEN [st EXCEPT !.content = @ \o s]
        ELSE IF MarkAt(s) # {}
        THEN [closed |-> TRUE, pending |-> <<>>, reasoning |-> st.reasoning \o SubSeq(s, 1, i - 1),
              content |-> st.content \o Behind(s, i + Len(ThinkEnd) - 1)]
        ELSE [st EXCEPT !.reasoning = @ \o SubSeq(s, 1, Len(s) - kept),
                        !.pending = SubSeq(s, Len(s) - kept + 1, Len(s))]

\* ThinkSplitter.flush, at the end of the stream.
FlushPiece(st) == [st EXCEPT !.reasoning = @ \o st.pending, !.pending = <<>>]

Splitter == [closed |-> FALSE, pending |-> <<>>, reasoning |-> <<>>, content |-> <<>>]
Streamed(pieces) == FlushPiece(FoldLeft(FeedPiece, Splitter, pieces))

-----------------------------------------------------------------------------
(* Properties                                                              *)

Solid(s) == SelectSeq(s, LAMBDA x : x # " ")

\* Where the calls of a completion begin, when it has any.
CallsFrom(s) == Min({i \in DOMAIN s : i > FirstAt(s, "</think>") /\ s[i] = "<tool_call>"})

\* A value that returns changed: a string loses its quotes, a document is
\* written anew.
Retyped(x) == CASE x \in DOMAIN Quoted  -> Quoted[x]
                [] x \in DOMAIN Written -> Written[x]
                [] OTHER -> x

\* A completion, whose reply is m, as a turn of the history: thoughts that do not
\* end are ended, and calls without content follow the word None.
Framed(s, m) ==
    LET e == FirstAt(s, "</think>") IN
    IF ~Has(s, "</think>") THEN s \o <<"</think>">>
    ELSE IF m.content = Null THEN SubSeq(s, 1, e) \o <<"None">> \o Behind(s, e)
    ELSE s

\* How it reads when it comes back: the values of its calls retyped.
Retold(f, m) ==
    LET IsValue(i) == i \in CallsFrom(f)+1..Len(f)-1 /\ f[i-1] = "<arg_value>" /\ f[i+1] = "</arg_value>"
    IN  IF m.calls = <<>> THEN f
        ELSE [i \in DOMAIN f |-> IF IsValue(i) THEN Retyped(f[i]) ELSE f[i]]

\* The calls are written as the template writes them: nothing stands between a
\* name, the arguments and the calls, and no part is empty or of several symbols.
Markers == {"<tool_call>", "</tool_call>", "<arg_key>", "</arg_key>", "<arg_value>", "</arg_value>"}
Tidy(text) ==
    LET At(i) == IF i > Len(text) THEN "end" ELSE text[i] IN
    \A i \in CallsFrom(text)..Len(text) :
      CASE At(i) \in {"<tool_call>", "<arg_key>", "<arg_value>"} -> At(i+1) \notin Markers \cup {"end"}
        [] At(i) = "</arg_key>"   -> At(i+1) = "<arg_value>"
        [] At(i) = "</arg_value>" -> At(i+1) \in {"<arg_key>", "</tool_call>"}
        [] At(i) = "</tool_call>" -> At(i+1) \in {"<tool_call>", "end"}
        [] OTHER -> <<At(i-1), At(i+1)>> \in
             {<<"<tool_call>", "<arg_key>">>, <<"<tool_call>", "</tool_call>">>,
              <<"<arg_key>", "</arg_key>">>, <<"<arg_value>", "</arg_value>">>}

\* s is what is left of t when symbols are dropped and values retyped.
LeftOf(s, t) ==
    LET at[i \in 0..Len(s)] ==
          IF i = 0 THEN 0
          ELSE Min({Len(t) + 1} \cup {j \in at[i-1]+1..Len(t) : s[i] \in {t[j], Retyped(t[j])}})
    IN  at[Len(s)] <= Len(t)

\* What stands outside the calls, and the markers that begin and end them.
Outside(s) ==
    LET Inside(i) == \E j \in CallsFrom(s)..i-1 :
                        s[j] = "<tool_call>" /\ ~Has(SubSeq(s, j, i), "</tool_call>")
    IN  FlattenSeq([i \in DOMAIN s |-> IF Inside(i) THEN <<>> ELSE <<s[i]>>])

\* The replies a client cannot send back and be understood: an argument that is
\* no number, and without reasoning a marker in the content, taken for its end.
Returns(m) ==
    /\ ~NoJson(Normalized(m))
    /\ (m.reasoning = "none" /\ m.content.t = "text") => ~Has(m.content.s, "</think>")

\* The completion with the frame comes back as told, with the reply m.
ComesBack(text, m, frame, told) ==
    IF m.calls = <<>> \/ Tidy(text) THEN told = Retold(frame, m)
    ELSE LeftOf(told, frame) /\ Outside(told) = Outside(frame)

\* A client that sends a reply back asks with what the model has seen, blanks
\* aside: the old prompt, then the completion, its values as json.loads and
\* json_dumps leave them.  A completion whose calls do not parse comes back to
\* the letter; of calls that parse though the template would not write them so,
\* nothing is added or moved, but what parse_glm_tool_calls passes over inside a
\* call is lost (parse_glm_tool_calls, normalize_tool_call_arguments, sb_tool_calls).
ReplyIsHistory(msgs, opts, text) ==
    LET before == Solid(Encode(msgs, [opts EXCEPT !.generate = TRUE]))
        Answered(m, after) ==
          Returns(m) => /\ IsPrefix(before, after)
                        /\ ComesBack(text, m, Framed(Solid(text), m), Behind(after, Len(before)))
        Asked(m) == Answered(m, Solid(RequestPrompt(Append(msgs, m), opts)))
    IN  Asked(Reply(text))

\* However the completion is cut into pieces, a stream sends the reasoning and
\* the content of the first end of thinking, nothing lost, repeated or on the
\* wrong side (ThinkSplitter).
StreamedAsParsed(pieces) ==
    LET whole == FlattenSeq(pieces)
        i     == Min(MarkAt(whole))
        got   == Streamed(pieces)
    IN  IF MarkAt(whole) = {} THEN got.reasoning = whole /\ got.content = <<>>
        ELSE got.reasoning = SubSeq(whole, 1, i - 1) /\ got.content = Behind(whole, i + Len(ThinkEnd) - 1)

\* Markup of an argument that is malformed makes the whole plain content: calls
\* that parse have an argument for each key (tools/server.py:69-70, 78-80).
MalformedIsContent(text) ==
    LET calls == Reply(text).calls
        Times(s, x) == Cardinality({i \in DOMAIN s : s[i] = x})
        called == Behind(text, CallsFrom(text) - 1)
    IN  calls # <<>> =>
          Times(called, "<arg_key>") = FoldLeft(LAMBDA n, c : n + Len(c.arguments.of), 0, calls)

\* A reply of the gateway can be sent back as history (tests/m7a/README.md:144-145).
OwnReplyIsTaken(msgs, opts, text) == RequestPrompt(Append(msgs, Reply(text)), opts) # <<>>
=============================================================================
