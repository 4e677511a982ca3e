------------------------------ MODULE Template ------------------------------
(***************************************************************************)
(* The chat template (c/encoding.h).  Text is a sequence of symbols: a     *)
(* marker such as "<|user|>" or "</think>", a word, a blank " ", a JSON    *)
(* document.  A message is a record: its role; its content; the reasoning  *)
(* of an assistant ("none" or a text) and its calls of tools; the id of a  *)
(* tool's answer.  Content is "missing", "null", "scalar" (a number or a   *)
(* truth value), "obj", "text" or "items", a list whose items are texts,   *)
(* media, outputs of a tool or references to tools.  A call is an object   *)
(* with an id, a name ("none" or a text) and arguments ("object",          *)
(* "string", "missing"), the last two bare or in a "function"; "scalar" is *)
(* a call that is no object, and the one call of calls that are no list.   *)
(* A value of an argument is a string or a JSON document.                  *)
(* Options: the tools of the request ("missing", "scalar", "array"), the   *)
(* effort, whether old reasoning is dropped, whether a reply is asked for. *)
(***************************************************************************)
EXTENDS Integers, Sequences, SequencesExt, FiniteSetsExt, TLC

Missing == [t |-> "missing"]
Null    == [t |-> "null"]
Words(s) == [t |-> "text", s |-> s]

Has(s, x) == \E i \in DOMAIN s : s[i] = x
FirstAt(s, x) == Min({i \in DOMAIN s : s[i] = x})
LastAt(s, x)  == Max({i \in DOMAIN s : s[i] = x})
Behind(s, i)  == SubSeq(s, i + 1, Len(s))

\* py_strip: blanks at both ends.
Strip(s) ==
    LET solid == {i \in DOMAIN s : s[i] # " "}
    IN  IF solid = {} THEN <<>> ELSE SubSeq(s, Min(solid), Max(solid))

-----------------------------------------------------------------------------
(* What of a content is visible                                            *)

Item(i) == CASE i.t = "text"  -> i.s
             [] i.t = "image" -> <<"<|begin_of_image|>", "<|image|>", "<|end_of_image|>">>
             [] i.t = "audio" -> <<"<|begin_of_audio|>", "<|end_of_audio|>">>
             [] OTHER         -> <<>>

\* sb_visible_text; only an object fails.
Visible(c) == CASE c.t = "missing" -> <<>>
                [] c.t = "null"    -> <<"None">>
                [] c.t \in {"text", "scalar"} -> c.s
                [] c.t = "items"   -> FlattenSeq([i \in DOMAIN c.of |-> Item(c.of[i])])
NotVisible(c) == c.t = "obj"

-----------------------------------------------------------------------------
(* Tools: the block at the top, and references to them in answers          *)

Schema(tool) == <<tool.name, "\n">>

ToolsFail(tools) ==
    \/ tools.t = "scalar"
    \/ tools.t = "array" /\ \E i \in DOMAIN tools.of : ~tools.of[i].defer /\ ~tools.of[i].object
ToolsBlock(tools) ==
    IF tools.t = "missing" \/ tools.of = <<>> THEN <<>>
    ELSE <<"<|system|>", "<tools>">>
         \o FlattenSeq([i \in DOMAIN tools.of |->
                IF tools.of[i].defer THEN <<>> ELSE Schema(tools.of[i])])
         \o <<"</tools>">>

IsItems(c, t) == c.t = "items" /\ c.of # <<>> /\ c.of[1].t = t
IsReferences(c) == IsItems(c, "ref")
IsOutputs(c)    == IsItems(c, "out")

\* The schemas of the tools an answer refers to; a deferred tool appears here.
References(refs, tools) ==
    LET Named(r) == IF r.t # "ref" THEN <<>>
                    ELSE FlattenSeq([j \in DOMAIN tools.of |->
                            IF tools.of[j].name = r.name THEN Schema(tools.of[j]) ELSE <<>>])
    IN  <<"<tool_response>", "<tools>">> \o FlattenSeq([i \in DOMAIN refs |-> Named(refs[i])])
        \o <<"</tools>", "</tool_response>">>

\* One answer: references, or what is visible of it.
Response(c, tools) ==
    IF IsReferences(c) THEN References(c.of, tools)
    ELSE <<"<tool_response>">> \o Visible(c) \o <<"</tool_response>">>
ReferencesFail(c, tools) == IsReferences(c) /\ tools.t # "array"
ResponseFails(c, tools)  == ReferencesFail(c, tools) \/ NotVisible(c)

-----------------------------------------------------------------------------
(* A block of consecutive answers                                          *)

\* The answers of one message: its outputs, or the message as a whole.
Answers(m) ==
    IF ~IsOutputs(m.content) THEN <<[id |-> m.id, content |-> m.content]>>
    ELSE [i \in DOMAIN m.content.of |->
            LET o == m.content.of[i] IN
            IF o.t = "out" THEN [id |-> o.id, content |-> o.output]
                           ELSE [id |-> "none", content |-> Missing]]

BlockAnswers(block) == FlattenSeq([k \in DOMAIN block |-> Answers(block[k])])

Unique(ids) == \A i, j \in DOMAIN ids : ids[i] = ids[j] => i = j

\* Regression: the ids of the calls may repeat.
CanSortLoose(answers, calls) ==
    LET ids == [i \in DOMAIN answers |-> answers[i].id] IN
    /\ calls # <<>>
    /\ \A i \in DOMAIN ids : ids[i] # "none" /\ \E q \in DOMAIN calls : calls[q].id = ids[i]
    /\ Unique(ids)

\* Whether the answers can be put in the order of the calls: every answer has
\* an id of its own among the calls', and the calls' ids differ.
CanSort(answers, calls) ==
    LET ids == [i \in DOMAIN answers |-> answers[i].id]
        asked == [q \in DOMAIN calls |-> calls[q].id] IN
    /\ calls # <<>>
    /\ \A i \in DOMAIN ids : ids[i] # "none" /\ Has(asked, ids[i])
    /\ Unique(ids)
    /\ ~Has(asked, "none")
    /\ Unique(asked)

\* The answers in the order they are rendered.
InOrder(answers, calls) ==
    IF ~CanSort(answers, calls) THEN answers
    ELSE FlattenSeq([q \in DOMAIN calls |->
            SelectSeq(answers, LAMBDA a : a.id = calls[q].id)])

-----------------------------------------------------------------------------
(* Calls                                                                   *)

\* What json_dumps writes of a document of an argument.
Written == ("7" :> "7") @@ ("1e2" :> "100.0") @@ ("{7}" :> "{ 7 }") @@ ("NaN" :> "NaN")

Str(s) == [str |-> TRUE, s |-> s]
Doc(d) == [str |-> FALSE, doc |-> d]

\* Strings as they are, every other value as json_dumps writes it.
ArgValue(v) == IF v.str THEN v.s ELSE <<Written[v.doc]>>

Argument(a) ==
    <<"<arg_key>">> \o a.key \o <<"</arg_key>", "<arg_value>">> \o ArgValue(a.val) \o <<"</arg_value>">>
Call(c) ==
    <<"<tool_call>">> \o c.name
    \o FlattenSeq([j \in DOMAIN c.arguments.of |-> Argument(c.arguments.of[j])])
    \o <<"</tool_call>">>
Calls(m) == FlattenSeq([q \in DOMAIN m.calls |-> Call(m.calls[q])])

\* The template raises on arguments that are a string.
CallFails(c) ==
    c.t = "scalar" \/ c.function = "scalar" \/ c.name = "none" \/ c.arguments.t # "object"

-----------------------------------------------------------------------------
(* The prompt                                                              *)

\* An assistant's reasoning and content: the field, or what stands between the
\* thinking markers of its content.
Thought(m) ==
    LET c == Visible(m.content) IN
    IF m.reasoning # "none" THEN [has |-> TRUE, reasoning |-> m.reasoning, content |-> c]
    ELSE IF ~Has(c, "</think>") THEN [has |-> FALSE, reasoning |-> <<>>, content |-> c]
    ELSE LET head == SubSeq(c, 1, FirstAt(c, "</think>") - 1) IN
         [has |-> TRUE,
          reasoning |-> IF Has(head, "<think>") THEN Behind(head, LastAt(head, "<think>")) ELSE head,
          content |-> Behind(c, LastAt(c, "</think>"))]

Assistant(m, kept) ==
    LET th == Thought(m) IN
    <<"<|assistant|>", "<think>">> \o (IF th.has /\ kept THEN th.reasoning ELSE <<>>)
    \o <<"</think>">> \o Strip(th.content) \o Calls(m)

Role(msgs, i) == IF i \in DOMAIN msgs THEN msgs[i].role ELSE "none"

\* The last message of the run of answers that begins at i.
BlockEnd(msgs, i) == Max({j \in i..Len(msgs) : \A k \in i..j : msgs[k].role = "tool"})

Rendered(msgs, i, opts) ==
    LET m == msgs[i]
        lastUser == Max({0} \cup {j \in DOMAIN msgs : msgs[j].role = "user"})
        calls == IF Role(msgs, i-1) = "assistant" THEN msgs[i-1].calls ELSE <<>>
        ans == InOrder(BlockAnswers(SubSeq(msgs, i, BlockEnd(msgs, i))), calls)
    IN  CASE m.role \in {"user", "system"} -> <<"<|" \o m.role \o "|>">> \o Visible(m.content)
          [] m.role = "assistant" -> Assistant(m, ~opts.clear \/ i > lastUser)
          [] m.role = "tool" /\ Role(msgs, i-1) # "tool" ->
                <<"<|observation|>">>
                \o FlattenSeq([a \in DOMAIN ans |-> Response(ans[a].content, opts.tools)])
          [] OTHER -> <<>>

MessageFails(m, tools) ==
    CASE m.role \in {"user", "system"} -> NotVisible(m.content)
      [] m.role = "assistant" -> NotVisible(m.content) \/ \E q \in DOMAIN m.calls : CallFails(m.calls[q])
      [] m.role = "tool" -> \E i \in DOMAIN Answers(m) : ResponseFails(Answers(m)[i].content, tools)
      [] OTHER -> FALSE

EncodeFails(msgs, opts) ==
    ToolsFail(opts.tools) \/ \E i \in DOMAIN msgs : MessageFails(msgs[i], opts.tools)

\* glm_encode_messages; a prompt that fails is no prompt.
Encode(msgs, opts) ==
    IF EncodeFails(msgs, opts) THEN <<>> ELSE
    <<"[gMASK]<sop>", "<|system|>",
      IF opts.effort \in {"low", "high"} THEN opts.effort ELSE "max">>
    \o ToolsBlock(opts.tools)
    \o FlattenSeq([i \in DOMAIN msgs |-> Rendered(msgs, i, opts)])
    \o (IF opts.generate THEN <<"<|assistant|>", "<think>">> ELSE <<>>)

-----------------------------------------------------------------------------
(* Properties                                                              *)

\* The parts of a conversation that a prompt must show: thoughts (1), what is
\* said or answered (2) and the names of calls (3), each a word of its own.
Mark(i, k, j) == "w" \o ToString(i) \o ToString(k) \o ToString(j)

Thinks(m) == m.reasoning # "none" \/ (m.content.t = "text" /\ Has(m.content.s, "</think>"))
Said(m) ==
    IF m.role = "tool"
    THEN {j \in DOMAIN Answers(m) : Answers(m)[j].content.t = "text"}
    ELSE CASE m.content.t \in {"text", "scalar"} -> {1}
           [] m.content.t = "items" -> {j \in DOMAIN m.content.of : m.content.of[j].t = "text"}
           [] OTHER -> {}
Known(m) == m.role \in {"user", "system", "assistant", "tool"}

Parts(msgs, opts) ==
    LET Kept(i) == ~opts.clear \/ \A j \in i..Len(msgs) : msgs[j].role # "user" IN
    UNION {{<<i, 2, j>> : j \in Said(msgs[i])}
             \cup (IF Thinks(msgs[i]) /\ Kept(i) THEN {<<i, 1, 1>>} ELSE {})
             \cup {<<i, 3, q>> : q \in DOMAIN msgs[i].calls} : i \in {k \in DOMAIN msgs : Known(msgs[k])}}

\* The first message of the block a message belongs to, itself for the others.
BlockOf(msgs, i) ==
    Min({k \in 1..i : k = i \/ \A l \in k..i : msgs[l].role = "tool"})

\* p comes before q: by turns, in a turn by thoughts, words and calls, and in a
\* block by the calls if the ids decide.
Before(msgs, p, q) ==
    LET b == BlockOf(msgs, p[1])
        calls == IF Role(msgs, b-1) = "assistant" THEN msgs[b-1].calls ELSE <<>>
        asked == [c \in DOMAIN calls |-> calls[c].id]
        Id(x) == Answers(msgs[x[1]])[x[3]].id
    IN  IF /\ msgs[p[1]].role = "tool" /\ BlockOf(msgs, q[1]) = b
           /\ CanSort(BlockAnswers(SubSeq(msgs, b, BlockEnd(msgs, b))), calls)
        THEN FirstAt(asked, Id(p)) < FirstAt(asked, Id(q))
        ELSE \/ p[1] < q[1]
             \/ p[1] = q[1] /\ p[2] < q[2]
             \/ p[1] = q[1] /\ p[2] = q[2] /\ p[3] < q[3]

\* What the answers refer to.
Referred(msgs) ==
    LET Refs(m) == FlattenSeq([j \in DOMAIN Answers(m) |->
            IF IsReferences(Answers(m)[j].content) THEN Answers(m)[j].content.of ELSE <<>>])
    IN  FlattenSeq([i \in DOMAIN msgs |-> IF msgs[i].role = "tool" THEN Refs(msgs[i]) ELSE <<>>])

\* What the header of the code says it does not render: an object as content,
\* calls without a name or with arguments that are no object, references
\* without tools, tools that are no list of objects.
Renderable(msgs, opts) ==
    /\ opts.tools.t # "scalar" /\ (opts.tools.t = "array" => \A i \in DOMAIN opts.tools.of : opts.tools.of[i].object)
    /\ Referred(msgs) # <<>> => opts.tools.t = "array"
    /\ \A i \in {k \in DOMAIN msgs : Known(msgs[k])} :
         /\ msgs[i].content.t # "obj"
         /\ \A q \in DOMAIN msgs[i].calls :
              LET c == msgs[i].calls[q] IN
              c.t = "call" /\ c.function # "scalar" /\ c.name # "none" /\ c.arguments.t = "object"

\* A conversation that cannot be rendered is refused as a whole.  In any other,
\* every word, call and answer shows exactly once, in the place of its turn: the
\* answers of a block in the order of the calls when their ids decide it and as
\* they came when not; of the thoughts those that clear_thinking keeps; and a
\* tool shows at the top unless deferred, and wherever an answer refers to it
\* (glm_encode_messages: the blocks, skip_until, can_sort and clear_thinking).
EachShowsOnce(msgs, opts) ==
    LET prompt == Encode(msgs, opts)
        parts  == Parts(msgs, opts)
        marks  == {Mark(i, k, j) : i \in DOMAIN msgs, k \in 1..3, j \in 1..3}
        shown  == SelectSeq(prompt, LAMBDA s : s \in marks)
        Place(p) == FirstAt(shown, Mark(p[1], p[2], p[3]))
        Times(s, x) == Cardinality({i \in DOMAIN s : s[i] = x})
    IN  IF ~Renderable(msgs, opts) THEN prompt = <<>>
        ELSE
        /\ Len(shown) = Cardinality(parts) /\ Range(shown) = {Mark(p[1], p[2], p[3]) : p \in parts}
        /\ \A p, q \in parts : Before(msgs, p, q) => Place(p) < Place(q)
        /\ opts.tools.t = "array" =>
             \A j \in DOMAIN opts.tools.of :
               LET tool == opts.tools.of[j] IN
               Times(prompt, tool.name) = (IF tool.defer THEN 0 ELSE 1)
                   + Cardinality({i \in DOMAIN Referred(msgs) : Referred(msgs)[i].name = tool.name})
=============================================================================
