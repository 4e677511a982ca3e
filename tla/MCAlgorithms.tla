---------------------------- MODULE MCAlgorithms ----------------------------
(***************************************************************************)
(* Inputs for the modules that model pure code: each is one area, and a    *)
(* behaviour enumerates the inputs of one area.  The attention core is the *)
(* one area with a state of its own.                                       *)
(***************************************************************************)
EXTENDS Kda, Json, Tok, Completion, Numeric, Kernels, Loader, Serve

VARIABLES area, input

allVars == <<kdaVars, area, input>>

\* Constants of the areas.
ConvWeights == <<2, 1, 3>>
TokenRows ==
    {[q |-> <<1, 2>>, k |-> <<2, 1>>, v |-> <<3, 1>>, a |-> <<2, 3>>, b |-> 1],
     [q |-> <<3, 0>>, k |-> <<1, 4>>, v |-> <<0, 2>>, a |-> <<4, 1>>, b |-> 3]}
TokenPieces == <<<<"a">>, <<"b">>, <<"a", "b">>, <<"e">>>>

Open(a) == area \in {"none", a}
Pick(a, x) == area = "none" /\ area' = a /\ input' = x /\ UNCHANGED kdaVars
Grow(a, n, Syms) ==
    /\ Open(a) /\ Len(input) < n
    /\ \E s \in Syms : input' = Append(input, s)
    /\ area' = a /\ UNCHANGED kdaVars

FeedAttention == Open("attention") /\ KdaNext /\ area' = "attention" /\ UNCHANGED input

-----------------------------------------------------------------------------
(* JSON: texts, strings, floats                                            *)

GrowDocument == Open("document") /\ Viable(input) /\ Grow("document", MaxText, Symbols)
GrowString   == Grow("string", 3, Units)
GrowNumber   == Open("number") /\ (input # <<>> => PNumber(input, 1).ok /\ PNumber(input, 1).at > Len(input))
                  /\ Grow("number", 6, {"-", "0", "7", ".", "e", "+"})
PickFloat ==
    \/ \E k \in {"zero", "inf", "nan"}, neg \in BOOLEAN : Pick("float", [kind |-> k, neg |-> neg])
    \/ \E d \in UNION {[1..n -> {"0", "7"}] : n \in 1..4} \cup {[i \in 1..17 |-> "7"]},
          p \in -6..19 \cup {-120, 120}, neg \in BOOLEAN :
         /\ d[1] # "0" /\ d[Len(d)] # "0"
         /\ Pick("float", [kind |-> "fin", neg |-> neg, digits |-> d, decpt |-> p])

\* Every text, every spelling of a string and every number of JSON is read as it
\* means and written so that it reads the same again, and a float as Python writes
\* it; what is taken beyond JSON, and what is lost, is named (c/json.h).
JsonAgrees ==
    /\ area = "document" => DocumentRead(input)
    /\ area = "string" => StringRead(input)
    /\ area = "number" => NumberRead(input)
    /\ area = "float" => FloatRead(input)

-----------------------------------------------------------------------------
(* Tokenizer: texts, merge tables                                          *)

MergeTokens == {<<"a">>, <<"o">>, <<"a", "o">>, <<"o", "a">>, <<"a", "a">>}
Vocabulary  == MergeTokens \cup {<<"a", "a", "o">>, <<"e1">>, <<"e2">>,
                                 <<"a", "o", "a", "a">>, <<"o", "a", "o">>}
AddedSets   == {<<>>, <<<<"a">>, <<"a", "!">>>>,
                <<<<"!", "!">>, <<"a", "!", "o">>, <<"a", "!">>>>}
MergeWords  == SeqOf({"a", "o"}, 5)

Contracted == {"'", "r", "e", "l", " ", "a"}
GrowText ==
    /\ Open("text")
    /\ \/ ToSet(input) \cap {"r", "e", "l"} = {} /\ Grow("text", 5, Chars \ {"r", "e", "l"})
       \/ ToSet(input) \subseteq Contracted /\ Grow("text", 5, Contracted)
GrowMerges == Grow("merges", 3, MergeTokens \X MergeTokens)

\* Texts are split as the pattern of tokenizer.json says, words merged as the
\* reference merges them, added tokens found longest first, and tokens decode to
\* the bytes they were made from (c/tok.h).
TokenizerAgrees ==
    /\ area = "text" =>
         /\ SplitsAsThePattern(input)
         /\ \A added \in AddedSets :
              /\ AddedAreLongest(input, added)
              /\ DecodesToItself(input, TRUE, added, <<<< <<"a">>, <<"o">> >>>>, Vocabulary)
    /\ area = "merges" => \A w \in MergeWords : MergesAsTheReference(w, input, Vocabulary)

-----------------------------------------------------------------------------
(* Chat template: conversations, replies                                   *)

NoTools == [t |-> "missing"]
Tool(n, defer, object) == [name |-> n, defer |-> defer, object |-> object]
Toolsets ==
    {NoTools, [t |-> "scalar"], [t |-> "array", of |-> <<>>],
     [t |-> "array", of |-> <<Tool("t", FALSE, TRUE), Tool("d", TRUE, TRUE)>>],
     [t |-> "array", of |-> <<Tool("t", FALSE, FALSE)>>]}
Options(tools, clear) == [tools |-> tools, effort |-> "high", clear |-> clear, generate |-> FALSE]

Message(role, c, calls, id) ==
    [role |-> role, content |-> c, reasoning |-> "none", calls |-> calls, id |-> id]
ListOf(s) == [t |-> "items", of |-> s]
ObjectOf(of) == [t |-> "object", of |-> of]
Called(i, ids) ==
    [q \in DOMAIN ids |-> [t |-> "call", id |-> ids[q], function |-> "object",
                           name |-> <<Mark(i, 3, q)>>, arguments |-> ObjectOf(<<>>)]]
Outputs(i, ids) ==
    ListOf([j \in DOMAIN ids |->
            [t |-> "out", id |-> ids[j], output |-> Words(<<Mark(i, 2, j)>>)]])

\* Turns about the order of answers.
Turns(i) ==
    LET one == Words(<<Mark(i, 2, 1)>>) IN
    {Message(r, one, <<>>, "none") : r \in {"user", "other"}}
    \cup {Message("assistant", one, Called(i, c), "none") :
            c \in {<<>>, <<"x">>, <<"x", "y">>, <<"y", "x">>, <<"x", "x">>, <<"x", "none">>}}
    \cup {Message("tool", one, <<>>, d) : d \in {"none", "x", "y"}}
    \cup {Message("tool", Outputs(i, ds), <<>>, "none") :
            ds \in {<<"x", "y">>, <<"y", "x">>, <<"y">>}}

\* Turns about contents, thoughts, calls that cannot be rendered and references.
FaultyCalls(c) ==
    {[t |-> "scalar", id |-> "none"], [c EXCEPT !.function = "scalar"],
     [c EXCEPT !.arguments = [t |-> "missing"]],
     [c EXCEPT !.arguments = [t |-> "string", object |-> TRUE, of |-> <<>>]]}
Varied(i) ==
    LET one  == Words(<<Mark(i, 2, 1)>>)
        refs == ListOf([j \in 1..2 |-> [t |-> "ref", name |-> <<"t", "d">>[j]]])
        thought == Words(<<"<think>", Mark(i, 1, 1), "</think>", Mark(i, 2, 1)>>)
        call == Called(i, <<"x">>)[1]
        pair == [key |-> <<"a">>, val |-> Doc("1e2")]
    IN  {Message("user", c, <<>>, "none") : c \in {one, Null, Missing, [t |-> "obj"],
            ListOf(<<[t |-> "text", s |-> one.s], [t |-> "image"],
                    [t |-> "text", s |-> <<Mark(i, 2, 3)>>]>>)}}
        \cup {Message("system", [t |-> "scalar", s |-> one.s], <<>>, "none"),
              Message("other", [t |-> "obj"], <<>>, "none"),
              Message("assistant", thought, <<>>, "none"),
              [Message("assistant", one, Called(i, <<"x">>), "none") EXCEPT !.reasoning = <<Mark(i, 1, 1)>>],
              Message("tool", one, <<>>, "x"), Message("tool", refs, <<>>, "x"),
              Message("tool", ListOf(<<[t |-> "out", id |-> "x", output |-> refs]>>), <<>>, "none"),
              Message("tool", [t |-> "obj"], <<>>, "none")}
        \cup {Message("assistant", Null, <<c>>, "none") :
                c \in FaultyCalls(call) \cup
                      {[call EXCEPT !.function = "none", !.arguments = ObjectOf(<<pair>>)]}}

GrowConversation == Grow("conversation", 4, Turns(Len(input) + 1))
GrowVaried ==
    LET i == Len(input) + 1
        nameless == [Called(i, <<"x">>)[1] EXCEPT !.name = "none"]
    IN  \/ Grow("varied", 3, Varied(i))
        \/ Grow("varied", 3, {Message("assistant", Null, <<nameless>>, "none")})

\* Replies: any symbols, and after the beginning of a call pieces of calls.
GrowReply == Grow("reply", 5, {"w", " ", "</think>", "<think>", "<tool_call>", "</tool_call>"})

Key(k)    == <<"<arg_key>", k, "</arg_key>">>
ValueOf(v)    == <<"<arg_value>", v, "</arg_value>">>
CallPieces ==
    {<<"n">>, <<" ">>, <<"</tool_call>">>, Key("a"), ValueOf("1e2"), Key("b") \o ValueOf("7"),
     <<"<tool_call>", "n">> \o Key("a") \o ValueOf("\"7\"") \o <<"</tool_call>">>}
    \cup {Key("a") \o ValueOf(v) : v \in {"w", "1e2", "\"s\"", "{7}", "NaN"}}
GrowCalled ==
    \/ \E c \in {<<>>, <<"w">>} : Pick("called", <<<<"</think>">> \o c \o <<"<tool_call>">>>>)
    \/ area = "called" /\ Grow("called", 5, CallPieces)

\* Streams: characters, and "|" where one piece ends and the next begins.
GrowStream == Grow("stream", 6, {"<", "/", ">", "w", "|"})
PiecesOf(s) ==
    FoldLeft(LAMBDA ps, x : IF x = "|" THEN Append(ps, <<>>)
                            ELSE [ps EXCEPT ![Len(ps)] = Append(@, x)], <<<<>>>>, s)

Question == <<Message("user", Words(<<"hi">>), <<>>, "none")>>
Default  == Options(NoTools, FALSE)

\* A conversation shows each part of it once and in order, a reply that a client
\* sends back is what the model has seen, but for what is named, and a stream
\* sends what the completion holds (c/encoding.h, tools/server.py).
PromptsAgree ==
    /\ area = "conversation" => EachShowsOnce(input, Default)
    /\ area = "varied" =>
         \A tools \in Toolsets, clear \in BOOLEAN : EachShowsOnce(input, Options(tools, clear))
    /\ area = "reply" => ReplyIsHistory(Question, Default, input)
    /\ area = "called" => ReplyIsHistory(Question, Default, FlattenSeq(input))
    /\ area = "stream" => StreamedAsParsed(PiecesOf(input))

\* "malformed tool-call markup -> plain content" (tools/server.py:69-70).
MalformedMarkupIsContent == area = "called" => MalformedIsContent(FlattenSeq(input))

\* Every reply with calls that the gateway gives is taken as history, "so clients
\* can feed our own responses back" (tests/m7a/README.md:144-145).
OwnRepliesAreTaken == area = "called" => OwnReplyIsTaken(Question, Default, FlattenSeq(input))

-----------------------------------------------------------------------------
(* Numbers: codes, narrowing, sampling                                     *)

Weights == UNION {[1..n -> 0..2] : n \in 1..4}
PickNumber ==
    \/ \E x \in Floats : Pick("code", x)
    \/ \E u \in Patterns : Pick("bits", u)
    \/ \E p \in Weights, tp \in 0..4, u \in 0..3 :
         (\E t \in DOMAIN p : p[t] > 0) /\ Pick("draw", <<p, tp, u>>)
    \/ \E p \in [1..6 -> 1..2], u \in {0, 3} : Pick("draw", <<p, 3, u>>)

-----------------------------------------------------------------------------
(* Kernels: shapes and threads                                             *)

PickShape ==
    \/ \E M \in {1, 2, 5}, O \in {1, 4, 13, 14}, k \in 0..5, t \in {1, 3} :
         Pick("gemm", <<M, O, k, t>>)
    \/ \E O \in 1..5, k \in 1..7, t \in 1..3 : Pick("dequant", <<O, k, t>>)
    \/ \E n \in 0..60 : Pick("sum", n)

\* Rounding goes to the nearest code, ties to the even one, and a draw is one of
\* the nucleus, at its own weight (c/num.h, c/sample.h); every kernel, whatever its
\* vectors, blocks and threads, adds the products of the scalar one in the scalar
\* order, each once, so that it rounds as that one does (c/bf16.h, c/fp8blk.h,
\* c/gmhc.h).
NumbersAgree ==
    /\ area = "code" => CodesAreNearest(input)
    /\ area = "bits" => NarrowsToNearest(input)
    /\ area = "draw" => DrawsFromNucleus(input[1], input[2], input[3], 4)
    /\ area = "gemm" => GemmIsTheAnchor(input[1], input[2], input[3], input[4])
    /\ area = "dequant" => DequantIsTheAnchor(input[1], input[2], input[3])
    /\ area = "sum" => SumsEachOnce(input)

-----------------------------------------------------------------------------
(* Starting: containers with at most one thing missing                     *)

AllParts == {Top} \cup UNION {ReadOf(l) : l \in 0..L}
AllSlabs == {r \in (0..L) \X (0..E-1) : HasExperts(r[1])}
NoMtp(S0) == {p \in S0 : p[1] # L}
WholeContainer ==
    [config |-> TRUE, manifest |-> TRUE, claims |-> TRUE, parts |-> AllParts, odd |-> {},
     slabs |-> AllSlabs, bad |-> {}, broken |-> {}, main |-> L, tok |-> "ok"]
Damaged ==
    UNION {{[WholeContainer EXCEPT !.parts = AllParts \ {p}, !.odd = o] : o \in {{}, {p}}} : p \in AllParts}
    \cup {[WholeContainer EXCEPT !.slabs = AllSlabs \ {s}] : s \in AllSlabs}
    \cup {[WholeContainer EXCEPT !.bad = {s}] : s \in AllSlabs}
    \cup {[WholeContainer EXCEPT !.broken = {s}] : s \in AllSlabs}
    \cup {[WholeContainer EXCEPT !.config = FALSE], [WholeContainer EXCEPT !.manifest = FALSE]}
    \cup {[WholeContainer EXCEPT !.parts = NoMtp(AllParts), !.slabs = s] :
            s \in {AllSlabs, NoMtp(AllSlabs)}}
    \cup {WholeContainer}
PickContainer ==
    \E c \in Damaged, claims \in BOOLEAN, m \in {L - 1, L, L + 1}, t \in {"none", "ok", "bad"},
       o \in [tiered : BOOLEAN, spec : BOOLEAN, explicit : BOOLEAN] :
        Pick("container", <<[c EXCEPT !.claims = claims, !.main = m, !.tok = t], o>>)

\* An engine that starts has all it will read, and one that lacks nothing starts;
\* its cache shares the budget among the layers that use it (c/gmodel.h:620-1100,
\* c/gcache.h:832-1004, c/apus.c:765-860).
StartAgrees ==
    area = "container" =>
        /\ StartsComplete(input[1], input[2])
        /\ \A n \in L..L+1, budget \in 1..2 * E * (L + 1) : BudgetIsShared(input[1], n, budget)

-----------------------------------------------------------------------------
(* Serving: requests and what the model draws for them                     *)

StopLists == {<<>>, <<<<"a", "b">>>>, <<<<>>, <<"b", "a">>>>, <<<<"b", "a">>, <<"a", "b">>>>,
              <<<<"a">>, <<"b">>, <<"e">>>>, <<<<"b", "a", "b">>, <<"b", "b">>>>}
Bursts  == {<<1, 2, 3, 4>>, <<2, 4>>, <<3, 4>>, <<1, 4>>}
Engines == [tok : BOOLEAN, spec : BOOLEAN, eos : {{4}}, cap : {3}]
Request(cmd, i, t, m, max, stop) ==
    [id |-> 1, cmd |-> cmd, ids |-> i, text |-> t, messages |-> m, max |-> max, stop |-> stop]
PickRequest ==
    \E e \in Engines, ends \in Bursts :
      \/ \E stream \in [1..4 -> 1..4], max \in {Unset, -1, 2}, stop \in StopLists :
           Pick("request", <<e, Request("generate", "some", "absent", "absent", max, stop),
                             [stream |-> stream, ends |-> ends, fail |-> 0]>>)
      \/ \E cmd \in {"generate", "encode", "other", "junk"},
            i \in {"absent", "some", "mixed", "empty"}, t \in {"absent", "some", "empty"},
            m \in {"absent", "some", "notarray", "unrenderable"}, fail \in 0..3 :
           Pick("request", <<e, Request(cmd, i, t, m, 1, <<>>),
                             [stream |-> <<1, 2, 3, 4>>, ends |-> ends, fail |-> fail]>>)

\* Every line is answered in a shape the gateway knows, with the text the model
\* drew up to its end, its limit or a stop string, however the tokens come in
\* bursts (c/apus.c:393-883).
AnswersAgree ==
    area = "request" =>
        \A reply \in {Answer(input[1], input[2], input[3])} :
            /\ InShape(input[2], reply, 3)
            /\ TextIsRight(input[1], input[2], input[3], reply)
            /\ SameTokens(input[1], input[2], input[3], reply)

-----------------------------------------------------------------------------
AlgorithmsInit == KdaInit /\ area = "none" /\ input = <<>>

AlgorithmsNext ==
    \/ FeedAttention
    \/ GrowDocument \/ GrowString \/ GrowNumber
    \/ GrowText \/ GrowMerges
    \/ GrowConversation \/ GrowVaried \/ GrowReply \/ GrowCalled \/ GrowStream
    \/ /\ area = "none"
       /\ PickFloat \/ PickNumber \/ PickShape \/ PickContainer \/ PickRequest

AlgorithmsSpec == AlgorithmsInit /\ [][AlgorithmsNext]_allVars
=============================================================================
