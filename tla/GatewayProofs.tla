---------------------------- MODULE GatewayProofs ----------------------------
(***************************************************************************)
(* A handler of the gateway reads its own reply and leaves nothing of it   *)
(* behind, for any number of handlers and requests, replies of any length  *)
(* and a pipe of any size: GatewayInv is inductive and implies OwnReply.   *)
(***************************************************************************)
EXTENDS Gateway, SequenceTheorems, TLAPS

USE GatewayAssumption DEF GatewayAssumption

Kinds == {"once", "stream", "encode"}
Words == {"prompt", "token", "done", "error", "encoded"}
Event == [id : Nat, type : Words \cup {"partial"}]
Request == [id : Nat, cmd : {"encode", "generate"}]

TypeOK ==
    /\ pc \in [Handlers -> {"idle", "acquire", "write", "read", "drain", "release", "killed"}]
    /\ kind \in [Handlers -> Kinds] /\ rid \in [Handlers -> Nat]
    /\ got \in [Handlers -> Seq(Event)]
    /\ outcome \in [Handlers -> {"none", "reply", "dropped", "refused"}]
    /\ gone \in [Handlers -> BOOLEAN] /\ stalled \in [Handlers -> BOOLEAN]
    /\ lock \in Handlers \cup {NoOne} /\ nextId \in Nat
    /\ stdin \in Seq(Request) /\ open \in BOOLEAN /\ stdout \in Seq(Event)
    /\ engine \in [pc : {"starting", "idle", "busy", "exited"}, id : Nat, todo : Seq(Words)]
    /\ engine.pc = "busy" => engine.todo # <<>>
    /\ main \in {"serving", "closing", "over"}

\* The replies h may get.
Replies(h) == Shapes(CmdOf(kind[h]), MaxTok)

\* The daemons end together, after the engine.
Ended == Handlers # {} /\ \A h \in Handlers : pc[h] = "killed"

Together ==
    /\ main = "over" => ~Alive
    /\ \A h \in Handlers : pc[h] = "killed" => Ended /\ main = "over"

\* What h took is the beginning of the reply s, under its id.
Took(h, s) ==
    /\ Len(got[h]) <= Len(s)
    /\ \A i \in 1 .. Len(got[h]) : got[h][i] = [id |-> rid[h], type |-> s[i]]

\* ... and its client is told of a reply when that is all of it.
Own(h) ==
    /\ \E s \in Replies(h) : Took(h, s) /\ (outcome[h] = "reply" => Len(got[h]) = Len(s))
    /\ pc[h] # "idle" => outcome[h] = "none"
    /\ pc[h] \in {"acquire", "write"} => got[h] = <<>>

\* Only the holder of the lock is in the block it protects.
Exclusive == Holding = {lock} \ {NoOne}

\* Nothing is on its way, and an engine that lives waits for a request.
Clean ==
    /\ stdout = <<>>
    /\ Alive => stdin = <<>> /\ engine.pc \in {"starting", "idle"}

\* The request of h is on its way.
Asked(h) ==
    /\ pc[h] = "read" /\ got[h] = <<>> /\ stdout = <<>>
    /\ engine.pc \in {"starting", "idle"}
    /\ stdin = <<[id |-> rid[h], cmd |-> CmdOf(kind[h])]>>

\* The engine answers h with s, of which m events were taken out of the pipe.
Progress(h, s, m) ==
    /\ Took(h, s) /\ Len(got[h]) <= m
    /\ pc[h] \in {"read", "release"} => m = Len(got[h])
    /\ pc[h] = "release" <=> m = Len(s)
    /\ m + Len(stdout) <= Len(s)

\* The next ones are in the pipe; a crash may end them with half a line.
InPipe(h, s, m) ==
    \A i \in 1 .. Len(stdout) :
      \/ stdout[i] = [id |-> rid[h], type |-> s[m + i]]
      \/ ~Alive /\ i = Len(stdout) /\ stdout[i] = Partial

\* The rest is what the engine has yet to write, if it lives.
ToCome(h, s, m) ==
    Alive =>
      /\ stdin = <<>>
      /\ IF m + Len(stdout) = Len(s) THEN engine.pc = "idle"
         ELSE /\ engine.pc = "busy" /\ engine.id = rid[h]
              /\ engine.todo = SubSeq(s, m + Len(stdout) + 1, Len(s))

Answered(h, s, m) == Progress(h, s, m) /\ InPipe(h, s, m) /\ ToCome(h, s, m)

\* What the holder of the lock finds in the pipes.
Exchange(h) ==
    IF pc[h] = "write" THEN Clean
    ELSE Asked(h) \/ \E s \in Replies(h) : \E m \in 0 .. Len(s) : Answered(h, s, m)

GatewayInv ==
    /\ TypeOK
    /\ Together
    /\ ~Ended =>
         /\ \A h \in Handlers : Own(h)
         /\ Exclusive
         /\ IF lock = NoOne THEN Clean ELSE Exchange(lock)

-----------------------------------------------------------------------------
(* Replies and sequences.                                                  *)

\* The last event of a reply, and only the last, is terminal.
LEMMA ReplyFacts ==
    ASSUME NEW c \in {"encode", "generate"}, NEW s \in Shapes(c, MaxTok)
    PROVE  /\ s \in Seq(Words) /\ Len(s) \in Nat \ {0}
           /\ \A i \in 1 .. Len(s) : s[i] \in Words /\ (s[i] \in Terminal <=> i = Len(s))
  <1>2. CASE s \in {<<"error">>, <<"encoded">>}
    <2>1. PICK w \in {"error", "encoded"} : s = <<w>>
      BY <1>2
    <2>2. s \in Seq(Words) /\ Len(s) = 1 /\ s[1] = w
      BY <2>1 DEF Words
    <2> QED BY <2>2, ElementOfSeq DEF Terminal
  <1>3. CASE s \notin {<<"error">>, <<"encoded">>}
    <2>1. c = "generate"
      BY <1>3 DEF Shapes
    <2>2. PICK n \in 0 .. MaxTok, last \in {"done", "error"} :
            s = Generated(n, last)
      BY <2>1, <1>3 DEF Shapes
    <2> DEFINE toks == [i \in 1 .. n |-> "token"]
    <2>3. /\ <<"prompt">> \in Seq(Words) /\ <<last>> \in Seq(Words)
          /\ Len(<<"prompt">>) = 1 /\ Len(<<last>>) = 1
          /\ <<"prompt">>[1] = "prompt" /\ <<last>>[1] = last
      BY DEF Words
    <2>4. toks \in Seq(Words) /\ Len(toks) = n /\ \A i \in 1 .. n : toks[i] = "token"
      BY DEF Words
    <2> HIDE DEF toks
    <2> DEFINE head == <<"prompt">> \o toks
    <2>5. /\ head \in Seq(Words) /\ Len(head) = n + 1
          /\ \A i \in 1 .. n + 1 : head[i] = IF i <= 1 THEN <<"prompt">>[i] ELSE toks[i - 1]
      BY <2>3, <2>4, ConcatProperties
    <2>6. \A i \in 1 .. n + 1 : head[i] \notin Terminal
      <3> SUFFICES ASSUME NEW i \in 1 .. n + 1 PROVE head[i] \notin Terminal
        OBVIOUS
      <3>1. CASE i = 1
        BY <3>1, <2>3, <2>5 DEF Terminal
      <3>2. CASE i # 1
        BY <3>2, <2>4, <2>5 DEF Terminal
      <3> QED BY <3>1, <3>2
    <2> HIDE DEF head
    <2>7. s = head \o <<last>>
      BY <2>2 DEF head, toks, Generated
    <2>8. /\ s \in Seq(Words) /\ Len(s) = n + 2
          /\ \A i \in 1 .. n + 2 : s[i] = IF i <= n + 1 THEN head[i] ELSE <<last>>[i - (n + 1)]
      BY <2>3, <2>5, <2>7, ConcatProperties
    <2>9. \A i \in 1 .. n + 2 : s[i] \in Terminal <=> i = n + 2
      <3> SUFFICES ASSUME NEW i \in 1 .. n + 2 PROVE s[i] \in Terminal <=> i = n + 2
        OBVIOUS
      <3>1. CASE i = n + 2
        BY <3>1, <2>3, <2>8 DEF Terminal
      <3>2. CASE i # n + 2
        BY <3>2, <2>6, <2>8
      <3> QED BY <3>1, <3>2
    <2> QED BY <2>8, <2>9, ElementOfSeq
  <1> QED BY <1>2, <1>3

\* Every request may get a reply.
LEMMA SomeReply ==
    ASSUME NEW c
    PROVE  <<"error">> \in Shapes(c, MaxTok)
  BY DEF Shapes

\* A handler does not see steps that touch neither it nor the exchange.
LEMMA OwnFrame ==
    ASSUME NEW h \in Handlers, Own(h), pc'[h] = pc[h], kind'[h] = kind[h],
           rid'[h] = rid[h], got'[h] = got[h], outcome'[h] = outcome[h]
    PROVE  Own(h)'
  BY DEF Own, Replies, Took

LEMMA ExchangeFrame ==
    ASSUME NEW h \in Handlers, Exchange(h), pc'[h] = pc[h], kind'[h] = kind[h],
           rid'[h] = rid[h], got'[h] = got[h], UNCHANGED <<stdin, stdout, engine>>
    PROVE  Exchange(h)'
  BY DEF Exchange, Replies, Asked, Answered, Progress, InPipe, ToCome, Took, Clean, Alive

\* Whoever is in the block of the lock holds it.
LEMMA HolderIs ==
    ASSUME GatewayInv, NEW h \in Handlers, pc[h] \in {"write", "read", "drain", "release"}
    PROVE  /\ ~Ended /\ lock = h /\ lock # NoOne /\ Exchange(h)
           /\ \A g \in Handlers : Own(g) /\ (g # h => g \notin Holding)
  <1>1. ~Ended
    BY DEF Ended
  <1>2. h \in Holding
    BY DEF Holding
  <1> QED BY <1>1, <1>2 DEF GatewayInv, Exclusive

\* What a step that keeps the holder must show.
Block == {"write", "read", "drain", "release"}

\* A step of a handler outside the block of the lock.
LEMMA OutsideKeeps ==
    ASSUME GatewayInv, TypeOK', NEW h \in Handlers,
           pc[h] \notin Block \cup {"killed"}, pc'[h] \notin Block \cup {"killed"},
           \A g \in Handlers \ {h} :
             /\ pc'[g] = pc[g] /\ kind'[g] = kind[g] /\ rid'[g] = rid[g]
             /\ got'[g] = got[g] /\ outcome'[g] = outcome[g],
           UNCHANGED <<lock, stdin, stdout, engine, main>>, Own(h)'
    PROVE  GatewayInv'
  <1>1. ~Ended /\ ~Ended' /\ Together'
    BY DEF GatewayInv, Together, Ended, Alive
  <1>2. \A g \in Handlers : Own(g)'
    BY <1>1, OwnFrame DEF GatewayInv
  <1>3. Exclusive' /\ lock # h
    <2>1. Holding' = Holding /\ h \notin Holding
      BY DEF Holding, Block
    <2> QED BY <1>1, <2>1 DEF Exclusive, GatewayInv
  <1>4. (IF lock = NoOne THEN Clean ELSE Exchange(lock))'
    <2>1. CASE lock = NoOne
      BY <1>1, <2>1 DEF GatewayInv, Clean, Alive
    <2>2. CASE lock # NoOne
      <3>1. PICK g \in Handlers : g = lock /\ Exchange(g)
        BY <1>1, <2>2 DEF GatewayInv, TypeOK
      <3>2. Exchange(g)'
        BY <1>3, <3>1, ExchangeFrame
      <3> QED BY <2>2, <3>1, <3>2
    <2> QED BY <2>1, <2>2
  <1> QED BY <1>1, <1>2, <1>3, <1>4 DEF GatewayInv

\* A step that only a client sees.
LEMMA SameKeeps ==
    ASSUME GatewayInv, TypeOK',
           UNCHANGED <<pc, kind, rid, got, outcome, lock, stdin, stdout, engine, main>>
    PROVE  GatewayInv'
  <1>1. (Ended' <=> Ended) /\ Together'
    BY DEF GatewayInv, Together, Ended, Alive
  <1>2. ~Ended => \A g \in Handlers : Own(g)'
    BY OwnFrame DEF GatewayInv
  <1>3. ~Ended => Exclusive'
    BY DEF GatewayInv, Exclusive, Holding
  <1>4. ASSUME ~Ended PROVE (IF lock = NoOne THEN Clean ELSE Exchange(lock))'
    <2>1. CASE lock = NoOne
      BY <1>4, <2>1 DEF GatewayInv, Clean, Alive
    <2>2. CASE lock # NoOne
      <3>1. PICK g \in Handlers : g = lock /\ Exchange(g)
        BY <1>4, <2>2 DEF GatewayInv, TypeOK
      <3>2. Exchange(g)'
        BY <3>1, ExchangeFrame
      <3> QED BY <2>2, <3>1, <3>2
    <2> QED BY <2>1, <2>2
  <1> QED BY <1>1, <1>2, <1>3, <1>4 DEF GatewayInv

\* A step of the holder inside the block.
LEMMA InsideKeeps ==
    ASSUME GatewayInv, TypeOK', NEW h \in Handlers, pc[h] \in Block, pc'[h] \in Block,
           \A g \in Handlers \ {h} :
             /\ pc'[g] = pc[g] /\ kind'[g] = kind[g] /\ rid'[g] = rid[g]
             /\ got'[g] = got[g] /\ outcome'[g] = outcome[g],
           UNCHANGED <<lock, engine, main>>, Own(h)', Exchange(h)'
    PROVE  GatewayInv'
  <1>1. /\ lock = h /\ lock # NoOne
        /\ \A g \in Handlers : Own(g) /\ (g # h => g \notin Holding)
    BY HolderIs DEF Block
  <1>2. ~Ended' /\ Together'
    BY DEF GatewayInv, Together, Ended, Alive, Block
  <1>3. \A g \in Handlers : Own(g)'
    BY <1>1, OwnFrame
  <1>4. Exclusive'
    <2>1. Holding' = {h}
      BY <1>1 DEF Holding, Block
    <2> QED BY <1>1, <2>1 DEF Exclusive
  <1> QED BY <1>1, <1>2, <1>3, <1>4 DEF GatewayInv

\* The holder gives the engine back, with nothing of its exchange left.
LEMMA LetGoKeeps ==
    ASSUME GatewayInv, NEW h \in Handlers, NEW r \in {"reply", "dropped", "refused"},
           pc[h] \in Block, LetGo(h, r), UNCHANGED <<gone, stalled, nextId, open, engine, main>>,
           kind' = kind, rid' = rid, got' = got, stdin' = stdin,
           stdout' \in Seq(Event), Clean',
           r = "reply" => \E s \in Replies(h) : Took(h, s) /\ Len(got[h]) = Len(s)
    PROVE  GatewayInv'
  <1>0. /\ lock = h /\ lock # NoOne
        /\ \A g \in Handlers : Own(g) /\ (g # h => g \notin Holding)
    BY HolderIs DEF Block
  <1>1. /\ TypeOK' /\ pc'[h] = "idle" /\ outcome'[h] = r
        /\ \A g \in Handlers \ {h} : pc'[g] = pc[g] /\ outcome'[g] = outcome[g]
    BY DEF LetGo, GatewayInv, TypeOK
  <1>2. ~Ended' /\ Together'
    BY <1>1 DEF GatewayInv, Together, Ended, Alive, Block
  <1>3. ASSUME NEW g \in Handlers PROVE Own(g)'
    <2>1. CASE g = h
      <3>1. \E s \in Replies(h) : Took(h, s) /\ (r = "reply" => Len(got[h]) = Len(s))
        BY <1>0 DEF Own
      <3>2. Replies(h)' = Replies(h) /\ \A s : Took(h, s)' <=> Took(h, s)
        BY DEF Replies, Took
      <3> QED BY <1>1, <2>1, <3>1, <3>2 DEF Own
    <2>2. CASE g # h
      BY <1>0, <1>1, <2>2, OwnFrame
    <2> QED BY <2>1, <2>2
  <1>4. Exclusive' /\ lock' = NoOne
    <2>1. Holding' = {}
      BY <1>0, <1>1 DEF Holding
    <2> QED BY <2>1 DEF Exclusive, LetGo
  <1> QED BY <1>1, <1>2, <1>3, <1>4 DEF GatewayInv

\* A step of the engine.
LEMMA EngineKeeps ==
    ASSUME GatewayInv, TypeOK', UNCHANGED <<handlerVars, lock>>,
           main = "over" => main' = "over", main' = "over" => ~Alive',
           ~Ended => (IF lock = NoOne THEN Clean ELSE Exchange(lock))'
    PROVE  GatewayInv'
  <1> USE DEF handlerVars
  <1>1. (Ended' <=> Ended) /\ Together'
    BY DEF GatewayInv, Together, Ended
  <1>2. ~Ended => \A g \in Handlers : Own(g)'
    BY OwnFrame DEF GatewayInv
  <1>3. ~Ended => Exclusive'
    BY DEF GatewayInv, Exclusive, Holding
  <1> QED BY <1>1, <1>2, <1>3 DEF GatewayInv


-----------------------------------------------------------------------------
(* The initial state and the clients.                                      *)

\* At the start nobody asks and nothing is on its way.
LEMMA InitGatewayInv == Init => GatewayInv
  <1> SUFFICES ASSUME Init PROVE GatewayInv
    OBVIOUS
  <1> USE DEF Init
  <1>1. TypeOK
    BY DEF TypeOK, Kinds
  <1>2. Together /\ Clean /\ Exclusive
    BY DEF Together, Ended, Clean, Alive, Exclusive, Holding
  <1>3. ASSUME NEW h \in Handlers PROVE Own(h)
    <2>1. Took(h, <<"error">>)
      BY DEF Took
    <2> QED BY <2>1, SomeReply DEF Own, Replies
  <1> QED BY <1>1, <1>2, <1>3 DEF GatewayInv

\* Clients come, leave, and stop reading, without touching the exchange.
LEMMA ClientKeeps ==
    ASSUME GatewayInv, NEW h \in Handlers, Client(h)
    PROVE  GatewayInv'
  <1>1. CASE Arrive(h)
    <2> USE <1>1 DEF Arrive, pipes
    <2>1. TypeOK'
      BY DEF GatewayInv, TypeOK, Kinds
    <2>2. /\ pc[h] = "idle" /\ pc'[h] = "acquire" /\ got'[h] = <<>> /\ outcome'[h] = "none"
          /\ \A g \in Handlers \ {h} :
               /\ pc'[g] = pc[g] /\ kind'[g] = kind[g] /\ rid'[g] = rid[g]
               /\ got'[g] = got[g] /\ outcome'[g] = outcome[g]
      BY DEF GatewayInv, TypeOK
    <2>3. Own(h)'
      <3>1. Took(h, <<"error">>)'
        BY <2>2 DEF Took
      <3> QED BY <2>2, <3>1, SomeReply DEF Own, Replies
    <2> HIDE DEF Arrive
    <2> QED BY <2>1, <2>2, <2>3, OutsideKeeps DEF Block, Arrive
  <1>2. CASE Leave(h) \/ Stall(h) \/ Resume(h)
    <2>1. /\ TypeOK'
          /\ UNCHANGED <<pc, kind, rid, got, outcome, lock, nextId, pipes, engine, main>>
      BY <1>2 DEF Leave, Stall, Resume, GatewayInv, TypeOK, pipes
    <2> QED BY <2>1, SameKeeps DEF pipes
  <1> QED BY <1>1, <1>2 DEF Client

-----------------------------------------------------------------------------
(* The handlers.                                                           *)

\* Whoever takes the lock finds nothing on its way.
LEMMA AcquireKeeps ==
    ASSUME GatewayInv, NEW h \in Handlers, Acquire(h)
    PROVE  GatewayInv'
  <1> USE DEF Acquire, pipes
  <1>1. /\ TypeOK' /\ lock' = h /\ lock' # NoOne /\ ~Ended
        /\ pc'[h] = "write" /\ \A g \in Handlers \ {h} : pc'[g] = pc[g] /\ rid'[g] = rid[g]
    BY DEF GatewayInv, TypeOK, Ended
  <1>2. ~Ended' /\ Together'
    BY <1>1 DEF GatewayInv, Together, Ended, Alive
  <1>3. ASSUME NEW g \in Handlers PROVE Own(g)'
    <2>1. Own(g)
      BY <1>1 DEF GatewayInv
    <2>2. CASE g = h
      <3>1. Took(h, <<"error">>)' /\ got[h] = <<>> /\ outcome[h] = "none"
        BY <2>1, <2>2 DEF Own, Took
      <3> QED BY <1>1, <2>2, <3>1, SomeReply DEF Own, Replies
    <2>3. CASE g # h
      BY <1>1, <2>1, <2>3, OwnFrame
    <2> QED BY <2>2, <2>3
  <1>4. Exclusive'
    <2>1. Holding = {} /\ Holding' = {h}
      BY <1>1 DEF GatewayInv, Exclusive, Holding
    <2> QED BY <1>1, <2>1 DEF Exclusive
  <1>5. Exchange(h)'
    <2>1. Clean'
      BY <1>1 DEF GatewayInv, Clean, Alive
    <2> QED BY <1>1, <2>1 DEF Exchange
  <1> QED BY <1>1, <1>2, <1>3, <1>4, <1>5 DEF GatewayInv

\* A stream whose client left gives up before it asks.
LEMMA GiveUpKeeps ==
    ASSUME GatewayInv, NEW h \in Handlers, GiveUp(h)
    PROVE  GatewayInv'
  <1> USE DEF GiveUp, pipes
  <1>1. /\ TypeOK' /\ ~Ended /\ pc[h] = "acquire" /\ pc'[h] = "idle" /\ outcome'[h] = "dropped"
        /\ \A g \in Handlers \ {h} : pc'[g] = pc[g] /\ outcome'[g] = outcome[g]
    BY DEF GatewayInv, TypeOK, Ended
  <1>2. Own(h)'
    <2>1. Own(h)
      BY <1>1 DEF GatewayInv
    <2>2. PICK s \in Replies(h) : Took(h, s)
      BY <2>1 DEF Own
    <2>3. Replies(h)' = Replies(h) /\ Took(h, s)'
      BY <2>2 DEF Replies, Took
    <2> QED BY <1>1, <2>3 DEF Own
  <1> HIDE DEF GiveUp
  <1> QED BY <1>1, <1>2, OutsideKeeps DEF Block, GiveUp

\* The request goes into clean pipes, or is refused.
LEMMA WriteKeeps ==
    ASSUME GatewayInv, NEW h \in Handlers, Write(h)
    PROVE  GatewayInv'
  <1>1. /\ pc[h] = "write" /\ lock = h /\ Clean /\ Own(h) /\ got[h] = <<>>
    BY HolderIs DEF Write, Exchange, Own
  <1>2. CASE open /\ Alive
    <2>1. /\ pc' = [pc EXCEPT ![h] = "read"]
          /\ stdin' = <<[id |-> rid[h], cmd |-> CmdOf(kind[h])]>>
          /\ UNCHANGED <<kind, rid, got, outcome, gone, stalled, lock, nextId, open, stdout, engine, main>>
      BY <1>1, <1>2 DEF Write, Clean
    <2>2. TypeOK' /\ pc'[h] = "read" /\ \A g \in Handlers \ {h} : pc'[g] = pc[g]
      <3>1. [id |-> rid[h], cmd |-> CmdOf(kind[h])] \in Request
        BY DEF GatewayInv, TypeOK, Request, CmdOf
      <3>2. stdin' \in Seq(Request)
        BY <2>1, <3>1
      <3> QED BY <2>1, <3>2 DEF GatewayInv, TypeOK
    <2>3. Own(h)'
      BY <1>1, <2>1, <2>2 DEF Own, Replies, Took
    <2>4. Exchange(h)'
      BY <1>1, <1>2, <2>1, <2>2 DEF Exchange, Asked, Clean, Alive
    <2> QED BY <1>1, <2>1, <2>2, <2>3, <2>4, InsideKeeps DEF Block
  <1>3. CASE ~(open /\ Alive)
    <2>1. /\ LetGo(h, "refused")
          /\ UNCHANGED <<kind, rid, got, gone, stalled, nextId, stdin, open, stdout, engine, main>>
      BY <1>3 DEF Write
    <2>2. Clean' /\ stdout' \in Seq(Event)
      BY <1>1, <2>1 DEF Clean, Alive, GatewayInv, TypeOK
    <2> QED BY <1>1, <2>1, <2>2, LetGoKeeps DEF Block
  <1> QED BY <1>2, <1>3


\* What a handler asked for has replies, and they are as ReplyFacts says.
LEMMA RepliesFacts ==
    ASSUME TypeOK, NEW h \in Handlers
    PROVE  /\ CmdOf(kind[h]) \in {"encode", "generate"}
           /\ <<"error">> \in Replies(h)
           /\ \A s \in Replies(h) :
                /\ s \in Seq(Words) /\ Len(s) \in Nat \ {0}
                /\ \A i \in 1 .. Len(s) : s[i] \in Words /\ (s[i] \in Terminal <=> i = Len(s))
  <1>1. CmdOf(kind[h]) \in {"encode", "generate"}
    BY DEF CmdOf
  <1>2. ASSUME NEW s \in Replies(h)
        PROVE  /\ s \in Seq(Words) /\ Len(s) \in Nat \ {0}
               /\ \A i \in 1 .. Len(s) : s[i] \in Words /\ (s[i] \in Terminal <=> i = Len(s))
    BY <1>1, <1>2, ReplyFacts DEF Replies
  <1> QED BY <1>1, <1>2, SomeReply DEF Replies

\* The head of the pipe is the next event of the reply, and the terminal one
\* is the last thing in the pipe; or it is half a line, with nothing behind it.
LEMMA NextEvent ==
    ASSUME TypeOK, NEW h \in Handlers, NEW s \in Replies(h), NEW m \in 0 .. Len(s),
           Answered(h, s, m), stdout # <<>>
    PROVE  /\ Head(stdout) \in Event /\ Tail(stdout) \in Seq(Event)
           /\ Len(stdout) \in Nat \ {0} /\ Len(Tail(stdout)) = Len(stdout) - 1
           /\ \A i \in 1 .. Len(stdout) - 1 : Tail(stdout)[i] = stdout[i + 1]
           /\ \/ /\ Head(stdout) = [id |-> rid[h], type |-> s[m + 1]]
                 /\ Head(stdout) # Partial
                 /\ m + 1 <= Len(s)
                 /\ IsTerminal(Head(stdout)) <=> m + 1 = Len(s)
              \/ /\ Head(stdout) = Partial /\ ~IsTerminal(Head(stdout))
                 /\ Tail(stdout) = <<>> /\ ~Alive /\ m < Len(s)
  <1>1. /\ s \in Seq(Words) /\ Len(s) \in Nat \ {0}
        /\ \A i \in 1 .. Len(s) : s[i] \in Words /\ (s[i] \in Terminal <=> i = Len(s))
    BY RepliesFacts
  <1>2. /\ Head(stdout) = stdout[1] /\ Head(stdout) \in Event /\ Tail(stdout) \in Seq(Event)
        /\ Len(stdout) \in Nat \ {0} /\ Len(Tail(stdout)) = Len(stdout) - 1
        /\ \A i \in 1 .. Len(Tail(stdout)) : Tail(stdout)[i] = stdout[i + 1]
    BY HeadTailProperties, LenProperties, EmptySeq DEF TypeOK
  <1>3. m + Len(stdout) <= Len(s) /\ m + 1 \in 1 .. Len(s)
    BY <1>1, <1>2 DEF Answered, Progress
  <1>4. CASE stdout[1] = [id |-> rid[h], type |-> s[m + 1]]
    <2>1. s[m + 1] \in Words /\ (s[m + 1] \in Terminal <=> m + 1 = Len(s))
      BY <1>1, <1>3
    <2>2. stdout[1].type = s[m + 1] /\ Partial.type = "partial"
      BY <1>4 DEF Partial
    <2>3. stdout[1] # Partial
      BY <2>1, <2>2 DEF Words
    <2> QED BY <1>2, <1>3, <1>4, <2>1, <2>2, <2>3 DEF IsTerminal
  <1>5. CASE ~Alive /\ 1 = Len(stdout) /\ stdout[1] = Partial
    <2>1. ~IsTerminal(stdout[1])
      BY <1>5 DEF IsTerminal, Partial, Terminal
    <2> DEFINE rest == Tail(stdout)
    <2>2. rest \in Seq(Event) /\ Len(rest) = Len(stdout) - 1
      BY <1>2
    <2> HIDE DEF rest
    <2>3. Len(rest) = 0
      BY <1>2, <1>5, <2>2
    <2>4. rest = <<>>
      BY <2>2, <2>3, EmptySeq
    <2> QED BY <1>1, <1>2, <1>3, <1>5, <2>1, <2>4 DEF rest
  <1>6. 1 \in 1 .. Len(stdout)
    BY <1>2
  <1> QED BY <1>4, <1>5, <1>6 DEF Answered, InPipe

\* The last index of a sequence moves with its length.
LEMMA OneLess ==
    ASSUME NEW i \in Int, NEW a \in Int, NEW b, b = a - 1
    PROVE  i + 1 = a => i = b
  OBVIOUS

\* The pipe after its head was taken.
LEMMA AnsweredNext ==
    ASSUME TypeOK, NEW h \in Handlers, NEW s \in Replies(h), NEW m \in 0 .. Len(s),
           Answered(h, s, m), stdout # <<>>, Head(stdout) # Partial,
           stdout' = Tail(stdout), UNCHANGED <<kind, rid, stdin, engine>>,
           Took(h, s)', Len(got'[h]) \in Nat, Len(got'[h]) <= m + 1,
           pc'[h] \in {"read", "release"} => m + 1 = Len(got'[h]),
           pc'[h] = "release" <=> m + 1 = Len(s)
    PROVE  m + 1 \in 0 .. Len(s) /\ Answered(h, s, m + 1)'
  <1>1. /\ s \in Seq(Words) /\ Len(s) \in Nat \ {0}
    BY RepliesFacts
  <1>2. /\ Len(stdout) \in Nat \ {0} /\ Len(stdout') = Len(stdout) - 1
        /\ \A i \in 1 .. Len(stdout) - 1 : stdout'[i] = stdout[i + 1]
        /\ m + 1 <= Len(s)
    BY NextEvent
  <1>3. (m + 1) + Len(stdout') = m + Len(stdout)
    BY <1>2
  <1>4. \A i \in 1 .. Len(stdout') :
          \/ stdout'[i] = [id |-> rid[h], type |-> s[(m + 1) + i]]
          \/ ~Alive /\ i = Len(stdout') /\ stdout'[i] = Partial
    <2> SUFFICES ASSUME NEW i \in 1 .. Len(stdout')
                 PROVE  \/ stdout'[i] = [id |-> rid[h], type |-> s[(m + 1) + i]]
                        \/ ~Alive /\ i = Len(stdout') /\ stdout'[i] = Partial
      OBVIOUS
    <2>1. i + 1 \in 1 .. Len(stdout) /\ stdout'[i] = stdout[i + 1] /\ m + (i + 1) = (m + 1) + i
      BY <1>2
    <2>2. \/ stdout[i + 1] = [id |-> rid[h], type |-> s[m + (i + 1)]]
          \/ ~Alive /\ i + 1 = Len(stdout) /\ stdout[i + 1] = Partial
      BY <2>1 DEF Answered, InPipe
    <2>0. i + 1 = Len(stdout) => i = Len(stdout')
      <3>1. i \in Int /\ Len(stdout) \in Int /\ Len(stdout') = Len(stdout) - 1
        BY <1>2
      <3> QED BY <3>1, OneLess
    <2>3. s[m + (i + 1)] = s[(m + 1) + i]
      BY <2>1, Zenon
    <2> DEFINE e == stdout[i + 1]
               v == s[(m + 1) + i]
    <2>4. stdout'[i] = e
      BY <2>1
    <2>5. \/ e = [id |-> rid[h], type |-> v]
          \/ ~Alive /\ i = Len(stdout') /\ e = Partial
      BY <2>0, <2>2, <2>3
    <2> HIDE DEF e
    <2> QED BY <2>4, <2>5
  <1>5. Progress(h, s, m + 1)'
    BY <1>1, <1>2, <1>3 DEF Answered, Progress
  <1>6. InPipe(h, s, m + 1)'
    BY <1>4 DEF InPipe, Alive
  <1>7. ToCome(h, s, m + 1)'
    BY <1>3 DEF Answered, ToCome, Alive
  <1> QED BY <1>1, <1>2, <1>5, <1>6, <1>7 DEF Answered

\* The holder of the lock in its reply.
LEMMA InReply ==
    ASSUME GatewayInv, NEW h \in Handlers, pc[h] \in {"read", "drain", "release"}
    PROVE  /\ lock = h /\ Own(h) /\ outcome[h] = "none" /\ TypeOK
           /\ Asked(h) \/ \E s \in Replies(h) : \E m \in 0 .. Len(s) : Answered(h, s, m)
  BY HolderIs DEF Exchange, Own, GatewayInv

\* One event is taken: acted on, or dropped with the rest of the reply.
LEMMA ReadKeeps ==
    ASSUME GatewayInv, NEW h \in Handlers, Read(h)
    PROVE  GatewayInv'
  <1>1. /\ pc[h] = "read" /\ stdout # <<>> /\ stdout' = Tail(stdout)
        /\ UNCHANGED <<kind, rid, outcome, gone, stalled, lock, nextId, stdin, open, engine, main>>
        /\ \/ /\ Head(stdout) # Partial
              /\ got' = [got EXCEPT ![h] = Append(@, Head(stdout))]
              /\ pc' = [pc EXCEPT ![h] = IF IsTerminal(Head(stdout)) THEN "release" ELSE "read"]
           \/ /\ Head(stdout) = Partial \/ Head(stdout).type = "token"
              /\ got' = got /\ pc' = [pc EXCEPT ![h] = "drain"]
    BY DEF Read, Abandoned
  <1>2. /\ TypeOK /\ Own(h) /\ outcome[h] = "none"
        /\ Asked(h) \/ \E s \in Replies(h) : \E m \in 0 .. Len(s) : Answered(h, s, m)
    BY <1>1, InReply
  <1>3. PICK s \in Replies(h) : \E m \in 0 .. Len(s) : Answered(h, s, m)
    BY <1>1, <1>2 DEF Asked
  <1>4. PICK m \in 0 .. Len(s) : Answered(h, s, m)
    BY <1>3
  <1>5. /\ s \in Seq(Words) /\ Len(s) \in Nat \ {0} /\ Replies(h)' = Replies(h)
        /\ m = Len(got[h]) /\ m # Len(s) /\ Took(h, s) /\ got[h] \in Seq(Event)
    BY <1>1, <1>2, <1>4, RepliesFacts DEF Answered, Progress, TypeOK, Replies
  <1>6. /\ Head(stdout) \in Event /\ Tail(stdout) \in Seq(Event)
        /\ \A g \in Handlers \ {h} : pc'[g] = pc[g] /\ got'[g] = got[g]
    BY <1>1, <1>2, <1>4, NextEvent DEF TypeOK
  <1>7. CASE /\ Head(stdout) # Partial
             /\ got' = [got EXCEPT ![h] = Append(@, Head(stdout))]
             /\ pc' = [pc EXCEPT ![h] = IF IsTerminal(Head(stdout)) THEN "release" ELSE "read"]
    <2>1. /\ got'[h] = Append(got[h], Head(stdout))
          /\ pc'[h] = IF IsTerminal(Head(stdout)) THEN "release" ELSE "read"
      BY <1>2, <1>7 DEF TypeOK
    <2>2. /\ got'[h] \in Seq(Event) /\ Len(got'[h]) = m + 1
          /\ \A i \in 1 .. m : got'[h][i] = got[h][i]
          /\ got'[h][m + 1] = Head(stdout)
      BY <1>5, <1>6, <2>1, AppendProperties
    <2>3. TypeOK'
      <3>1. got' \in [Handlers -> Seq(Event)] /\ stdout' \in Seq(Event)
        BY <1>1, <1>2, <1>6, <1>7, <2>1, <2>2 DEF TypeOK
      <3> QED BY <1>1, <1>2, <1>7, <3>1 DEF TypeOK
    <2>4. /\ Head(stdout) = [id |-> rid[h], type |-> s[m + 1]] /\ m + 1 <= Len(s)
          /\ IsTerminal(Head(stdout)) <=> m + 1 = Len(s)
      BY <1>1, <1>2, <1>4, <1>7, NextEvent
    <2>5. Took(h, s)'
      <3>1. \A i \in 1 .. m : got[h][i] = [id |-> rid[h], type |-> s[i]]
        BY <1>5 DEF Took
      <3>2. \A i \in 1 .. m + 1 : got'[h][i] = [id |-> rid[h], type |-> s[i]]
        <4> SUFFICES ASSUME NEW i \in 1 .. m + 1
                     PROVE  got'[h][i] = [id |-> rid[h], type |-> s[i]]
          OBVIOUS
        <4>1. CASE i = m + 1
          BY <2>2, <2>4, <4>1
        <4>2. CASE i # m + 1
          <5>1. i \in 1 .. m
            BY <1>5, <4>2
          <5> QED BY <2>2, <3>1, <5>1
        <4> QED BY <4>1, <4>2
      <3> QED BY <1>1, <2>2, <2>4, <3>2 DEF Took
    <2>6. Own(h)'
      BY <1>1, <1>2, <1>5, <2>1, <2>5 DEF Own
    <2>7. m + 1 \in 0 .. Len(s) /\ Answered(h, s, m + 1)'
      BY <1>1, <1>2, <1>4, <1>5, <1>7, <2>1, <2>2, <2>4, <2>5, AnsweredNext
    <2>8. Exchange(h)'
      BY <1>5, <2>1, <2>7 DEF Exchange
    <2> QED BY <1>1, <1>6, <2>1, <2>3, <2>6, <2>8, InsideKeeps DEF Block
  <1>8. CASE /\ Head(stdout) = Partial \/ Head(stdout).type = "token"
             /\ got' = got /\ pc' = [pc EXCEPT ![h] = "drain"]
    <2>1. pc'[h] = "drain" /\ TypeOK'
      BY <1>1, <1>2, <1>6, <1>8 DEF TypeOK
    <2>2. Took(h, s)' /\ Own(h)'
      BY <1>1, <1>2, <1>5, <1>8, <2>1 DEF Own, Took
    <2>3. \E k \in 0 .. Len(s) : Answered(h, s, k)'
      <3>1. CASE Head(stdout) = Partial
        <4>1. stdout' = <<>> /\ ~Alive
          BY <1>1, <1>2, <1>4, <3>1, NextEvent
        <4>2. Answered(h, s, m)'
          <5>1. Len(stdout') = 0 /\ Len(got[h]) \in Nat /\ ~Alive'
            <6>1. Len(stdout') = 0
              BY <4>1
            <6>2. Len(got[h]) \in Nat
              BY <1>5, LenProperties
            <6> QED BY <1>1, <4>1, <6>1, <6>2 DEF Alive
          <5>2. Progress(h, s, m)'
            BY <1>5, <1>8, <2>1, <2>2, <5>1 DEF Progress
          <5>3. InPipe(h, s, m)' /\ ToCome(h, s, m)'
            BY <5>1 DEF InPipe, ToCome
          <5> QED BY <5>2, <5>3 DEF Answered
        <4> QED BY <4>2
      <3>2. CASE Head(stdout) # Partial
        <4>1. ~IsTerminal(Head(stdout))
          BY <1>8, <3>2 DEF IsTerminal, Terminal
        <4>2. m + 1 # Len(s) /\ m + 1 <= Len(s)
          BY <1>1, <1>2, <1>4, <3>2, <4>1, NextEvent
        <4>3. m + 1 \in 0 .. Len(s) /\ Answered(h, s, m + 1)'
          BY <1>1, <1>2, <1>4, <1>5, <1>8, <2>1, <2>2, <3>2, <4>2, AnsweredNext
        <4> QED BY <4>3
      <3> QED BY <3>1, <3>2
    <2>4. Exchange(h)'
      BY <1>5, <2>1, <2>3 DEF Exchange
    <2> QED BY <1>1, <1>6, <2>1, <2>2, <2>4, <1>8, InsideKeeps DEF Block
  <1> QED BY <1>1, <1>7, <1>8


\* After the terminal event nothing of the reply is left.
LEMMA ReleaseKeeps ==
    ASSUME GatewayInv, NEW h \in Handlers, Release(h)
    PROVE  GatewayInv'
  <1>1. /\ pc[h] = "release" /\ LetGo(h, "reply")
        /\ UNCHANGED <<kind, rid, got, gone, stalled, nextId, stdin, open, stdout, engine, main>>
    BY DEF Release, pipes
  <1>2. TypeOK /\ \E s \in Replies(h) : \E m \in 0 .. Len(s) : Answered(h, s, m)
    BY <1>1, InReply DEF Asked
  <1>3. PICK s \in Replies(h) : \E m \in 0 .. Len(s) : Answered(h, s, m)
    BY <1>2
  <1>4. PICK m \in 0 .. Len(s) : Answered(h, s, m)
    BY <1>3
  <1>5. Len(s) \in Nat \ {0} /\ Len(stdout) \in Nat /\ stdout \in Seq(Event)
    BY <1>2, RepliesFacts, LenProperties DEF TypeOK
  <1>6. Took(h, s) /\ Len(got[h]) = Len(s) /\ m = Len(s) /\ Len(stdout) = 0
    BY <1>1, <1>4, <1>5 DEF Answered, Progress
  <1>7. Clean'
    <2>1. stdout = <<>>
      BY <1>5, <1>6, EmptySeq
    <2>2. Alive => stdin = <<>> /\ engine.pc = "idle"
      BY <1>4, <1>5, <1>6 DEF Answered, ToCome
    <2> QED BY <1>1, <2>1, <2>2 DEF Clean, Alive
  <1> QED BY <1>1, <1>5, <1>6, <1>7, LetGoKeeps DEF Block

\* One event of the rest of the reply is dropped, and the last one ends it.
LEMMA DrainKeeps ==
    ASSUME GatewayInv, NEW h \in Handlers, Drain(h)
    PROVE  GatewayInv'
  <1>1. /\ pc[h] = "drain" /\ stdout # <<>> /\ stdout' = Tail(stdout)
        /\ UNCHANGED <<kind, rid, got, gone, stalled, nextId, stdin, open, engine, main>>
        /\ IF IsTerminal(Head(stdout)) THEN LetGo(h, "dropped") ELSE UNCHANGED <<pc, outcome, lock>>
    BY DEF Drain
  <1>2. /\ TypeOK /\ lock = h /\ Own(h) /\ outcome[h] = "none"
        /\ \E s \in Replies(h) : \E m \in 0 .. Len(s) : Answered(h, s, m)
    BY <1>1, InReply DEF Asked
  <1>3. PICK s \in Replies(h) : \E m \in 0 .. Len(s) : Answered(h, s, m)
    BY <1>2
  <1>4. PICK m \in 0 .. Len(s) : Answered(h, s, m)
    BY <1>3
  <1>5. /\ Len(s) \in Nat \ {0} /\ Replies(h)' = Replies(h) /\ got[h] \in Seq(Event)
        /\ Len(got[h]) \in Nat /\ Took(h, s) /\ Took(h, s)' /\ Len(got[h]) <= m /\ m # Len(s)
    <2>1. Len(s) \in Nat \ {0} /\ Replies(h)' = Replies(h) /\ got[h] \in Seq(Event)
      BY <1>1, <1>2, RepliesFacts DEF TypeOK, Replies
    <2>2. Took(h, s) /\ Len(got[h]) <= m /\ m # Len(s)
      BY <1>1, <1>4 DEF Answered, Progress
    <2>3. Took(h, s)'
      BY <1>1, <2>2 DEF Took
    <2> QED BY <2>1, <2>2, <2>3, LenProperties
  <1>6. Tail(stdout) \in Seq(Event) /\ Len(stdout) \in Nat \ {0}
    BY <1>1, <1>2, <1>4, NextEvent
  <1>7. CASE IsTerminal(Head(stdout))
    <2>1. m + 1 = Len(s)
      BY <1>1, <1>2, <1>4, <1>7, NextEvent
    <2>2. m + Len(stdout) <= Len(s) /\ Len(Tail(stdout)) = Len(stdout) - 1
      BY <1>1, <1>2, <1>4, NextEvent DEF Answered, Progress
    <2>3. Len(stdout) = 1
      BY <1>5, <1>6, <2>1, <2>2
    <2>4. stdout' = <<>>
      <3> DEFINE rest == Tail(stdout)
      <3>1. rest \in Seq(Event) /\ Len(rest) = Len(stdout) - 1
        BY <1>6, <2>2
      <3> HIDE DEF rest
      <3>2. Len(rest) = 0
        BY <2>3, <3>1
      <3>3. rest = <<>>
        BY <3>1, <3>2, EmptySeq
      <3> QED BY <1>1, <3>3 DEF rest
    <2>5. Alive => stdin = <<>> /\ engine.pc = "idle"
      BY <1>4, <1>5, <2>1, <2>3 DEF Answered, ToCome
    <2>6. Clean' /\ stdout' \in Seq(Event)
      BY <1>1, <1>6, <2>4, <2>5 DEF Clean, Alive
    <2> QED BY <1>1, <1>7, <2>6, LetGoKeeps DEF Block
  <1>8. CASE ~IsTerminal(Head(stdout))
    <2>1. TypeOK' /\ Own(h)'
      BY <1>1, <1>2, <1>5, <1>6, <1>8 DEF TypeOK, Own
    <2>2. \E k \in 0 .. Len(s) : Answered(h, s, k)'
      <3>1. CASE Head(stdout) = Partial
        <4>1. stdout' = <<>> /\ ~Alive
          BY <1>1, <1>2, <1>4, <3>1, NextEvent
        <4>2. Len(stdout') = 0 /\ ~Alive'
          BY <1>1, <4>1 DEF Alive
        <4>3. Progress(h, s, m)'
          <5>1. got'[h] = got[h] /\ pc'[h] = "drain"
            BY <1>1, <1>8
          <5> QED BY <1>5, <4>2, <5>1 DEF Progress
        <4>4. InPipe(h, s, m)' /\ ToCome(h, s, m)'
          BY <4>2 DEF InPipe, ToCome
        <4> QED BY <4>3, <4>4 DEF Answered
      <3>2. CASE Head(stdout) # Partial
        <4>1. m + 1 # Len(s) /\ m + 1 <= Len(s)
          BY <1>1, <1>2, <1>4, <1>8, <3>2, NextEvent
        <4>2. got'[h] = got[h] /\ pc'[h] = "drain"
          BY <1>1, <1>8
        <4>3. Len(got'[h]) \in Nat /\ Len(got'[h]) <= m + 1
          BY <1>5, <4>2
        <4>4. m + 1 \in 0 .. Len(s) /\ Answered(h, s, m + 1)'
          BY <1>1, <1>2, <1>4, <1>5, <3>2, <4>1, <4>2, <4>3, AnsweredNext
        <4> QED BY <4>4
      <3> QED BY <3>1, <3>2
    <2>3. Exchange(h)'
      BY <1>1, <1>5, <1>8, <2>2 DEF Exchange
    <2> QED BY <1>1, <1>8, <2>1, <2>3, InsideKeeps DEF Block
  <1> QED BY <1>7, <1>8

\* The engine is gone and its output is read to the end.
LEMMA EndKeeps ==
    ASSUME GatewayInv, NEW h \in Handlers, ReadEnd(h) \/ DrainEnd(h)
    PROVE  GatewayInv'
  <1>1. PICK r \in {"refused", "dropped"} :
          /\ pc[h] \in {"read", "drain"} /\ stdout = <<>> /\ ~Alive /\ LetGo(h, r)
          /\ UNCHANGED <<kind, rid, got, gone, stalled, nextId, stdin, open, stdout, engine, main>>
    BY DEF ReadEnd, DrainEnd, DrainEnds, pipes
  <1>2. Clean' /\ stdout' \in Seq(Event)
    BY <1>1 DEF Clean, Alive, GatewayInv, TypeOK
  <1> QED BY <1>1, <1>2, LetGoKeeps DEF Block

-----------------------------------------------------------------------------
(* The engine and the main thread.                                         *)

\* What an engine that ends leaves behind: clean pipes stay so, and what is in
\* them is still the beginning of a reply.
LEMMA EngineGone ==
    ASSUME GatewayInv, TypeOK', UNCHANGED <<handlerVars, lock>>, ~Alive',
           main = "over" => main' = "over",
           \/ stdout' = stdout
           \/ Alive /\ engine.pc = "busy" /\ stdout' = Append(stdout, Partial)
    PROVE  GatewayInv'
  <1> USE DEF handlerVars
  <1>1. ASSUME ~Ended, lock = NoOne PROVE Clean'
    BY <1>1 DEF GatewayInv, Clean
  <1>2. ASSUME ~Ended, NEW h \in Handlers, lock = h PROVE Exchange(h)'
    <2>1. TypeOK /\ Exchange(h) /\ Replies(h)' = Replies(h)
      BY <1>2 DEF GatewayInv, Replies
    <2>2. CASE pc[h] = "write"
      BY <2>1, <2>2 DEF Exchange, Clean
    <2>3. CASE pc[h] # "write" /\ Asked(h)
      <3>1. Took(h, <<"error">>)' /\ <<"error">> \in Replies(h)
        BY <2>1, <2>3, RepliesFacts DEF Asked, Took
      <3>2. Answered(h, <<"error">>, 0)'
        BY <2>3, <3>1 DEF Asked, Answered, Progress, InPipe, ToCome
      <3> QED BY <2>1, <2>3, <3>1, <3>2 DEF Exchange
    <2>4. CASE pc[h] # "write" /\ ~Asked(h)
      <3>1. PICK s \in Replies(h) : \E m \in 0 .. Len(s) : Answered(h, s, m)
        BY <2>1, <2>4 DEF Exchange
      <3>2. PICK m \in 0 .. Len(s) : Answered(h, s, m)
        BY <3>1
      <3>3. Len(s) \in Nat \ {0} /\ Len(stdout) \in Nat
        BY <2>1, RepliesFacts, LenProperties DEF TypeOK
      <3>4. Answered(h, s, m)'
        <4>1. CASE stdout' = stdout
          BY <3>2, <4>1 DEF Answered, Progress, InPipe, ToCome, Took
        <4>2. CASE Alive /\ engine.pc = "busy" /\ stdout' = Append(stdout, Partial)
          <5>1. m + Len(stdout) < Len(s)
            BY <3>2, <3>3, <4>2 DEF Answered, Progress, ToCome
          <5>2. /\ Len(stdout') = Len(stdout) + 1
                /\ \A i \in 1 .. Len(stdout) : stdout'[i] = stdout[i]
                /\ stdout'[Len(stdout) + 1] = Partial
            <6>1. Partial \in Event
              BY DEF Partial, Event
            <6> QED BY <2>1, <4>2, <6>1, AppendProperties DEF TypeOK
          <5>3. Progress(h, s, m)'
            BY <3>2, <3>3, <5>1, <5>2 DEF Answered, Progress, Took
          <5>4. InPipe(h, s, m)'
            BY <3>2, <3>3, <4>2, <5>2 DEF Answered, InPipe
          <5> QED BY <5>3, <5>4 DEF Answered, ToCome
        <4> QED BY <4>1, <4>2
      <3> QED BY <2>1, <2>4, <3>4 DEF Exchange
    <2> QED BY <2>2, <2>3, <2>4
  <1>3. ASSUME ~Ended PROVE (IF lock = NoOne THEN Clean ELSE Exchange(lock))'
    <2>1. CASE lock = NoOne
      BY <1>1, <1>3, <2>1
    <2>2. CASE lock # NoOne
      <3>1. PICK h \in Handlers : lock = h
        BY <2>2 DEF GatewayInv, TypeOK
      <3>2. Exchange(h)'
        BY <1>2, <1>3, <3>1
      <3> QED BY <2>2, <3>1, <3>2
    <2> QED BY <2>1, <2>2
  <1> QED BY <1>3, EngineKeeps

\* An engine that starts leaves the pipes alone.
LEMMA EngineStartKeeps ==
    ASSUME GatewayInv, EngineStart
    PROVE  GatewayInv'
  <1>1. /\ engine.pc = "starting" /\ Alive
        /\ UNCHANGED <<handlerVars, lock, nextId, stdin, open, stdout, main>>
    BY DEF EngineStart, pipes, Alive
  <1>2. CASE engine' = [pc |-> "exited", id |-> 0, todo |-> <<>>]
    <2>1. ~Alive' /\ TypeOK'
      BY <1>1, <1>2 DEF Alive, GatewayInv, TypeOK, handlerVars
    <2> QED BY <1>1, <2>1, EngineGone
  <1>3. CASE engine' = [pc |-> "idle", id |-> 0, todo |-> <<>>]
    <2> USE DEF handlerVars
    <2>1. Alive' /\ TypeOK' /\ engine'.pc = "idle" /\ main # "over"
      BY <1>1, <1>3 DEF Alive, GatewayInv, TypeOK, Together
    <2>2. ASSUME ~Ended PROVE (IF lock = NoOne THEN Clean ELSE Exchange(lock))'
      <3>1. CASE lock = NoOne
        BY <1>1, <2>1, <2>2, <3>1 DEF GatewayInv, Clean, Alive
      <3>2. CASE lock # NoOne
        <4>1. PICK h \in Handlers : lock = h /\ Exchange(h)
          BY <2>2, <3>2 DEF GatewayInv, TypeOK
        <4>2. ASSUME NEW s, NEW m, Answered(h, s, m) PROVE FALSE
          BY <1>1, <4>2 DEF Answered, ToCome
        <4>3. Exchange(h)'
          BY <1>1, <2>1, <4>1, <4>2 DEF Exchange, Asked, Clean, Alive
        <4> QED BY <1>1, <3>2, <4>1, <4>3
      <3> QED BY <3>1, <3>2
    <2> QED BY <1>1, <2>1, <2>2, EngineKeeps
  <1> QED BY <1>2, <1>3 DEF EngineStart, EngineIs


\* The engine takes a request: all of a reply to it is to come.
LEMMA EngineReadKeeps ==
    ASSUME GatewayInv, EngineRead
    PROVE  GatewayInv'
  <1>1. /\ engine.pc = "idle" /\ Alive /\ stdin # <<>> /\ stdin' = Tail(stdin)
        /\ UNCHANGED <<handlerVars, lock, nextId, open, stdout, main>>
    BY DEF EngineRead, Alive
  <1>2. PICK s \in Shapes(Head(stdin).cmd, MaxTok) :
          engine' = [pc |-> "busy", id |-> Head(stdin).id, todo |-> s]
    BY DEF EngineRead, EngineIs
  <1>3. /\ Head(stdin) \in Request /\ Tail(stdin) \in Seq(Request)
        /\ Head(stdin).cmd \in {"encode", "generate"} /\ Head(stdin).id \in Nat
    <2>1. stdin \in Seq(Request)
      BY DEF GatewayInv, TypeOK
    <2>2. Head(stdin) \in Request /\ Tail(stdin) \in Seq(Request)
      BY <1>1, <2>1, HeadTailProperties
    <2> QED BY <2>2 DEF Request
  <1>4. s \in Seq(Words) /\ Len(s) \in Nat \ {0}
    BY <1>3, ReplyFacts
  <1>5. s # <<>>
    BY <1>4
  <1>6. /\ TypeOK' /\ Alive' /\ main # "over"
        /\ engine'.pc = "busy" /\ engine'.id = Head(stdin).id /\ engine'.todo = s
    BY <1>1, <1>2, <1>3, <1>4, <1>5 DEF GatewayInv, TypeOK, Together, Alive, handlerVars
  <1>7. ASSUME ~Ended PROVE (IF lock = NoOne THEN Clean ELSE Exchange(lock))'
    <2>1. lock # NoOne
      BY <1>1, <1>7 DEF GatewayInv, Clean
    <2>2. PICK h \in Handlers : lock = h /\ Exchange(h)
      BY <1>7, <2>1 DEF GatewayInv, TypeOK
    <2>3. Asked(h)
      BY <1>1, <2>2 DEF Exchange, Clean, Answered, ToCome
    <2>4. /\ pc'[h] = "read" /\ got'[h] = <<>> /\ stdout' = <<>>
          /\ Head(stdin) = [id |-> rid[h], cmd |-> CmdOf(kind[h])] /\ stdin' = <<>>
      BY <1>1, <2>3 DEF Asked, handlerVars
    <2>5. s \in Replies(h)' /\ engine'.id = rid'[h]
      BY <1>1, <1>6, <2>4 DEF Replies, handlerVars
    <2>6. Progress(h, s, 0)' /\ InPipe(h, s, 0)'
      BY <1>4, <2>4 DEF Progress, InPipe, Took
    <2>7. ToCome(h, s, 0)'
      <3>1. 0 + Len(stdout') = 0
        BY <2>4
      <3>2. SubSeq(s, 0 + Len(stdout') + 1, Len(s)) = s
        BY <1>4, <3>1, SubSeqFull
      <3> QED BY <1>4, <1>6, <2>4, <2>5, <3>1, <3>2 DEF ToCome
    <2>8. Exchange(h)'
      BY <1>4, <2>4, <2>5, <2>6, <2>7 DEF Exchange, Answered
    <2> QED BY <1>1, <2>1, <2>2, <2>8
  <1> QED BY <1>1, <1>6, <1>7, EngineKeeps

\* The engine writes the next event of its reply.
LEMMA EngineEmitKeeps ==
    ASSUME GatewayInv, EngineEmit
    PROVE  GatewayInv'
  <1> DEFINE ev == [id |-> engine.id, type |-> Head(engine.todo)]
  <1>1. /\ engine.pc = "busy" /\ Alive /\ stdout' = Append(stdout, ev)
        /\ UNCHANGED <<handlerVars, lock, nextId, stdin, open, main>>
        /\ engine' = IF Len(engine.todo) = 1 THEN [pc |-> "idle", id |-> 0, todo |-> <<>>]
                     ELSE [pc |-> "busy", id |-> engine.id, todo |-> Tail(engine.todo)]
    BY DEF EngineEmit, EngineIs, Alive
  <1>2. /\ TypeOK /\ engine.todo \in Seq(Words) /\ engine.todo # <<>> /\ engine.id \in Nat
        /\ stdout \in Seq(Event)
    BY <1>1 DEF GatewayInv, TypeOK
  <1>3. /\ Head(engine.todo) = engine.todo[1] /\ Head(engine.todo) \in Words
        /\ Tail(engine.todo) \in Seq(Words)
        /\ Len(engine.todo) \in Nat \ {0} /\ Len(Tail(engine.todo)) = Len(engine.todo) - 1
    BY <1>2, HeadTailProperties, EmptySeq
  <1>4. Len(engine.todo) # 1 => Tail(engine.todo) # <<>>
    <2> DEFINE rest == Tail(engine.todo)
    <2>1. Len(rest) = Len(engine.todo) - 1
      BY <1>3
    <2> HIDE DEF rest
    <2>2. Len(engine.todo) # 1 => Len(rest) # 0
      BY <1>3, <2>1
    <2>3. rest = <<>> => Len(rest) = 0
      OBVIOUS
    <2> QED BY <2>2, <2>3 DEF rest
  <1>5. ev \in Event
    BY <1>2, <1>3 DEF Event
  <1> HIDE DEF ev
  <1>6. /\ stdout' \in Seq(Event) /\ Len(stdout) \in Nat /\ Len(stdout') = Len(stdout) + 1
        /\ \A i \in 1 .. Len(stdout) : stdout'[i] = stdout[i]
        /\ stdout'[Len(stdout) + 1] = ev
    BY <1>1, <1>2, <1>5, AppendProperties, LenProperties
  <1>7. TypeOK' /\ Alive' /\ main # "over"
    <2>1. /\ engine' \in [pc : {"starting", "idle", "busy", "exited"}, id : Nat, todo : Seq(Words)]
          /\ engine'.pc # "exited" /\ (engine'.pc = "busy" => engine'.todo # <<>>)
      BY <1>1, <1>2, <1>3, <1>4
    <2> QED BY <1>1, <1>6, <2>1 DEF GatewayInv, TypeOK, Together, Alive, handlerVars
  <1>8. ASSUME ~Ended PROVE (IF lock = NoOne THEN Clean ELSE Exchange(lock))'
    <2>1. lock # NoOne
      BY <1>1, <1>8 DEF GatewayInv, Clean
    <2>2. PICK h \in Handlers : lock = h /\ Exchange(h)
      BY <1>8, <2>1 DEF GatewayInv, TypeOK
    <2>3. /\ ~Asked(h) /\ pc[h] # "write" /\ pc'[h] # "write"
          /\ Replies(h)' = Replies(h) /\ rid'[h] = rid[h]
      BY <1>1, <2>2 DEF Exchange, Clean, Asked, Replies, handlerVars
    <2>4. PICK s \in Replies(h) : \E m \in 0 .. Len(s) : Answered(h, s, m)
      BY <2>2, <2>3 DEF Exchange
    <2>5. PICK m \in 0 .. Len(s) : Answered(h, s, m)
      BY <2>4
    <2>6. s \in Seq(Words) /\ Len(s) \in Nat \ {0}
      BY <1>2, RepliesFacts
    <2> DEFINE k == m + Len(stdout) + 1
    <2>7. /\ k \in 1 .. Len(s) /\ k = m + Len(stdout')
          /\ stdin = <<>> /\ engine.id = rid[h] /\ engine.todo = SubSeq(s, k, Len(s))
      BY <1>1, <1>6, <2>5, <2>6 DEF Answered, Progress, ToCome
    <2>8. /\ ev = [id |-> rid[h], type |-> s[k]]
          /\ Tail(engine.todo) = SubSeq(s, k + 1, Len(s))
          /\ Len(engine.todo) = Len(s) - k + 1
      <3>1. /\ Head(engine.todo) = s[k] /\ Tail(engine.todo) = SubSeq(s, k + 1, Len(s))
        BY <2>6, <2>7, HeadTailOfSubSeq
      <3>2. \A i \in k .. Len(s) : s[i] \in Words
        BY <2>6, <2>7, ElementOfSeq
      <3>3. Len(SubSeq(s, k, Len(s))) = IF k <= Len(s) THEN Len(s) - k + 1 ELSE 0
        BY <2>6, <2>7, <3>2, SubSeqProperties
      <3> QED BY <2>6, <2>7, <3>1, <3>3 DEF ev
    <2> HIDE DEF k
    <2>9. Progress(h, s, m)'
      <3>1. Took(h, s)' /\ got'[h] = got[h] /\ pc'[h] = pc[h]
        BY <1>1, <2>5 DEF Answered, Progress, Took, handlerVars
      <3>2. m + Len(stdout') <= Len(s)
        BY <2>6, <2>7
      <3> QED BY <2>5, <3>1, <3>2 DEF Answered, Progress
    <2>10. InPipe(h, s, m)'
      <3>1. \A i \in 1 .. Len(stdout) : stdout[i] = [id |-> rid[h], type |-> s[m + i]]
        BY <1>1, <2>5 DEF Answered, InPipe
      <3>2. \A i \in 1 .. Len(stdout') : stdout'[i] = [id |-> rid[h], type |-> s[m + i]]
        <4> SUFFICES ASSUME NEW i \in 1 .. Len(stdout')
                     PROVE  stdout'[i] = [id |-> rid[h], type |-> s[m + i]]
          OBVIOUS
        <4>1. CASE i = Len(stdout) + 1
          BY <1>6, <2>7, <2>8, <4>1
        <4>2. CASE i # Len(stdout) + 1
          <5>1. i \in 1 .. Len(stdout)
            BY <1>6, <4>2
          <5> QED BY <1>6, <3>1, <5>1
        <4> QED BY <4>1, <4>2
      <3> QED BY <2>3, <3>2 DEF InPipe
    <2>11. ToCome(h, s, m)'
      <3>1. CASE Len(engine.todo) = 1
        BY <1>1, <2>6, <2>7, <2>8, <3>1 DEF ToCome
      <3>2. CASE Len(engine.todo) # 1
        BY <1>1, <2>3, <2>6, <2>7, <2>8, <3>2 DEF ToCome
      <3> QED BY <3>1, <3>2
    <2>12. Exchange(h)'
      BY <2>3, <2>9, <2>10, <2>11 DEF Exchange, Answered
    <2> QED BY <1>1, <2>1, <2>2, <2>12
  <1> QED BY <1>1, <1>7, <1>8, EngineKeeps

\* The engine ends, at the end of its input, by a crash or by a kill.
LEMMA EngineExitKeeps ==
    ASSUME GatewayInv, EngineEnd \/ EngineCrash \/ Kill
    PROVE  GatewayInv'
  <1>1. /\ engine' = [pc |-> "exited", id |-> 0, todo |-> <<>>]
        /\ UNCHANGED <<handlerVars, lock, nextId, stdin, open>>
        /\ main' \in {main, "over"} /\ (main = "over" => main' = "over")
        /\ \/ stdout' = stdout
           \/ Alive /\ engine.pc = "busy" /\ stdout' = Append(stdout, Partial)
    BY DEF EngineEnd, EngineCrash, Kill, TimeIsUp, EngineIs, pipes
  <1>2. stdout' \in Seq(Event)
    <2>1. Partial \in Event
      BY DEF Partial, Event
    <2>2. stdout \in Seq(Event)
      BY DEF GatewayInv, TypeOK
    <2>3. Append(stdout, Partial) \in Seq(Event)
      BY <2>1, <2>2, AppendProperties
    <2> QED BY <1>1, <2>2, <2>3
  <1>3. TypeOK' /\ ~Alive'
    BY <1>1, <1>2 DEF GatewayInv, TypeOK, Alive, handlerVars
  <1> QED BY <1>1, <1>3, EngineGone

\* The main thread closes the pipe, and ends when the engine did.
LEMMA MainKeeps ==
    ASSUME GatewayInv, Close \/ Waited
    PROVE  GatewayInv'
  <1>1. /\ UNCHANGED <<pc, kind, rid, got, outcome, gone, stalled, lock, nextId, stdin, stdout, engine>>
        /\ open' \in {open, FALSE} /\ main # "over"
        /\ \/ main' = "closing"
           \/ main' = "over" /\ ~Alive
    BY DEF Close, Waited, handlerVars, pipes
  <1>2. TypeOK'
    BY <1>1 DEF GatewayInv, TypeOK
  <1>3. ASSUME ~Ended PROVE (IF lock = NoOne THEN Clean ELSE Exchange(lock))'
    <2>1. CASE lock = NoOne
      BY <1>1, <1>3, <2>1 DEF GatewayInv, Clean, Alive
    <2>2. CASE lock # NoOne
      <3>1. PICK g \in Handlers : g = lock /\ Exchange(g)
        BY <1>3, <2>2 DEF GatewayInv, TypeOK
      <3>2. Exchange(g)'
        BY <1>1, <3>1, ExchangeFrame
      <3> QED BY <1>1, <2>2, <3>1, <3>2
    <2> QED BY <2>1, <2>2
  <1> QED BY <1>1, <1>2, <1>3, EngineKeeps DEF Alive, handlerVars

\* The threads end with the process.
LEMMA ExitKeeps ==
    ASSUME GatewayInv, Exit
    PROVE  GatewayInv'
  <1>1. Ended' /\ TypeOK' /\ Together'
    BY DEF Exit, pipes, GatewayInv, TypeOK, Ended, Together, Alive
  <1> QED BY <1>1 DEF GatewayInv

-----------------------------------------------------------------------------
(* The theorems.                                                           *)

\* Every step of the gateway, its clients and its engine.
LEMMA NextKeeps ==
    ASSUME GatewayInv, [Next]_vars
    PROVE  GatewayInv'
  <1>1. ASSUME NEW h \in Handlers, Client(h) PROVE GatewayInv'
    BY <1>1, ClientKeeps
  <1>2. ASSUME NEW h \in Handlers, Handler(h) PROVE GatewayInv'
    BY <1>2, AcquireKeeps, GiveUpKeeps, WriteKeeps, ReadKeeps, ReleaseKeeps, DrainKeeps,
       EndKeeps DEF Handler
  <1>3. ASSUME Engine \/ EngineCrash PROVE GatewayInv'
    BY <1>3, EngineStartKeeps, EngineReadKeeps, EngineEmitKeeps, EngineExitKeeps DEF Engine
  <1>4. ASSUME Close \/ MainThread PROVE GatewayInv'
    BY <1>4, MainKeeps, EngineExitKeeps, ExitKeeps DEF MainThread
  <1>5. CASE UNCHANGED vars
    <2>1. TypeOK'
      BY <1>5 DEF vars, handlerVars, pipes, GatewayInv, TypeOK
    <2> QED BY <1>5, <2>1, SameKeeps DEF vars, handlerVars, pipes
  <1> QED BY <1>1, <1>2, <1>3, <1>4, <1>5 DEF Next

\* A beginning in the sense of Took is a prefix.
LEMMA TookIsPrefix ==
    ASSUME TypeOK, NEW h \in Handlers, NEW s \in Replies(h), Took(h, s)
    PROVE  LET types == [i \in DOMAIN got[h] |-> got[h][i].type] IN
           /\ IsPrefix(types, s)
           /\ Len(got[h]) = Len(s) => types = s
           /\ \A i \in DOMAIN got[h] : got[h][i].id = rid[h]
  <1>0. \A i \in 1 .. Len(got[h]) : got[h][i].type = s[i] /\ got[h][i].id = rid[h]
    <2> SUFFICES ASSUME NEW i \in 1 .. Len(got[h])
                 PROVE  got[h][i].type = s[i] /\ got[h][i].id = rid[h]
      OBVIOUS
    <2>1. got[h][i] = [id |-> rid[h], type |-> s[i]]
      BY DEF Took
    <2> QED BY <2>1
  <1> DEFINE types == [i \in DOMAIN got[h] |-> got[h][i].type]
             n == Len(got[h])
  <1>1. s \in Seq(Words) /\ Len(s) \in Nat /\ \A i \in 1 .. Len(s) : s[i] \in Words
    BY RepliesFacts
  <1>2. n \in Nat /\ n <= Len(s) /\ DOMAIN got[h] = 1 .. n
    BY LenProperties DEF TypeOK, Took
  <1> HIDE DEF n
  <1>3. types = [i \in 1 .. n |-> s[i]] /\ \A i \in DOMAIN got[h] : got[h][i].id = rid[h]
    <2>1. \A i \in 1 .. n : got[h][i].type = s[i] /\ got[h][i].id = rid[h]
      BY <1>0 DEF n
    <2> QED BY <1>2, <2>1
  <1> HIDE DEF types
  <1>4. types \in Seq(Words) /\ Len(types) = n /\ \A i \in 1 .. n : types[i] = s[i]
    BY <1>1, <1>2, <1>3
  <1>5. /\ SubSeq(s, 1, n) \in Seq(Words) /\ Len(SubSeq(s, 1, n)) = n
        /\ \A i \in 1 .. n : SubSeq(s, 1, n)[i] = s[i]
    BY <1>1, <1>2, SubSeqProperties
  <1>6. types = SubSeq(s, 1, n)
    BY <1>4, <1>5, SeqEqual
  <1>7. SubSeq(types, 1, Len(types)) = types
    BY <1>4, SubSeqFull
  <1>8. n = Len(s) => types = s
    BY <1>1, <1>6, SubSeqFull
  <1> QED BY <1>2, <1>3, <1>4, <1>6, <1>7, <1>8 DEF IsPrefix, types, n

\* The invariant is what OwnReply needs.
LEMMA InvImpliesOwnReply == GatewayInv => OwnReply
  <1> SUFFICES ASSUME GatewayInv PROVE OwnReply
    OBVIOUS
  <1>1. ASSUME NEW h \in Handlers, pc[h] # "killed"
        PROVE  /\ \A i \in DOMAIN got[h] : got[h][i].id = rid[h]
               /\ LET types == [i \in DOMAIN got[h] |-> got[h][i].type] IN
                  /\ \E s \in Shapes(CmdOf(kind[h]), MaxTok) : IsPrefix(types, s)
                  /\ outcome[h] = "reply" => types \in Shapes(CmdOf(kind[h]), MaxTok)
    <2>1. Own(h) /\ TypeOK
      BY <1>1 DEF GatewayInv, Ended
    <2>2. PICK s \in Replies(h) : Took(h, s) /\ (outcome[h] = "reply" => Len(got[h]) = Len(s))
      BY <2>1 DEF Own
    <2> QED BY <2>1, <2>2, TookIsPrefix DEF Replies
  <1>2. main # "over" => Holding = {lock} \ {NoOne}
    BY DEF GatewayInv, Together, Ended, Exclusive
  <1>3. (lock = NoOne /\ Alive) =>
           stdin = <<>> /\ stdout = <<>> /\ engine.pc \in {"starting", "idle"}
    BY DEF GatewayInv, Together, Ended, Clean
  <1> QED BY <1>1, <1>2, <1>3 DEF OwnReply

\* Typing and the invariant, for every value of the constants.
THEOREM GatewayInvariant == Spec => []GatewayInv
  <1>1. Init => GatewayInv
    BY InitGatewayInv
  <1>2. GatewayInv /\ [Next]_vars => GatewayInv'
    BY NextKeeps
  <1> QED BY <1>1, <1>2, PTL DEF Spec

\* The types of the gateway's variables.
THEOREM GatewayTyped == Spec => []TypeOK
  <1>1. GatewayInv => TypeOK
    BY DEF GatewayInv
  <1> QED BY <1>1, GatewayInvariant, PTL

\* Whoever holds the engine reads its own reply, one handler at a time, and
\* leaves nothing of it behind, whatever clients, engine and main thread do
\* (tools/server.py:239-276).
THEOREM OwnReplyHolds == Spec => []OwnReply
  BY GatewayInvariant, InvImpliesOwnReply, PTL
=============================================================================
