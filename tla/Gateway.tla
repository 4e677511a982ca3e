------------------------------ MODULE Gateway ------------------------------
(***************************************************************************)
(* The gateway (tools/server.py): one thread per HTTP request, all of them *)
(* sharing one engine process behind a lock (ApusEngine.request), and the  *)
(* main thread that ends the engine when it is interrupted (close).  The   *)
(* engine answers in the shapes of Replies, which Serve shows it to do; it *)
(* may fail to start or crash at any point.  A client may leave, or stop   *)
(* reading, at any point.                                                  *)
(***************************************************************************)
EXTENDS Replies, Integers, FiniteSets, SequencesExt

CONSTANTS
    Handlers,   \* threads of the HTTP server
    NoOne,      \* nobody holds the lock
    MaxIds,     \* bound: requests that reach the engine
    MaxTok,     \* bound: token events of one reply
    Cap         \* bound: lines the pipe from the engine holds

ASSUME GatewayAssumption ==
    NoOne \notin Handlers /\ MaxIds \in Nat /\ MaxTok \in Nat /\ Cap \in Nat \ {0}

VARIABLES
    pc,         \* where each handler is
    kind,       \* what its client asked for: once, stream or encode
    rid,        \* the id it gave its request
    got,        \* the events it took out of the pipe and acted on
    outcome,    \* what its client was told
    gone,       \* its client left
    stalled,    \* its client does not read what it is sent
    lock,       \* the handler that holds the engine
    nextId,
    stdin,      \* lines on their way to the engine
    open,       \* the gateway's end of that pipe is open
    stdout,     \* lines on their way back
    engine,     \* [pc, id, todo]
    main        \* serving, closing or over

handlerVars == <<pc, kind, rid, got, outcome, gone, stalled>>
pipes == <<stdin, open, stdout>>
vars == <<handlerVars, lock, nextId, pipes, engine, main>>

Partial == [id |-> 0, type |-> "partial"]   \* what a crash leaves of a line
Alive == engine.pc # "exited"
CmdOf(k) == IF k = "encode" THEN "encode" ELSE "generate"
IsTerminal(ev) == ev.type \in Terminal

Init ==
    /\ pc = [h \in Handlers |-> "idle"] /\ kind = [h \in Handlers |-> "once"]
    /\ rid = [h \in Handlers |-> 0] /\ got = [h \in Handlers |-> <<>>]
    /\ outcome = [h \in Handlers |-> "none"]
    /\ gone = [h \in Handlers |-> FALSE] /\ stalled = [h \in Handlers |-> FALSE]
    /\ lock = NoOne /\ nextId = 1
    /\ stdin = <<>> /\ open = TRUE /\ stdout = <<>>
    /\ engine = [pc |-> "starting", id |-> 0, todo |-> <<>>]
    /\ main = "serving"

-----------------------------------------------------------------------------
(* Clients                                                                 *)

\* do_POST up to the call of request.
Arrive(h) ==
    /\ pc[h] = "idle" /\ main = "serving" /\ nextId <= MaxIds
    /\ \E k \in {"once", "stream", "encode"} : kind' = [kind EXCEPT ![h] = k]
    /\ pc' = [pc EXCEPT ![h] = "acquire"]
    /\ got' = [got EXCEPT ![h] = <<>>] /\ outcome' = [outcome EXCEPT ![h] = "none"]
    /\ gone' = [gone EXCEPT ![h] = FALSE] /\ stalled' = [stalled EXCEPT ![h] = FALSE]
    /\ UNCHANGED <<rid, lock, nextId, pipes, engine, main>>

Active(h) == pc[h] \notin {"idle", "killed"}

Leave(h) ==
    /\ Active(h) /\ ~gone[h]
    /\ gone' = [gone EXCEPT ![h] = TRUE] /\ stalled' = [stalled EXCEPT ![h] = FALSE]
    /\ UNCHANGED <<pc, kind, rid, got, outcome, lock, nextId, pipes, engine, main>>

\* Replies that may be larger than the socket's buffer.
Stall(h) ==
    /\ Active(h) /\ ~gone[h] /\ kind[h] # "once" /\ ~stalled[h]
    /\ stalled' = [stalled EXCEPT ![h] = TRUE]
    /\ UNCHANGED <<pc, kind, rid, got, outcome, gone, lock, nextId, pipes, engine, main>>

Resume(h) ==
    /\ stalled[h] /\ stalled' = [stalled EXCEPT ![h] = FALSE]
    /\ UNCHANGED <<pc, kind, rid, got, outcome, gone, lock, nextId, pipes, engine, main>>

-----------------------------------------------------------------------------
(* ApusEngine.request                                                      *)

\* Leaving the block of the lock.
LetGo(h, result) ==
    /\ lock' = NoOne
    /\ pc' = [pc EXCEPT ![h] = "idle"]
    /\ outcome' = [outcome EXCEPT ![h] = result]

Acquire(h) ==
    /\ pc[h] = "acquire" /\ lock = NoOne
    /\ lock' = h /\ nextId' = nextId + 1
    /\ rid' = [rid EXCEPT ![h] = nextId]
    /\ pc' = [pc EXCEPT ![h] = "write"]
    /\ UNCHANGED <<kind, got, outcome, gone, stalled, pipes, engine, main>>

\* A stream's first chunk is sent before the engine is asked, and may show that
\* the client left.
GiveUp(h) ==
    /\ pc[h] = "acquire" /\ kind[h] = "stream" /\ gone[h]
    /\ pc' = [pc EXCEPT ![h] = "idle"] /\ outcome' = [outcome EXCEPT ![h] = "dropped"]
    /\ UNCHANGED <<kind, rid, got, gone, stalled, lock, nextId, pipes, engine, main>>

\* A pipe closed at either end refuses the line.
Write(h) ==
    /\ pc[h] = "write"
    /\ IF open /\ Alive
       THEN /\ stdin' = Append(stdin, [id |-> rid[h], cmd |-> CmdOf(kind[h])])
            /\ pc' = [pc EXCEPT ![h] = "read"]
            /\ UNCHANGED <<outcome, lock>>
       ELSE LetGo(h, "refused") /\ UNCHANGED stdin
    /\ UNCHANGED <<kind, rid, got, gone, stalled, nextId, open, stdout, engine, main>>

\* Regression: a handler whose client left gives the engine back at once.
AbandonAtOnce(h) == "idle"

\* Where a handler goes whose reply is not over when it stops reading it.
Abandoned(h) == "drain"

\* One event.  A stream's send may find that the client left, if it did; a line
\* that does not parse ends the request in the same way.
Read(h) ==
    /\ pc[h] = "read" /\ stdout # <<>>
    /\ LET ev == Head(stdout) IN
       /\ stalled[h] => ev.type \in {"prompt", "done", "encoded", "error"}
       /\ \/ /\ ev # Partial
             /\ got' = [got EXCEPT ![h] = Append(@, ev)]
             /\ pc' = [pc EXCEPT ![h] = IF IsTerminal(ev) THEN "release" ELSE "read"]
             /\ UNCHANGED <<outcome, lock>>
          \/ /\ ev = Partial \/ (kind[h] = "stream" /\ gone[h] /\ ev.type = "token")
             /\ UNCHANGED got
             /\ IF Abandoned(h) = "drain"
                THEN /\ pc' = [pc EXCEPT ![h] = "drain"] /\ UNCHANGED <<lock, outcome>>
                ELSE LetGo(h, "dropped")
    /\ stdout' = Tail(stdout)
    /\ UNCHANGED <<kind, rid, gone, stalled, nextId, stdin, open, engine, main>>

\* The end of the engine's output.
ReadEnd(h) ==
    /\ pc[h] = "read" /\ stdout = <<>> /\ ~Alive
    /\ LetGo(h, "refused")
    /\ UNCHANGED <<kind, rid, got, gone, stalled, nextId, pipes, engine, main>>

\* After the terminal event; an error, or the rendered prompt, is sent to the
\* client before the lock is given up.
Release(h) ==
    /\ pc[h] = "release"
    /\ stalled[h] => Last(got[h]).type = "done"
    /\ LetGo(h, "reply")
    /\ UNCHANGED <<kind, rid, got, gone, stalled, nextId, pipes, engine, main>>

\* One line of the rest of an abandoned reply.
Drain(h) ==
    /\ pc[h] = "drain" /\ stdout # <<>>
    /\ stdout' = Tail(stdout)
    /\ IF IsTerminal(Head(stdout)) THEN LetGo(h, "dropped") ELSE UNCHANGED <<pc, outcome, lock>>
    /\ UNCHANGED <<kind, rid, got, gone, stalled, nextId, stdin, open, engine, main>>

\* Regression: the drain waits for a terminal event only.
DrainEndNever(h) == FALSE

DrainEnds(h) == pc[h] = "drain" /\ stdout = <<>> /\ ~Alive

DrainEnd(h) ==
    /\ DrainEnds(h)
    /\ LetGo(h, "dropped")
    /\ UNCHANGED <<kind, rid, got, gone, stalled, nextId, pipes, engine, main>>

-----------------------------------------------------------------------------
(* The engine process                                                      *)

EngineIs(state, id, todo) == engine' = [pc |-> state, id |-> id, todo |-> todo]

\* serve_main up to its loop; a container that cannot be served ends it.
EngineStart ==
    /\ engine.pc = "starting"
    /\ \E s \in {"idle", "exited"} : EngineIs(s, 0, <<>>)
    /\ UNCHANGED <<handlerVars, lock, nextId, pipes, main>>

EngineRead ==
    /\ engine.pc = "idle" /\ stdin # <<>>
    /\ \E reply \in Shapes(Head(stdin).cmd, MaxTok) : EngineIs("busy", Head(stdin).id, reply)
    /\ stdin' = Tail(stdin)
    /\ UNCHANGED <<handlerVars, lock, nextId, open, stdout, main>>

\* serve_send writes a line and flushes it.
EngineEmit ==
    /\ engine.pc = "busy" /\ Len(stdout) < Cap
    /\ stdout' = Append(stdout, [id |-> engine.id, type |-> Head(engine.todo)])
    /\ IF Len(engine.todo) = 1 THEN EngineIs("idle", 0, <<>>)
       ELSE EngineIs("busy", engine.id, Tail(engine.todo))
    /\ UNCHANGED <<handlerVars, lock, nextId, stdin, open, main>>

EngineEnd ==
    /\ engine.pc = "idle" /\ stdin = <<>> /\ ~open
    /\ EngineIs("exited", 0, <<>>)
    /\ UNCHANGED <<handlerVars, lock, nextId, pipes, main>>

\* Anything else that ends it; a busy engine may leave half a line.
EngineCrash ==
    /\ Alive
    /\ EngineIs("exited", 0, <<>>)
    /\ \/ UNCHANGED stdout
       \/ engine.pc = "busy" /\ Len(stdout) < Cap /\ stdout' = Append(stdout, Partial)
    /\ UNCHANGED <<handlerVars, lock, nextId, stdin, open, main>>

-----------------------------------------------------------------------------
(* The main thread                                                         *)

\* The interrupt of serve_forever, and close as far as the engine's stdin.
Close ==
    /\ main = "serving"
    /\ main' = "closing" /\ open' = FALSE
    /\ UNCHANGED <<handlerVars, lock, nextId, stdin, stdout, engine>>

\* Regression: close waits and does not kill.
NoTimeout == FALSE

\* wait(timeout=10) may run out at any point.
TimeIsUp == main = "closing" /\ Alive

Waited ==
    /\ main = "closing" /\ ~Alive
    /\ main' = "over"
    /\ UNCHANGED <<handlerVars, lock, nextId, pipes, engine>>

Kill ==
    /\ TimeIsUp
    /\ main' = "over" /\ EngineIs("exited", 0, <<>>)
    /\ UNCHANGED <<handlerVars, lock, nextId, pipes>>

\* The threads are daemons: they end with the process, wherever they are.
Exit ==
    /\ main = "over" /\ \E h \in Handlers : pc[h] # "killed"
    /\ pc' = [h \in Handlers |-> "killed"]
    /\ UNCHANGED <<kind, rid, got, outcome, gone, stalled, lock, nextId, pipes, engine, main>>

-----------------------------------------------------------------------------
Client(h) == Arrive(h) \/ Leave(h) \/ Stall(h) \/ Resume(h)

Handler(h) ==
    \/ Acquire(h) \/ GiveUp(h) \/ Write(h) \/ Read(h) \/ ReadEnd(h)
    \/ Release(h) \/ Drain(h) \/ DrainEnd(h)

Engine == EngineStart \/ EngineRead \/ EngineEmit \/ EngineEnd

MainThread == Waited \/ Kill \/ Exit

Next ==
    \/ \E h \in Handlers : Client(h) \/ Handler(h)
    \/ Engine \/ EngineCrash \/ Close \/ MainThread

\* Threads and the engine go on when they can; clients do what they like, and
\* neither a crash nor an interrupt need ever come.
Fairness ==
    /\ \A h \in Handlers : WF_vars(Handler(h))
    /\ WF_vars(Engine) /\ WF_vars(MainThread)

Spec == Init /\ [][Next]_vars /\ Fairness

-----------------------------------------------------------------------------
(* Properties                                                              *)

Holding == {h \in Handlers : pc[h] \in {"write", "read", "drain", "release"}}

\* Whoever reads the engine's output reads the reply to its own request: what a
\* handler took carries its id and is the beginning of a reply of the shape it
\* asked for, the whole of one when its client is told so; and when nobody
\* holds the engine, nothing of an earlier exchange is left for the next one,
\* whatever became of its client (tools/server.py:239-276).
OwnReply ==
    /\ \A h \in Handlers : pc[h] # "killed" =>
         /\ \A i \in DOMAIN got[h] : got[h][i].id = rid[h]
         /\ LET types == [i \in DOMAIN got[h] |-> got[h][i].type] IN
            /\ \E s \in Shapes(CmdOf(kind[h]), MaxTok) : IsPrefix(types, s)
            /\ outcome[h] = "reply" => types \in Shapes(CmdOf(kind[h]), MaxTok)
    /\ main # "over" => Holding = {lock} \ {NoOne}
    /\ (lock = NoOne /\ Alive) =>
         stdin = <<>> /\ stdout = <<>> /\ engine.pc \in {"starting", "idle"}

\* A request that waits for the engine is answered or told that there is none,
\* or the gateway ends: behind clients that leave, an engine that fails to
\* start, crashes or is killed, if clients do not stop reading for good
\* (tools/server.py:258-276).
NobodyWaitsForever ==
    (\A h \in Handlers : <>[](~stalled[h])) =>
        \A h \in Handlers : pc[h] = "acquire" ~> pc[h] \in {"idle", "killed"}

\* Once the gateway is told to end, the engine does not outlive it, even while
\* a handler does not take its output (tools/server.py:278-284).
EngineEnds == main = "closing" ~> (main = "over" /\ ~Alive)
=============================================================================
