------------------------------- MODULE Gcache -------------------------------
(***************************************************************************)
(* The expert cache of c/gcache.h: per-layer LRU slots and a per-forward   *)
(* working set, filled by a pool of I/O workers (or inline, in synchronous *)
(* mode), read by one compute thread and hinted at by a pilot thread.      *)
(*                                                                         *)
(* A step is one critical section of st->mu, or the work a thread does     *)
(* outside it.  The one critical section that is a loop, layer_end, is one *)
(* step per iteration with the mutex held (MuFree is FALSE meanwhile).     *)
(* Slots are pointers: LRU slots are <<layer, index>>, working-set slots   *)
(* are addresses of the heap.  Payload buffers are addresses too, and      *)
(* content says what the bytes behind an address are.                      *)
(***************************************************************************)
EXTENDS Integers, Sequences, SequencesExt, FiniteSets

CONSTANTS
    Layers,          \* sparse layers that have slab records
    Experts,         \* routed experts of a layer
    NSlots,          \* LRU slots per layer (lc->n_slots)
    Heap,            \* addresses ws_add can calloc a slot at
    Bufs,            \* addresses a payload buffer can have
    Workers,         \* I/O threads; {} is the synchronous mode
    Compute, Pilot,  \* the two threads that call the API
    SpecCap,         \* spec_cap: queued speculative jobs
    PlCap,           \* pl_free_cap: recycled payload buffers
    Boost,           \* st->boost: hot-first pop
    RssPressure,     \* the process may be near or over rss_budget
    OneLayer,        \* the caller holds views of one layer at a time
    SpuriousWakes,   \* condition waits may return without a signal
    MaxClock,        \* bound: resolves that succeed
    MaxGen,          \* bound: calls of layer_end
    MaxReadFaults,   \* bound: preads that fail
    MaxAllocFaults,  \* bound: buffer allocations that fail
    NoSlot, NoBuf, NoJob, Junk

Callers == {Compute, Pilot}
Runners == Workers \cup Callers
Sync    == Workers = {}
NoEid   == -1
LruSlots == Layers \X (1..NSlots)
Slots    == LruSlots \cup Heap

ASSUME ConstAssumption ==
    /\ Layers \subseteq Nat /\ Experts \subseteq Nat
    /\ NSlots \in Nat \ {0}
    /\ SpecCap \in Nat \ {0} /\ PlCap \in Nat
    /\ {Boost, RssPressure, OneLayer, SpuriousWakes} \subseteq BOOLEAN
    /\ {MaxClock, MaxGen, MaxReadFaults, MaxAllocFaults} \subseteq Nat
    /\ Heap \cap LruSlots = {} /\ NoSlot \notin Slots
    /\ NoBuf \notin Bufs
    /\ Compute # Pilot /\ Workers \cap Callers = {}
ASSUME WorkersFinite == IsFiniteSet(Workers)

State == {"empty", "loading", "ready"}
Slot  == [eid : Experts \cup {NoEid}, pl : Bufs \cup {NoBuf}, last : Nat,
          state : State, gen : Nat, hot : BOOLEAN]
Job   == [layer : Layers, eid : Experts, slot : Slots, gen : Nat,
          hot : BOOLEAN]
Bytes == (Layers \X Experts) \cup {Junk}
ASSUME NoJobAssumption == NoJob \notin Job
Blank == [eid |-> NoEid, pl |-> NoBuf, last |-> 0, state |-> "empty",
          gen |-> 0, hot |-> FALSE]

VARIABLES
    slot,       \* every ApusGslot, LRU and heap
    ws,         \* lc->ws: the working set of each layer, as slot pointers
    jobs,       \* the queue of the I/O pool (the ring, read from jq_head)
    specQ, hotFlight,        \* st->spec_q, st->hot_flight
    plFree,     \* recycled payload buffers, a stack
    content,    \* the bytes behind each payload address
    clock, gen, stopping,    \* st->clock, st->gen, st->stopping
    rpc, rjob, rbuf,  \* what each thread that runs fills is doing
    cpc, creq,  \* the compute thread inside resolve / layer_end / close
    views,      \* the views resolve has returned and the caller still uses
    faults      \* failures so far, for the two bounds

vars == <<slot, ws, jobs, specQ, hotFlight, plFree, content, clock, gen,
          stopping, rpc, rjob, rbuf, cpc, creq, views, faults>>
queueVars == <<jobs, specQ, hotFlight>>
runVars   == <<rpc, rjob, rbuf>>
bufVars   == <<plFree, content>>

NoReq == [layer |-> 0, eid |-> NoEid, slot |-> NoSlot, idx |-> 0]

TypeOK ==
    /\ slot \in [Slots -> Slot]
    /\ ws \in [Layers -> Seq(Heap)]
    /\ jobs \in Seq(Job)
    /\ specQ \in Int /\ hotFlight \in Int
    /\ plFree \in Seq(Bufs)
    /\ content \in [Bufs -> Bytes]
    /\ clock \in Nat /\ gen \in Nat /\ stopping \in BOOLEAN
    /\ rpc \in [Runners ->
                {"idle", "asleep", "alloc", "fill", "retire", "exited"}]
    /\ rjob \in [Runners -> Job \cup {NoJob}]
    /\ rbuf \in [Runners -> Bufs \cup {NoBuf}]
    /\ cpc \in {"free", "blocked", "woken", "promote", "guard", "joining",
                "closed"}
    /\ creq \in [layer : Nat, eid : Experts \cup {NoEid},
                 slot : Slots \cup {NoSlot}, idx : Nat]
    /\ views \in SUBSET [layer : Layers, eid : Experts, pl : Bufs]
    /\ faults \in [read : Nat, alloc : Nat]

Init ==
    /\ slot = [s \in Slots |-> Blank]
    /\ ws = [l \in Layers |-> <<>>]
    /\ jobs = <<>> /\ specQ = 0 /\ hotFlight = 0
    /\ plFree = <<>>
    /\ content = [b \in Bufs |-> Junk]
    /\ clock = 0 /\ gen = 0 /\ stopping = FALSE
    /\ rpc = [r \in Runners |-> "idle"]
    /\ rjob = [r \in Runners |-> NoJob]
    /\ rbuf = [r \in Runners |-> NoBuf]
    /\ cpc = "free" /\ creq = NoReq
    /\ views = {}
    /\ faults = [read |-> 0, alloc |-> 0]

-----------------------------------------------------------------------------
(* Helpers.                                                                *)

\* st->mu is only kept across steps by the promotion loop of layer_end.
MuFree == cpc # "promote"

\* The compute thread may start an API call; so may the pilot.
ComputeFree == cpc = "free" /\ rpc[Compute] = "idle"
PilotFree   == rpc[Pilot] = "idle" /\ ~stopping /\ MuFree

First(S) == CHOOSE i \in S : \A j \in S : i <= j

LruPos(l, e) == {i \in 1..NSlots : slot[<<l, i>>].eid = e}
WsPos(l, e)  == {k \in DOMAIN ws[l] : slot[ws[l][k]].eid = e}

\* Regression: the working set is not searched.
LookupLruOnly(l, e) ==
    IF LruPos(l, e) # {} /\ slot[<<l, First(LruPos(l, e))>>].pl # NoBuf
    THEN <<l, First(LruPos(l, e))>>
    ELSE NoSlot

\* The working set first; then the first LRU slot with this eid, which only
\* counts when it has a payload.
Lookup(l, e) ==
    IF WsPos(l, e) # {} THEN ws[l][First(WsPos(l, e))]
    ELSE IF LruPos(l, e) # {} /\ slot[<<l, First(LruPos(l, e))>>].pl # NoBuf
    THEN <<l, First(LruPos(l, e))>>
    ELSE NoSlot

InWs(s) == \E l \in Layers : \E k \in DOMAIN ws[l] : ws[l][k] = s
FreeHeap == {s \in Heap : ~InWs(s)}
NewSlot == CHOOSE s \in FreeHeap : TRUE

\* Payload addresses nobody holds: what aligned_alloc may return.
Held == {slot[s].pl : s \in Slots} \cup {rbuf[r] : r \in Runners}
        \cup ToSet(plFree)
FreshBufs == Bufs \ Held

\* apus_gc_pl_put: recycle b, or free it when the list is full.
Put(b) == IF b # NoBuf /\ Len(plFree) < PlCap THEN Append(plFree, b)
          ELSE plFree
Trash(B) == [b \in Bufs |-> IF b \in B THEN Junk ELSE content[b]]

\* The top of the recycling stack, taken off.  Regression: left on it.
PeekFree == plFree
PopFree  == Front(plFree)

\* Regression: no broadcast after a fill.
WakeNobody == cpc

\* pthread_cond_broadcast(&st->cv): only the compute thread waits on it.
WakeCompute == IF cpc = "blocked" THEN "woken" ELSE cpc

Asleep == {w \in Workers : rpc[w] = "asleep"}

\* Regression: job_push does not signal.
SignalNobody == UNCHANGED rpc

\* pthread_cond_signal(&st->jq_cv): one of the waiting workers wakes up.
Signal == IF Asleep = {} THEN UNCHANGED rpc
          ELSE \E w \in Asleep : rpc' = [rpc EXCEPT ![w] = "idle"]

\* apus_gc_submit on slot s, whose record before the call is r: queue the
\* fill, or (no worker) run it on the calling thread c after unlocking.
Submit(c, l, e, s, r) ==
    LET j == [layer |-> l, eid |-> e, slot |-> s, gen |-> gen,
              hot |-> r.hot]
    IN  /\ slot' = [slot EXCEPT ![s] =
                        [r EXCEPT !.state = "loading", !.gen = gen]]
        /\ IF Sync
           THEN /\ rpc' = [rpc EXCEPT ![c] = "alloc"]
                /\ rjob' = [rjob EXCEPT ![c] = j]
                /\ UNCHANGED <<jobs, specQ>>
           ELSE /\ jobs' = Append(jobs, j)
                /\ specQ' = IF r.hot THEN specQ ELSE specQ + 1
                /\ Signal
                /\ UNCHANGED rjob
        /\ UNCHANGED <<rbuf, hotFlight>>

\* A slot whose fill was reset keeps its eid and may be submitted again.
\* Regression: so may one whose fill is still in flight.
IdleOrLoading(s) == slot[s].state # "ready" /\ slot[s].eid # NoEid
Idle(s)          == slot[s].state = "empty" /\ slot[s].eid # NoEid

\* apus_gc_spec_admit.  RSS within one fill of the budget is the last rule;
\* under RssPressure it may say no at any time.
SpecAdmit ==
    /\ hotFlight <= 0
    /\ \A k \in DOMAIN jobs : ~slot[jobs[k].slot].hot
    /\ specQ < SpecCap
SpecDrop == ~SpecAdmit \/ RssPressure

-----------------------------------------------------------------------------
(* apus_gcache_hint and apus_gcache_hint_demand.                           *)

NewEntry(e, hot) == [Blank EXCEPT !.eid = e, !.hot = hot]

HintNew(c, l, e, demand) ==
    /\ Lookup(l, e) = NoSlot
    /\ demand \/ SpecAdmit
    /\ FreeHeap # {}
    /\ ws' = [ws EXCEPT ![l] = Append(@, NewSlot)]
    /\ Submit(c, l, e, NewSlot, NewEntry(e, demand))

HintAgain(c, l, e, demand) ==
    LET s == Lookup(l, e) IN
    /\ s # NoSlot
    /\ Idle(s)
    /\ demand \/ SpecAdmit
    /\ Submit(c, l, e, s, [slot[s] EXCEPT !.hot = demand \/ @])
    /\ UNCHANGED ws

HintBoost(l, e, demand) ==
    LET s == Lookup(l, e) IN
    /\ s # NoSlot
    /\ demand /\ slot[s].state = "loading"
    /\ slot' = [slot EXCEPT ![s].hot = TRUE]
    /\ UNCHANGED <<ws, queueVars, runVars>>

\* Present already, dropped by the admission rule, or calloc failed: no
\* effect.
HintNothing(l, e, demand) ==
    LET s == Lookup(l, e) IN
    /\ \/ s = NoSlot /\ (FreeHeap = {} \/ (~demand /\ SpecDrop))
       \/ s # NoSlot /\ slot[s].state = "ready"
       \/ s # NoSlot /\ ~demand /\ slot[s].state = "loading"
       \/ s # NoSlot /\ slot[s].state = "empty"
          /\ (slot[s].eid = NoEid \/ (~demand /\ SpecDrop))
    /\ UNCHANGED <<slot, ws, queueVars, runVars>>

HintBody(c, l, e, demand) ==
    /\ \/ HintNew(c, l, e, demand)
       \/ HintAgain(c, l, e, demand)
       \/ HintBoost(l, e, demand)
       \/ HintNothing(l, e, demand)
    /\ UNCHANGED <<bufVars, clock, gen, stopping, cpc, creq, views, faults>>

Hint(l, e) == PilotFree /\ HintBody(Pilot, l, e, FALSE)

HintDemand(l, e) == ComputeFree /\ HintBody(Compute, l, e, TRUE)

-----------------------------------------------------------------------------
(* apus_gcache_resolve.                                                    *)

\* What the caller of a failing resolve does: the forward is abandoned
\* without a layer_end, and its views with it.
Fail ==
    /\ cpc' = "free" /\ creq' = NoReq /\ views' = {}
    /\ UNCHANGED <<slot, ws, queueVars, runVars, bufVars, clock, gen,
                   stopping, faults>>

\* The slot is READY: stamp it and return the view.
Deliver(l, e, s) ==
    /\ slot' = [slot EXCEPT ![s].last = clock + 1]
    /\ clock' = clock + 1
    /\ views' = views \cup {[layer |-> l, eid |-> e, pl |-> slot[s].pl]}
    /\ cpc' = "free" /\ creq' = NoReq
    /\ UNCHANGED <<ws, queueVars, runVars, bufVars, gen, stopping, faults>>

Block(l, e, s, pc) ==
    /\ cpc' = pc
    /\ creq' = [layer |-> l, eid |-> e, slot |-> s, idx |-> 0]
    /\ UNCHANGED <<bufVars, clock, gen, stopping, views, faults>>

\* In pool mode wait_ready goes on to sleep; in synchronous mode it looks
\* again once the inline fill is over.
AfterSubmit == IF Sync THEN "woken" ELSE "blocked"

ResolveHit(l, e) ==
    LET s == Lookup(l, e) IN
    s # NoSlot /\ slot[s].state = "ready" /\ Deliver(l, e, s)

\* The load is in flight: boost it and wait for it.
ResolveJoin(l, e) ==
    LET s == Lookup(l, e) IN
    /\ s # NoSlot /\ slot[s].state = "loading"
    /\ slot' = [slot EXCEPT ![s].hot = TRUE]
    /\ Block(l, e, s, "blocked")
    /\ UNCHANGED <<ws, queueVars, runVars>>

Resubmit(l, e, s) ==
    /\ Idle(s)
    /\ Submit(Compute, l, e, s, [slot[s] EXCEPT !.hot = TRUE])
    /\ Block(l, e, s, AfterSubmit)
    /\ UNCHANGED ws

ResolveMiss(l, e) ==
    /\ Lookup(l, e) = NoSlot
    /\ \/ /\ FreeHeap # {}
          /\ ws' = [ws EXCEPT ![l] = Append(@, NewSlot)]
          /\ Submit(Compute, l, e, NewSlot, NewEntry(e, TRUE))
          /\ Block(l, e, NewSlot, AfterSubmit)
       \/ FreeHeap = {} /\ Fail

Resolve(l, e) ==
    /\ ComputeFree /\ clock < MaxClock
    /\ OneLayer => \A v \in views : v.layer = l
    /\ \/ ResolveHit(l, e)
       \/ ResolveJoin(l, e)
       \/ Lookup(l, e) # NoSlot /\ Resubmit(l, e, Lookup(l, e))
       \/ ResolveMiss(l, e)

\* One turn of wait_ready's loop after a wait.
WaitReady ==
    LET s == creq.slot IN
    /\ cpc = "woken" /\ rpc[Compute] = "idle"
    /\ \/ slot[s].state = "ready" /\ Deliver(creq.layer, creq.eid, s)
       \/ slot[s].state = "empty" /\ slot[s].eid = NoEid /\ Fail
       \/ Resubmit(creq.layer, creq.eid, s)
       \/ /\ slot[s].state = "loading"
          /\ Block(creq.layer, creq.eid, s, "blocked")
          /\ UNCHANGED <<slot, ws, queueVars, runVars>>

-----------------------------------------------------------------------------
(* apus_gcache_layer_end and apus_gcache_rss_guard.                        *)

LayerEnd(l) ==
    /\ ComputeFree /\ gen < MaxGen
    /\ OneLayer => \A v \in views : v.layer = l
    /\ cpc' = "promote"
    /\ creq' = [NoReq EXCEPT !.layer = l, !.idx = 1]
    /\ views' = {v \in views : v.layer # l}
    /\ UNCHANGED <<slot, ws, queueVars, runVars, bufVars, clock, gen,
                   stopping, faults>>

\* apus_gc_lru_victim: the first slot without an eid, else the first of the
\* coldest; never a LOADING one.
Victim(l) ==
    LET cand    == {i \in 1..NSlots : slot[<<l, i>>].state # "loading"}
        unused  == {i \in cand : slot[<<l, i>>].eid = NoEid}
        coldest == {i \in cand : \A j \in cand :
                        slot[<<l, i>>].last <= slot[<<l, j>>].last}
    IN  IF unused # {} THEN <<l, First(unused)>>
        ELSE IF coldest # {} THEN <<l, First(coldest)>>
        ELSE NoSlot

\* The entry takes the victim's place unless the victim is warmer.
\* Regression: whatever the victim's warmth.
InstallsAlways(s, v) == v # NoSlot
Installs(s, v)       == v # NoSlot /\ slot[v].last <= slot[s].last

\* One iteration over the working set: install the entry in the victim's
\* place, or drop it when the LRU is warmer.
Promote ==
    LET l == creq.layer
        k == creq.idx
        s == ws[l][k]
        v == Victim(l)
    IN  /\ cpc = "promote" /\ k <= Len(ws[l])
        /\ IF slot[s].state # "ready"
           THEN /\ creq' = [creq EXCEPT !.idx = k + 1]
                /\ UNCHANGED <<slot, ws, bufVars>>
           ELSE /\ ws' = [ws EXCEPT ![l] = RemoveAt(@, k)]
                /\ UNCHANGED creq
                /\ IF Installs(s, v)
                   THEN /\ slot' = [slot EXCEPT
                              ![v] = [eid |-> slot[s].eid, pl |-> slot[s].pl,
                                      last |-> slot[s].last,
                                      state |-> "ready", gen |-> @.gen,
                                      hot |-> FALSE],
                              ![s] = Blank]
                        /\ plFree' = Put(slot[v].pl)
                        /\ content' = Trash({slot[v].pl})
                   ELSE /\ slot' = [slot EXCEPT ![s] = Blank]
                        /\ plFree' = Put(slot[s].pl)
                        /\ content' = Trash({slot[s].pl})
        /\ UNCHANGED <<queueVars, runVars, clock, gen, stopping, cpc, views,
                       faults>>

PromoteDone ==
    /\ cpc = "promote" /\ creq.idx > Len(ws[creq.layer])
    /\ gen' = gen + 1
    /\ cpc' = "guard" /\ creq' = NoReq
    /\ UNCHANGED <<slot, ws, queueVars, runVars, bufVars, clock, stopping,
                   views, faults>>

\* The guard frees the coldest live LRU payloads of all layers, as many as
\* the excess asks for; the slots keep their eid.
LiveLru == {s \in LruSlots : slot[s].state = "ready" /\ slot[s].pl # NoBuf}
ColdestFirst(D) ==
    \A s \in D, t \in LiveLru \ D : slot[s].last <= slot[t].last

\* layer_end runs it once the mutex is released, before the next forward
\* takes views.  Regression: at any time.
GuardAnyTime == cpc \in {"guard", "free"}
GuardTurn    == cpc = "guard"

RssGuard ==
    /\ GuardTurn
    /\ \E D \in SUBSET LiveLru :
        /\ ColdestFirst(D)
        /\ D # {} => RssPressure
        /\ slot' = [s \in Slots |->
                      IF s \in D THEN [slot[s] EXCEPT !.pl = NoBuf,
                                                      !.state = "empty"]
                      ELSE slot[s]]
        /\ content' = Trash({slot[s].pl : s \in D})
    /\ cpc' = "free"
    /\ UNCHANGED <<ws, queueVars, runVars, plFree, clock, gen, stopping,
                   creq, views, faults>>

-----------------------------------------------------------------------------
(* The I/O workers: apus_gc_worker and apus_gc_run_job.                    *)

Sleep(w) ==
    /\ rpc[w] = "idle" /\ MuFree
    /\ jobs = <<>> /\ ~stopping
    /\ rpc' = [rpc EXCEPT ![w] = "asleep"]
    /\ UNCHANGED <<slot, ws, queueVars, rjob, rbuf, bufVars, clock, gen,
                   stopping, cpc, creq, views, faults>>

Exit(w) ==
    /\ rpc[w] = "idle" /\ MuFree
    /\ jobs = <<>> /\ stopping
    /\ rpc' = [rpc EXCEPT ![w] = "exited"]
    /\ UNCHANGED <<slot, ws, queueVars, rjob, rbuf, bufVars, clock, gen,
                   stopping, cpc, creq, views, faults>>

\* The first job whose slot is demand-class now, else the head.
HotPos == {k \in DOMAIN jobs : slot[jobs[k].slot].hot}
Pick == IF Boost /\ HotPos # {} THEN First(HotPos) ELSE 1

\* Queue accounting uses the class at submission.  Regression: the current
\* class, which a resolve may have raised.
SpecPoppedNow(j) == IF slot[j.slot].hot THEN specQ ELSE specQ - 1
SpecPopped(j)    == IF j.hot THEN specQ ELSE specQ - 1

\* Flight accounting uses the current class.
Pop(w) ==
    LET j   == jobs[Pick]
        hot == slot[j.slot].hot
    IN  /\ rpc[w] = "idle" /\ MuFree
        /\ jobs # <<>>
        /\ jobs' = RemoveAt(jobs, Pick)
        /\ specQ' = SpecPopped(j)
        /\ hotFlight' = IF hot THEN hotFlight + 1 ELSE hotFlight
        /\ rpc' = [rpc EXCEPT ![w] = "alloc"]
        /\ rjob' = [rjob EXCEPT ![w] = [j EXCEPT !.hot = hot]]
        /\ UNCHANGED <<slot, ws, rbuf, bufVars, clock, gen, stopping, cpc,
                       creq, views, faults>>

\* pl_get: the top of the free list, else a new allocation; the fill then
\* overwrites the buffer outside the mutex.
GetBuf(r) ==
    /\ rpc[r] = "alloc" /\ MuFree
    /\ \/ /\ plFree # <<>>
          /\ rbuf' = [rbuf EXCEPT ![r] = Last(plFree)]
          /\ plFree' = PopFree
       \/ /\ plFree = <<>> /\ FreshBufs # {}
          /\ rbuf' = [rbuf EXCEPT ![r] = CHOOSE b \in FreshBufs : TRUE]
          /\ UNCHANGED plFree
    /\ content' = [content EXCEPT ![rbuf'[r]] = Junk]
    /\ rpc' = [rpc EXCEPT ![r] = "fill"]
    /\ UNCHANGED <<slot, ws, queueVars, rjob, clock, gen, stopping, cpc,
                   creq, views, faults>>

\* A worker goes on to its hot_flight epilogue; an inline fill returns to
\* its caller.
AfterRun(r) == rpc' = [rpc EXCEPT ![r] = IF r \in Workers THEN "retire"
                                         ELSE "idle"]
AfterJob(r) == rjob' = [rjob EXCEPT ![r] = IF r \in Workers THEN @
                                           ELSE NoJob]

\* An allocation failure drops the identity of the slot.  Regression: the
\* slot stays LOADING.
DropEid(s) == [slot EXCEPT ![s].eid = NoEid]
Drop(s)    == [slot EXCEPT ![s].eid = NoEid, ![s].state = "empty"]

AllocFail(r) ==
    /\ rpc[r] = "alloc" /\ MuFree
    /\ faults.alloc < MaxAllocFaults
    /\ faults' = [faults EXCEPT !.alloc = @ + 1]
    /\ slot' = Drop(rjob[r].slot)
    /\ cpc' = WakeCompute
    /\ AfterRun(r) /\ AfterJob(r)
    /\ UNCHANGED <<ws, queueVars, rbuf, bufVars, clock, gen, stopping, creq,
                   views>>

\* The tag check of the claim.
Claims(j) == slot[j.slot].state = "loading" /\ slot[j.slot].gen = j.gen

ReadOk(r) ==
    LET j == rjob[r] IN
    /\ rpc[r] = "fill" /\ MuFree
    /\ IF Claims(j)
       THEN /\ slot' = [slot EXCEPT ![j.slot].pl = rbuf[r],
                                    ![j.slot].state = "ready",
                                    ![j.slot].hot = FALSE]
            /\ content' = [content EXCEPT ![rbuf[r]] = <<j.layer, j.eid>>]
            /\ UNCHANGED plFree
       ELSE /\ slot' = [slot EXCEPT ![j.slot].state = "empty",
                                    ![j.slot].hot = FALSE]
            /\ plFree' = Put(rbuf[r])
            /\ UNCHANGED content
    /\ cpc' = WakeCompute
    /\ rbuf' = [rbuf EXCEPT ![r] = NoBuf]
    /\ AfterRun(r) /\ AfterJob(r)
    /\ UNCHANGED <<ws, queueVars, clock, gen, stopping, creq, views, faults>>

ReadFail(r) ==
    /\ rpc[r] = "fill" /\ MuFree
    /\ faults.read < MaxReadFaults
    /\ faults' = [faults EXCEPT !.read = @ + 1]
    /\ slot' = [slot EXCEPT ![rjob[r].slot].state = "empty",
                            ![rjob[r].slot].hot = FALSE,
                            ![rjob[r].slot].eid = NoEid]
    /\ plFree' = Put(rbuf[r])
    /\ cpc' = WakeCompute
    /\ rbuf' = [rbuf EXCEPT ![r] = NoBuf]
    /\ AfterRun(r) /\ AfterJob(r)
    /\ UNCHANGED <<ws, queueVars, content, clock, gen, stopping, creq, views>>

Retire(w) ==
    /\ rpc[w] = "retire" /\ MuFree
    /\ hotFlight' = IF rjob[w].hot THEN hotFlight - 1 ELSE hotFlight
    /\ rpc' = [rpc EXCEPT ![w] = "idle"]
    /\ rjob' = [rjob EXCEPT ![w] = NoJob]
    /\ UNCHANGED <<slot, ws, jobs, specQ, rbuf, bufVars, clock, gen,
                   stopping, cpc, creq, views, faults>>

-----------------------------------------------------------------------------
(* apus_gcache_close: stop the workers, join them, free everything.        *)

\* pthread_cond_broadcast(&st->jq_cv).  Regression: a signal.
WakeOneWorker ==
    IF Asleep = {} THEN rpc
    ELSE [rpc EXCEPT ![CHOOSE w \in Asleep : TRUE] = "idle"]
WakeWorkers == [r \in Runners |-> IF rpc[r] = "asleep" THEN "idle"
                                  ELSE rpc[r]]

Close ==
    /\ ComputeFree /\ rpc[Pilot] = "idle" /\ views = {}
    /\ stopping' = TRUE
    /\ rpc' = WakeWorkers
    /\ cpc' = "joining"
    /\ UNCHANGED <<slot, ws, queueVars, rjob, rbuf, bufVars, clock, gen,
                   creq, views, faults>>

Join ==
    /\ cpc = "joining" /\ \A w \in Workers : rpc[w] = "exited"
    /\ cpc' = "closed"
    /\ slot' = [s \in Slots |-> Blank]
    /\ ws' = [l \in Layers |-> <<>>]
    /\ jobs' = <<>> /\ plFree' = <<>>
    /\ content' = [b \in Bufs |-> Junk]
    /\ UNCHANGED <<specQ, hotFlight, runVars, clock, gen, stopping, creq,
                   views, faults>>

\* pthread_cond_wait may return on its own.
Spurious ==
    /\ SpuriousWakes
    /\ \/ cpc = "blocked" /\ cpc' = "woken" /\ UNCHANGED rpc
       \/ /\ \E w \in Asleep : rpc' = [rpc EXCEPT ![w] = "idle"]
          /\ UNCHANGED cpc
    /\ UNCHANGED <<slot, ws, queueVars, rjob, rbuf, bufVars, clock, gen,
                   stopping, creq, views, faults>>

Closed == cpc = "closed" /\ UNCHANGED vars

-----------------------------------------------------------------------------
RunnerStep(r) == GetBuf(r) \/ AllocFail(r) \/ ReadOk(r) \/ ReadFail(r)
WorkerStep(w) ==
    RunnerStep(w) \/ Sleep(w) \/ Exit(w) \/ Pop(w) \/ Retire(w)
ComputeStep == WaitReady \/ Promote \/ PromoteDone \/ RssGuard \/ Join
ClientCall ==
    \/ \E l \in Layers, e \in Experts :
          Hint(l, e) \/ HintDemand(l, e) \/ Resolve(l, e)
    \/ \E l \in Layers : LayerEnd(l)
    \/ Close

Next ==
    \/ ClientCall
    \/ ComputeStep
    \/ \E w \in Workers : WorkerStep(w)
    \/ \E c \in Callers : RunnerStep(c)
    \/ Spurious
    \/ Closed

Spec == Init /\ [][Next]_vars

\* Every thread that can take a step takes one: the scheduler runs it and
\* the mutex is granted.  Nothing makes a client start a call.
Fairness ==
    /\ WF_vars(ComputeStep)
    /\ \A w \in Workers : WF_vars(WorkerStep(w))
    /\ \A c \in Callers : WF_vars(RunnerStep(c))
FairSpec == Spec /\ Fairness

-----------------------------------------------------------------------------
(* Correctness.                                                            *)

Running == {r \in Runners : rpc[r] \in {"alloc", "fill"}}

Targets(j) ==
    /\ \E k \in DOMAIN ws[j.layer] : ws[j.layer][k] = j.slot
    /\ slot[j.slot].state = "loading"
    /\ slot[j.slot].eid = j.eid
    /\ slot[j.slot].gen = j.gen

JobsTarget ==
    /\ \A k \in DOMAIN jobs : Targets(jobs[k])
    /\ \A r \in Running : Targets(rjob[r])

JobsApart ==
    /\ \A j, k \in DOMAIN jobs : jobs[j].slot = jobs[k].slot => j = k
    /\ \A q, r \in Running : rjob[q].slot = rjob[r].slot => q = r
    /\ \A k \in DOMAIN jobs, r \in Running : jobs[k].slot # rjob[r].slot

\* Every fill, queued or running, still points at the LOADING working-set
\* entry it was submitted for, and no two fills share one: run_job never
\* writes through a freed ApusGslot pointer, and the stale-generation branch
\* of its claim is never needed.
JobOwnsSlot == JobsTarget /\ JobsApart

\* What makes JobOwnsSlot inductive.  A READY slot is one with a
\* payload; ...
PayloadIffReady ==
    \A s \in Slots : slot[s].pl # NoBuf <=> slot[s].state = "ready"

\* ... a thread running a fill has its job, and from pl_get on its buffer;
RunnersHold ==
    \A r \in Runners :
        /\ rpc[r] \in {"alloc", "fill", "retire"} => rjob[r] \in Job
        /\ rpc[r] = "fill" => rbuf[r] \in Bufs

\* a heap slot is in one working set, at one place;
WsDistinct ==
    \A l, m \in Layers : \A j \in DOMAIN ws[l], k \in DOMAIN ws[m] :
        ws[l][j] = ws[m][k] => l = m /\ j = k

\* a waiting resolve waits on an entry of its layer's working set, which has
\* its expert or lost it; layer_end walks a layer from entry 1 up;
RequestValid ==
    /\ cpc \in {"blocked", "woken", "promote"} => creq.layer \in Layers
    /\ cpc = "promote" => creq.idx >= 1
    /\ cpc \in {"blocked", "woken"} =>
          /\ creq.eid \in Experts
          /\ \E k \in DOMAIN ws[creq.layer] :
                ws[creq.layer][k] = creq.slot
          /\ slot[creq.slot].eid \in {creq.eid, NoEid}

\* and close is called with no call in progress.
CloseQuiet ==
    cpc \in {"joining", "closed"} =>
        stopping /\ \A c \in Callers : rpc[c] = "idle"

IInv ==
    /\ TypeOK /\ PayloadIffReady /\ RunnersHold /\ WsDistinct
    /\ RequestValid /\ CloseQuiet /\ JobOwnsSlot

\* A slot is LOADING only while a fill for it is queued or running, and a
\* resolve only sleeps on a LOADING slot: every wait has a wake-up coming.
WaitIsServed ==
    /\ \A s \in Slots : slot[s].state = "loading" =>
          \/ \E k \in DOMAIN jobs : jobs[k].slot = s
          \/ \E r \in Running : rjob[r].slot = s
    /\ cpc = "blocked" => slot[creq.slot].state = "loading"

\* The wake-ups of jq_cv: a queued job, or a close, never finds every worker
\* asleep; after a close none is.
WorkersAwake ==
    /\ jobs # <<>> => Asleep # Workers
    /\ stopping => Asleep = {}

\* The bytes behind a view stay the weights of the expert it was resolved
\* for until the layer_end that ends the view, whatever the workers, the
\* pilot's hints and the guard do meanwhile.
ViewsStable ==
    \A v \in views :
        /\ content[v.pl] = <<v.layer, v.eid>>
        /\ \E s \in Slots : slot[s].pl = v.pl /\ slot[s].state = "ready"

\* A payload buffer has one owner: a slot, a running fill, or one place of
\* the free list.  A slot has a buffer exactly when it is READY.
BufferOwnedOnce ==
    /\ PayloadIffReady
    /\ \A s, t \in Slots :
          slot[s].pl = slot[t].pl /\ slot[s].pl # NoBuf => s = t
    /\ \A q, r \in Runners :
          rbuf[q] = rbuf[r] /\ rbuf[q] # NoBuf => q = r
    /\ \A s \in Slots, r \in Runners : slot[s].pl = rbuf[r] =>
          slot[s].pl = NoBuf
    /\ IsInjective(plFree)
    /\ \A b \in ToSet(plFree) :
          /\ \A s \in Slots : slot[s].pl # b
          /\ \A r \in Runners : rbuf[r] # b

\* spec_q counts the queued jobs submitted as speculative and stays within
\* spec_cap; hot_flight counts the demand-class fills being run.  A leak in
\* either would turn speculation off for good, or let it flood the queue.
ClassAccounting ==
    /\ specQ = Cardinality({k \in DOMAIN jobs : ~jobs[k].hot})
    /\ specQ <= SpecCap
    /\ hotFlight = Cardinality({w \in Workers :
          rpc[w] \in {"alloc", "fill", "retire"} /\ rjob[w].hot})

\* Promotion never replaces a payload some resolve used by one that was used
\* earlier, or never (a speculative fill): the header's claim that
\* speculation cannot evict a demand-used payload.
SpecNeverEvicts ==
    [][\A s \in LruSlots :
          /\ slot[s].pl # NoBuf /\ slot[s].last > 0
          /\ slot'[s].pl \notin {NoBuf, slot[s].pl}
          => slot'[s].last >= slot[s].last]_vars

\* The slots of layer l that have expert e or will: its working-set entries
\* and the LRU slots with its payload.
LivePos(l, e) == {i \in LruPos(l, e) : slot[<<l, i>>].pl # NoBuf}
Copies(l, e)  == {ws[l][k] : k \in WsPos(l, e)}
                 \cup {<<l, i>> : i \in LivePos(l, e)}
Single(S) == \A s, t \in S : s = t

\* An LRU slot emptied by the guard keeps its eid, and a lookup stops at the
\* first slot with the eid: it misses a live copy in a later slot.
Hidden(l, e) ==
    LivePos(l, e) # {} /\ First(LruPos(l, e)) \notin LivePos(l, e)

\* The dedupe of hint and resolve, as far as the code goes: an expert never
\* has two working-set entries (so never two loads under way), and a second
\* copy of it only appears by a step that begins with its one copy hidden
\* behind a slot the guard emptied.
NoDuplicateLoad ==
    [][\A l \in Layers, e \in Experts :
          /\ Single(WsPos(l, e)')
          /\ Single(Copies(l, e)) /\ ~Hidden(l, e) => Single(Copies(l, e)')]_vars

\* The header's claim for hint, "Dedupes against slots, working set, and
\* in-flight jobs", without that exception.
Dedupes == \A l \in Layers, e \in Experts : Single(Copies(l, e))

\* A failed pread resets the slot "so a waiter re-submits a fresh job", as
\* correctness "does not depend on any speculative load ever running": when
\* the pread of a speculative fill fails, a resolve that joined the fill can
\* still submit its own.
SpecFaultIsRetried ==
    [][\A w \in Workers :
          /\ ReadFail(w) /\ ~rjob[w].hot
          /\ cpc \in {"blocked", "woken"} /\ creq.slot = rjob[w].slot
          => slot'[creq.slot].eid # NoEid]_vars

\* A resolve returns (with the weights or an error), whatever the load it
\* waits for does.
ResolveReturns == cpc \in {"blocked", "woken"} ~> cpc = "free"

\* close drains the queue, and the join of the workers ends.
CloseReturns == cpc = "joining" ~> cpc = "closed"
=============================================================================
