---------------------------- MODULE GcacheProofs ----------------------------
(***************************************************************************)
(* Proofs about the expert cache, for every number of layers, experts,     *)
(* slots, workers and buffers: its type invariant; that every fill owns    *)
(* the slot it was submitted for (JobOwnsSlot); that a LOADING slot has a  *)
(* fill coming, so no resolve sleeps for nothing (WaitIsServed); that no   *)
(* wake-up of the workers is lost (WorkersAwake); and that the two         *)
(* counters that ration speculation count what they say (ClassAccounting). *)
(*                                                                         *)
(* Behind them, what the reader of the cache relies on: a payload buffer   *)
(* has one owner (BufferOwnedOnce), speculation evicts nothing a resolve   *)
(* used (SpecNeverEvicts), and, to a caller that holds views of one layer  *)
(* at a time, views keep their bytes (ViewsStable) and the cache is the    *)
(* expert store (RefinesStore).  An expert is loaded a second time only    *)
(* while its live copy is hidden behind an emptied slot (NoDuplicateLoad). *)
(***************************************************************************)
EXTENDS GcacheStore, SequenceTheorems, FiniteSetTheorems, FunctionTheorems,
        WellFoundedInduction, TLAPS

-----------------------------------------------------------------------------
(* Facts about the helpers.                                                *)

\* A non-empty set of naturals has the least element First chooses.
LEMMA FirstIn ==
    ASSUME NEW S, S \subseteq Nat, S # {}
    PROVE  First(S) \in S
<1> DEFINE R == {p \in Nat \X Nat : p[1] < p[2]}
<1>1. IsWellFoundedOn(R, Nat)
    BY NatLessThanWellFounded, Zenon DEF OpToRel
<1>2. \E x \in S : \A y \in S : ~(<<y, x>> \in R)
    <2> HIDE DEF R
    <2>1. QED BY <1>1, WFMin
<1>3. \E x \in S : \A y \in S : x <= y
    <2>1. PICK x \in S : \A y \in S : ~(<<y, x>> \in R)
        BY <1>2
    <2>2. ASSUME NEW y \in S PROVE x <= y
        <3>1. <<y, x>> \in Nat \X Nat /\ ~(y < x)
            BY <2>1
        <3>2. QED BY <3>1
    <2>3. QED BY <2>2
<1>4. QED BY <1>3 DEF First

\* Appending keeps every entry where it is and adds one behind them.
LEMMA AppendFacts ==
    ASSUME NEW S, NEW q \in Seq(S), NEW x \in S
    PROVE  /\ Append(q, x) \in Seq(S)
           /\ Len(q) \in Nat
           /\ DOMAIN q = 1..Len(q)
           /\ DOMAIN Append(q, x) = 1..(Len(q) + 1)
           /\ \A k \in DOMAIN q : Append(q, x)[k] = q[k]
           /\ Append(q, x)[Len(q) + 1] = x
<1>1. Append(q, x) \in Seq(S) /\ Len(Append(q, x)) = Len(q) + 1
    BY AppendProperties
<1>2. DOMAIN Append(q, x) = 1..(Len(q) + 1)
    BY <1>1, LenProperties
<1>3. DOMAIN q = 1..Len(q) /\ Len(q) \in Nat
    BY LenProperties
<1>4. QED BY <1>1, <1>2, <1>3, AppendProperties

\* RemoveAt closes the gap and keeps the order.
LEMMA RemoveFacts ==
    ASSUME NEW S, NEW q \in Seq(S), NEW i \in 1..Len(q)
    PROVE  /\ RemoveAt(q, i) \in Seq(S)
           /\ Len(q) \in Nat
           /\ DOMAIN q = 1..Len(q)
           /\ DOMAIN RemoveAt(q, i) = 1..(Len(q) - 1)
           /\ \A k \in 1..(Len(q) - 1) :
                RemoveAt(q, i)[k] = IF k < i THEN q[k] ELSE q[k + 1]
<1> DEFINE n == Len(q)
           a == SubSeq(q, 1, i - 1)
           b == SubSeq(q, i + 1, n)
<1>1. /\ n \in Nat /\ i \in Nat \ {0} /\ i <= n /\ DOMAIN q = 1..n
      /\ \A k \in 1..n : q[k] \in S
    BY LenProperties, ElementOfSeq
<1> HIDE DEF n
<1>2. a \in Seq(S)
    BY <1>1, SubSeqProperties
<1>3. Len(a) = i - 1
    BY <1>1, SubSeqProperties
<1>4. \A k \in 1..(i - 1) : a[k] = q[k]
    BY <1>1, SubSeqProperties
<1>5. b \in Seq(S)
    BY <1>1, SubSeqProperties
<1>6. Len(b) = n - i
    <2>1. Len(b) = IF i + 1 <= n THEN n - (i + 1) + 1 ELSE 0
        BY <1>1, SubSeqProperties
    <2>2. QED BY <2>1, <1>1
<1>7. \A k \in 1..(n - i) : b[k] = q[k + i]
    BY <1>1, SubSeqProperties
<1>8. RemoveAt(q, i) = a \o b
    BY DEF RemoveAt, n
<1> HIDE DEF a, b
<1>9. /\ a \o b \in Seq(S) /\ Len(a \o b) = n - 1
      /\ DOMAIN (a \o b) = 1..(n - 1)
    <2>1. a \o b \in Seq(S)
        BY <1>2, <1>5, ConcatProperties
    <2>2. Len(a \o b) = Len(a) + Len(b)
        BY <1>2, <1>5, ConcatProperties
    <2>3. Len(a \o b) = n - 1
        BY <2>2, <1>1, <1>3, <1>6
    <2>4. DOMAIN (a \o b) = 1..Len(a \o b)
        BY <2>1, LenProperties
    <2>5. QED BY <2>1, <2>3, <2>4
<1>10. ASSUME NEW k \in 1..(n - 1)
       PROVE  (a \o b)[k] = IF k < i THEN q[k] ELSE q[k + 1]
    <2>1. (a \o b)[k] = IF k <= Len(a) THEN a[k] ELSE b[k - Len(a)]
        BY <1>1, <1>2, <1>3, <1>5, <1>6, ConcatProperties
    <2>2. CASE k < i
        BY <2>1, <2>2, <1>1, <1>3, <1>4
    <2>3. CASE ~(k < i)
        <3>1. k - (i - 1) \in 1..(n - i)
            BY <2>3, <1>1
        <3>2. (a \o b)[k] = b[k - (i - 1)]
            BY <2>1, <2>3, <1>1, <1>3
        <3>3. b[k - (i - 1)] = q[k - (i - 1) + i]
            BY <3>1, <1>7
        <3>4. k - (i - 1) + i = k + 1
            BY <1>1
        <3>5. QED BY <2>3, <3>2, <3>3, <3>4, <1>1
    <2>4. QED BY <2>2, <2>3, <1>1
<1>11. QED BY <1>1, <1>8, <1>9, <1>10 DEF n

\* The updates of a slot record that the actions make, each a slot record.
LEMMA SlotUpdates ==
    ASSUME NEW r \in Slot
    PROVE  /\ \A n \in Nat : [r EXCEPT !.last = n] \in Slot
           /\ \A h \in BOOLEAN : [r EXCEPT !.hot = h] \in Slot
           /\ \A n \in Nat :
                [r EXCEPT !.state = "loading", !.gen = n] \in Slot
           /\ [r EXCEPT !.pl = NoBuf, !.state = "empty"] \in Slot
           /\ [r EXCEPT !.eid = NoEid, !.state = "empty"] \in Slot
           /\ [r EXCEPT !.state = "empty", !.hot = FALSE] \in Slot
           /\ [r EXCEPT !.state = "empty", !.hot = FALSE, !.eid = NoEid]
                \in Slot
           /\ \A b \in Bufs :
                [r EXCEPT !.pl = b, !.state = "ready", !.hot = FALSE]
                \in Slot
BY DEF Slot, State

-----------------------------------------------------------------------------
(* What the helpers of the model return.                                   *)

\* What a lookup finds is a slot with the expert it was asked for, in the
\* layer's working set or else with a payload.
LEMMA LookupFacts ==
    ASSUME TypeOK, NEW l \in Layers, NEW e \in Experts,
           Lookup(l, e) # NoSlot
    PROVE  /\ Lookup(l, e) \in Slots
           /\ slot[Lookup(l, e)].eid = e
           /\ \/ \E k \in DOMAIN ws[l] : ws[l][k] = Lookup(l, e)
              \/ slot[Lookup(l, e)].pl # NoBuf
<1>1. CASE WsPos(l, e) # {}
    <2>1. WsPos(l, e) \subseteq Nat
        BY LenProperties DEF TypeOK, WsPos
    <2>2. First(WsPos(l, e)) \in WsPos(l, e)
        BY <1>1, <2>1, FirstIn
    <2>3. Lookup(l, e) = ws[l][First(WsPos(l, e))]
        BY <1>1 DEF Lookup
    <2>4. /\ First(WsPos(l, e)) \in DOMAIN ws[l]
          /\ slot[ws[l][First(WsPos(l, e))]].eid = e
        BY <2>2 DEF WsPos
    <2>5. ws[l][First(WsPos(l, e))] \in Heap
        <3>1. ws[l] \in Seq(Heap) BY DEF TypeOK
        <3>2. QED BY <3>1, <2>4, ElementOfSeq, LenProperties
    <2>6. QED BY <2>3, <2>4, <2>5 DEF Slots
<1>2. CASE WsPos(l, e) = {}
    <2>1. LruPos(l, e) # {}
        BY <1>2 DEF Lookup
    <2>2. First(LruPos(l, e)) \in LruPos(l, e)
        <3>1. LruPos(l, e) \subseteq Nat BY DEF LruPos
        <3>2. QED BY <2>1, <3>1, FirstIn
    <2>3. /\ Lookup(l, e) = <<l, First(LruPos(l, e))>>
          /\ slot[Lookup(l, e)].pl # NoBuf
        BY <1>2 DEF Lookup
    <2>4. QED BY <2>2, <2>3 DEF LruPos, Slots, LruSlots
<1>3. QED BY <1>1, <1>2

\* calloc returns an address no working set holds.
LEMMA NewSlotFacts ==
    ASSUME FreeHeap # {}
    PROVE  NewSlot \in Heap /\ ~InWs(NewSlot)
BY DEF NewSlot, FreeHeap

\* A worker picks a job of the queue.
LEMMA PickFacts ==
    ASSUME TypeOK, jobs # <<>>
    PROVE  Pick \in 1..Len(jobs)
<1>1. Len(jobs) \in Nat \ {0} /\ DOMAIN jobs = 1..Len(jobs)
    BY EmptySeq, LenProperties DEF TypeOK
<1>2. CASE Boost /\ HotPos # {}
    <2>1. HotPos \subseteq 1..Len(jobs)
        BY <1>1 DEF HotPos
    <2>2. First(HotPos) \in HotPos
        <3>1. HotPos \subseteq Nat BY <1>1, <2>1
        <3>2. QED BY <1>2, <3>1, FirstIn
    <2>3. QED BY <1>2, <2>1, <2>2 DEF Pick
<1>3. CASE ~(Boost /\ HotPos # {})
    BY <1>1, <1>3 DEF Pick
<1>4. QED BY <1>2, <1>3

\* The victim of a promotion is a slot of the LRU that no fill is after.
LEMMA VictimFacts ==
    ASSUME NEW l \in Layers, Victim(l) # NoSlot
    PROVE  Victim(l) \in LruSlots /\ slot[Victim(l)].state # "loading"
<1> DEFINE cand == {i \in 1..NSlots : slot[<<l, i>>].state # "loading"}
           unused == {i \in cand : slot[<<l, i>>].eid = NoEid}
           coldest == {i \in cand : \A j \in cand :
                            slot[<<l, i>>].last <= slot[<<l, j>>].last}
<1>1. cand \subseteq Nat
    BY ConstAssumption
<1>2. CASE unused # {}
    <2>1. First(unused) \in unused
        BY <1>1, <1>2, FirstIn
    <2>2. Victim(l) = <<l, First(unused)>>
        BY <1>2 DEF Victim
    <2>3. QED BY <2>1, <2>2 DEF LruSlots
<1>3. CASE unused = {} /\ coldest # {}
    <2>1. First(coldest) \in coldest
        BY <1>1, <1>3, FirstIn
    <2>2. Victim(l) = <<l, First(coldest)>>
        BY <1>3 DEF Victim
    <2>3. QED BY <2>1, <2>2 DEF LruSlots
<1>4. CASE unused = {} /\ coldest = {}
    BY <1>4 DEF Victim
<1>5. QED BY <1>2, <1>3, <1>4

\* One slot of the cache or the heap is not the other.
LEMMA HeapIsNotLru == \A s \in Heap : s \notin LruSlots /\ s \in Slots
BY ConstAssumption DEF Slots

-----------------------------------------------------------------------------
(* The inductive step, action by action.                                   *)

\* A step that leaves the queue, the slots' loads and the working sets to
\* the fills that own them keeps JobOwnsSlot: fills may only have ended.
LEMMA FillsKept ==
    ASSUME JobOwnsSlot, jobs' = jobs,
           \A r \in Runners : rpc'[r] \in {"alloc", "fill"} =>
                r \in Running /\ rjob'[r] = rjob[r],
           \A j \in Job :
              (\/ \E k \in DOMAIN jobs : jobs[k] = j
               \/ \E r \in Runners : rpc'[r] \in {"alloc", "fill"} /\ rjob[r] = j)
              /\ Targets(j) => Targets(j)',
           jobs \in Seq(Job), RunnersHold
    PROVE  JobOwnsSlot'
<1>1. \A k \in DOMAIN jobs : jobs[k] \in Job
    BY ElementOfSeq, LenProperties
<1>2. \A r \in Running : rjob[r] \in Job
    BY DEF Running, RunnersHold
<1>3. \A r \in Running' : r \in Running /\ rjob'[r] = rjob[r]
    BY DEF Running
<1>4. \A k \in DOMAIN jobs' : Targets(jobs[k])'
    BY <1>1 DEF JobOwnsSlot, JobsTarget
<1>5. \A r \in Running' : Targets(rjob[r])'
    BY <1>2, <1>3 DEF JobOwnsSlot, JobsTarget, Running
<1>6. JobsTarget'
    BY <1>3, <1>4, <1>5 DEF JobsTarget
<1>7. JobsApart'
    BY <1>3 DEF JobOwnsSlot, JobsApart
<1>8. QED BY <1>6, <1>7 DEF JobOwnsSlot

\* A worker goes to sleep on jq_cv.
LEMMA SleepKeeps ==
    ASSUME IInv, NEW w \in Workers, Sleep(w)
    PROVE  IInv'
<1> USE DEF IInv
<1>1. TypeOK'
    BY DEF TypeOK, Sleep, Runners, queueVars, bufVars
<1>2. PayloadIffReady' /\ WsDistinct' /\ RequestValid'
    BY DEF PayloadIffReady, WsDistinct, RequestValid, Sleep
<1>3. RunnersHold' /\ CloseQuiet'
    BY ConstAssumption
       DEF RunnersHold, CloseQuiet, Sleep, TypeOK, Runners
<1>4. JobOwnsSlot'
    <2>1. \A r \in Runners : rpc'[r] \in {"alloc", "fill"} =>
            r \in Running /\ rjob'[r] = rjob[r]
        BY DEF Sleep, TypeOK, Running
    <2>2. \A j \in Job : Targets(j) => Targets(j)'
        BY DEF Targets, Sleep
    <2>3. QED BY <2>1, <2>2, FillsKept DEF TypeOK, Sleep, queueVars
<1>5. QED BY <1>1, <1>2, <1>3, <1>4

\* A worker sees stopping and an empty queue, and ends.
LEMMA ExitKeeps ==
    ASSUME IInv, NEW w \in Workers, Exit(w)
    PROVE  IInv'
<1> USE DEF IInv
<1>1. TypeOK'
    BY DEF TypeOK, Exit, Runners, queueVars, bufVars
<1>2. PayloadIffReady' /\ WsDistinct' /\ RequestValid'
    BY DEF PayloadIffReady, WsDistinct, RequestValid, Exit
<1>3. RunnersHold' /\ CloseQuiet'
    BY ConstAssumption
       DEF RunnersHold, CloseQuiet, Exit, TypeOK, Runners
<1>4. JobOwnsSlot'
    <2>1. \A r \in Runners : rpc'[r] \in {"alloc", "fill"} =>
            r \in Running /\ rjob'[r] = rjob[r]
        BY DEF Exit, TypeOK, Running
    <2>2. \A j \in Job : Targets(j) => Targets(j)'
        BY DEF Targets, Exit
    <2>3. QED BY <2>1, <2>2, FillsKept DEF TypeOK, Exit, queueVars
<1>5. QED BY <1>1, <1>2, <1>3, <1>4

\* A worker takes its fill off hot_flight.
LEMMA RetireKeeps ==
    ASSUME IInv, NEW w \in Workers, Retire(w)
    PROVE  IInv'
<1> USE DEF IInv
<1>1. TypeOK'
    BY DEF TypeOK, Retire, Runners, queueVars, bufVars
<1>2. PayloadIffReady' /\ WsDistinct' /\ RequestValid'
    BY DEF PayloadIffReady, WsDistinct, RequestValid, Retire
<1>3. RunnersHold' /\ CloseQuiet'
    BY ConstAssumption
       DEF RunnersHold, CloseQuiet, Retire, TypeOK, Runners
<1>4. JobOwnsSlot'
    <2>1. \A r \in Runners : rpc'[r] \in {"alloc", "fill"} =>
            r \in Running /\ rjob'[r] = rjob[r]
        BY DEF Retire, TypeOK, Running
    <2>2. \A j \in Job : Targets(j) => Targets(j)'
        BY DEF Targets, Retire
    <2>3. QED BY <2>1, <2>2, FillsKept DEF TypeOK, Retire
<1>5. QED BY <1>1, <1>2, <1>3, <1>4

\* The stack of recycled buffers: its top is a buffer, and so is the rest.
LEMMA PopFreeFacts ==
    ASSUME TypeOK, plFree # <<>>
    PROVE  Last(plFree) \in Bufs /\ PopFree \in Seq(Bufs)
<1>1. /\ plFree \in Seq(Bufs) /\ Len(plFree) \in Nat \ {0}
      /\ \A k \in 1..Len(plFree) : plFree[k] \in Bufs
    BY EmptySeq, ElementOfSeq DEF TypeOK
<1>2. Last(plFree) \in Bufs
    BY <1>1 DEF Last
<1>3. \A k \in 1..(Len(plFree) - 1) : plFree[k] \in Bufs
    BY <1>1
<1>4. SubSeq(plFree, 1, Len(plFree) - 1) \in Seq(Bufs)
    BY <1>1, <1>3, SubSeqProperties
<1>5. QED BY <1>2, <1>4 DEF PopFree, Front

\* pl_get hands a fill its buffer.
LEMMA GetBufKeeps ==
    ASSUME IInv, NEW r \in Runners, GetBuf(r)
    PROVE  IInv'
<1> USE DEF IInv
<1>1. PICK b \in Bufs : rbuf' = [rbuf EXCEPT ![r] = b]
    <2>1. CASE plFree # <<>>
        BY <2>1, PopFreeFacts DEF GetBuf
    <2>2. CASE plFree = <<>>
        BY <2>2 DEF GetBuf, FreshBufs
    <2>3. QED BY <2>1, <2>2
<1>2. plFree' \in Seq(Bufs)
    BY PopFreeFacts DEF GetBuf, TypeOK
<1>3. TypeOK'
    <2>1. content' \in [Bufs -> Bytes]
        BY DEF GetBuf, TypeOK, Bytes
    <2>2. QED BY <1>1, <1>2, <2>1 DEF TypeOK, GetBuf, queueVars
<1>4. PayloadIffReady' /\ WsDistinct' /\ RequestValid'
    BY DEF PayloadIffReady, WsDistinct, RequestValid, GetBuf
<1>5. RunnersHold' /\ CloseQuiet'
    BY <1>1 DEF RunnersHold, CloseQuiet, GetBuf, TypeOK
<1>6. JobOwnsSlot'
    <2>1. \A q \in Runners : rpc'[q] \in {"alloc", "fill"} =>
            q \in Running /\ rjob'[q] = rjob[q]
        BY DEF GetBuf, TypeOK, Running
    <2>2. \A j \in Job : Targets(j) => Targets(j)'
        BY DEF Targets, GetBuf
    <2>3. QED BY <2>1, <2>2, FillsKept DEF TypeOK, GetBuf, queueVars
<1>7. QED BY <1>3, <1>4, <1>5, <1>6

\* A condition wait returns on its own.
LEMMA SpuriousKeeps ==
    ASSUME IInv, Spurious
    PROVE  IInv'
<1> USE DEF IInv
<1>1. TypeOK'
    BY DEF TypeOK, Spurious, Runners, queueVars, bufVars, Asleep
<1>2. PayloadIffReady' /\ WsDistinct' /\ RequestValid'
    BY DEF PayloadIffReady, WsDistinct, RequestValid, Spurious
<1>3. RunnersHold' /\ CloseQuiet'
    BY ConstAssumption
       DEF RunnersHold, CloseQuiet, Spurious, TypeOK, Runners, Asleep
<1>4. JobOwnsSlot'
    <2>1. \A r \in Runners : rpc'[r] \in {"alloc", "fill"} =>
            r \in Running /\ rjob'[r] = rjob[r]
        BY DEF Spurious, TypeOK, Running
    <2>2. \A j \in Job : Targets(j) => Targets(j)'
        BY DEF Targets, Spurious
    <2>3. QED BY <2>1, <2>2, FillsKept DEF TypeOK, Spurious, queueVars
<1>5. QED BY <1>1, <1>2, <1>3, <1>4

\* close sets stopping and wakes the workers.
LEMMA CloseKeeps ==
    ASSUME IInv, Close
    PROVE  IInv'
<1> USE DEF IInv
<1>1. TypeOK'
    BY DEF TypeOK, Close, WakeWorkers, queueVars, bufVars
<1>2. PayloadIffReady' /\ WsDistinct' /\ RequestValid'
    BY DEF PayloadIffReady, WsDistinct, RequestValid, Close
<1>3. RunnersHold' /\ CloseQuiet'
    BY DEF RunnersHold, CloseQuiet, Close, WakeWorkers, ComputeFree,
           TypeOK, Runners, Callers
<1>4. JobOwnsSlot'
    <2>1. \A r \in Runners : rpc'[r] \in {"alloc", "fill"} =>
            r \in Running /\ rjob'[r] = rjob[r]
        BY DEF Close, WakeWorkers, TypeOK, Running
    <2>2. \A j \in Job : Targets(j) => Targets(j)'
        BY DEF Targets, Close
    <2>3. QED BY <2>1, <2>2, FillsKept DEF TypeOK, Close, queueVars
<1>5. QED BY <1>1, <1>2, <1>3, <1>4

\* close frees everything once the workers are gone.
LEMMA JoinKeeps ==
    ASSUME IInv, Join
    PROVE  IInv'
<1> USE DEF IInv
<1>1. TypeOK'
    BY EmptySeq
       DEF TypeOK, Join, Blank, Slot, State, Bytes, runVars
<1>2. PayloadIffReady' /\ WsDistinct' /\ RequestValid'
    BY DEF PayloadIffReady, WsDistinct, RequestValid, Join, Blank
<1>3. RunnersHold' /\ CloseQuiet'
    BY DEF RunnersHold, CloseQuiet, Join, runVars
<1>4. Running' = {}
    BY DEF Running, Join, CloseQuiet, Runners, runVars
<1>5. JobOwnsSlot'
    BY <1>4, EmptySeq DEF JobOwnsSlot, JobsTarget, JobsApart, Join
<1>6. QED BY <1>1, <1>2, <1>3, <1>5

\* layer_end takes the mutex and starts at entry 1.
LEMMA LayerEndKeeps ==
    ASSUME IInv, NEW l \in Layers, LayerEnd(l)
    PROVE  IInv'
<1> USE DEF IInv
<1>1. TypeOK'
    BY ConstAssumption
       DEF TypeOK, LayerEnd, NoReq, queueVars, bufVars, runVars
<1>2. PayloadIffReady' /\ WsDistinct' /\ RunnersHold' /\ CloseQuiet'
    BY DEF PayloadIffReady, WsDistinct, RunnersHold, CloseQuiet, LayerEnd,
           runVars
<1>3. RequestValid'
    BY DEF RequestValid, LayerEnd, NoReq
<1>4. JobOwnsSlot'
    <2>1. \A r \in Runners : rpc'[r] \in {"alloc", "fill"} =>
            r \in Running /\ rjob'[r] = rjob[r]
        BY DEF LayerEnd, Running, runVars
    <2>2. \A j \in Job : Targets(j) => Targets(j)'
        BY DEF Targets, LayerEnd
    <2>3. QED BY <2>1, <2>2, FillsKept DEF TypeOK, LayerEnd, queueVars
<1>5. QED BY <1>1, <1>2, <1>3, <1>4

\* layer_end has walked the working set.
LEMMA PromoteDoneKeeps ==
    ASSUME IInv, PromoteDone
    PROVE  IInv'
<1> USE DEF IInv
<1>1. TypeOK'
    BY DEF TypeOK, PromoteDone, NoReq, queueVars, bufVars, runVars
<1>2. PayloadIffReady' /\ WsDistinct' /\ RunnersHold' /\ CloseQuiet'
    BY DEF PayloadIffReady, WsDistinct, RunnersHold, CloseQuiet,
           PromoteDone, runVars
<1>3. RequestValid'
    BY DEF RequestValid, PromoteDone
<1>4. JobOwnsSlot'
    <2>1. \A r \in Runners : rpc'[r] \in {"alloc", "fill"} =>
            r \in Running /\ rjob'[r] = rjob[r]
        BY DEF PromoteDone, Running, runVars
    <2>2. \A j \in Job : Targets(j) => Targets(j)'
        BY DEF Targets, PromoteDone
    <2>3. QED BY <2>1, <2>2, FillsKept DEF TypeOK, PromoteDone, queueVars
<1>5. QED BY <1>1, <1>2, <1>3, <1>4

\* A resolve returns -1.
LEMMA FailKeeps ==
    ASSUME IInv, Fail
    PROVE  IInv'
<1> USE DEF IInv
<1>1. TypeOK'
    BY DEF TypeOK, Fail, NoReq, queueVars, bufVars, runVars
<1>2. PayloadIffReady' /\ WsDistinct' /\ RunnersHold' /\ CloseQuiet'
    BY DEF PayloadIffReady, WsDistinct, RunnersHold, CloseQuiet, Fail,
           runVars
<1>3. RequestValid'
    BY DEF RequestValid, Fail
<1>4. JobOwnsSlot'
    <2>1. \A r \in Runners : rpc'[r] \in {"alloc", "fill"} =>
            r \in Running /\ rjob'[r] = rjob[r]
        BY DEF Fail, Running, runVars
    <2>2. \A j \in Job : Targets(j) => Targets(j)'
        BY DEF Targets, Fail
    <2>3. QED BY <2>1, <2>2, FillsKept DEF TypeOK, Fail, queueVars
<1>5. QED BY <1>1, <1>2, <1>3, <1>4

\* Stamping a READY slot disturbs nothing but its clock.
LEMMA DeliverKeeps ==
    ASSUME IInv, NEW l \in Layers, NEW e \in Experts, NEW s \in Slots,
           slot[s].state = "ready", Deliver(l, e, s)
    PROVE  IInv'
<1> USE DEF IInv
<1>1. \A t \in Slots : /\ slot'[t].state = slot[t].state
                       /\ slot'[t].eid = slot[t].eid
                       /\ slot'[t].gen = slot[t].gen
                       /\ slot'[t].pl = slot[t].pl
    BY DEF Deliver, TypeOK, Slot
<1>2. TypeOK'
    <2>1. slot' \in [Slots -> Slot]
        <3>1. [slot[s] EXCEPT !.last = clock + 1] \in Slot
            <4>1. clock + 1 \in Nat /\ slot[s] \in Slot
                BY DEF TypeOK
            <4>2. QED BY <4>1, SlotUpdates
        <3>2. QED BY <3>1 DEF Deliver, TypeOK
    <2>2. slot[s].pl \in Bufs
        BY DEF PayloadIffReady, TypeOK, Slot
    <2>3. views' \in SUBSET [layer : Layers, eid : Experts, pl : Bufs]
        BY <2>2 DEF Deliver, TypeOK
    <2>4. QED BY <2>1, <2>3
              DEF TypeOK, Deliver, NoReq, queueVars, bufVars, runVars
<1>3. PayloadIffReady' /\ WsDistinct' /\ RunnersHold' /\ CloseQuiet'
    BY <1>1 DEF PayloadIffReady, WsDistinct, RunnersHold, CloseQuiet,
                Deliver, runVars
<1>4. RequestValid'
    BY DEF RequestValid, Deliver
<1>5. JobOwnsSlot'
    <2>1. \A r \in Runners : rpc'[r] \in {"alloc", "fill"} =>
            r \in Running /\ rjob'[r] = rjob[r]
        BY DEF Deliver, Running, runVars
    <2>2. \A j \in Job : Targets(j) => Targets(j)'
        BY <1>1 DEF Targets, Deliver, Job
    <2>3. QED BY <2>1, <2>2, FillsKept DEF TypeOK, Deliver, queueVars
<1>6. QED BY <1>2, <1>3, <1>4, <1>5

\* Raising a slot to demand class: the part HintBoost and ResolveJoin share.
LEMMA BoostKeeps ==
    ASSUME IInv, NEW s \in Slots,
           slot' = [slot EXCEPT ![s].hot = TRUE],
           UNCHANGED <<ws, queueVars, runVars, bufVars, clock, gen, stopping,
                       views, faults>>
    PROVE  /\ PayloadIffReady' /\ WsDistinct' /\ RunnersHold' /\ JobOwnsSlot'
           /\ slot' \in [Slots -> Slot]
           /\ \A t \in Slots : slot'[t].eid = slot[t].eid
<1> USE DEF IInv
<1>1. slot' \in [Slots -> Slot]
    <2>1. [slot[s] EXCEPT !.hot = TRUE] \in Slot
        BY SlotUpdates DEF TypeOK
    <2>2. QED BY <2>1 DEF TypeOK
<1>2. \A t \in Slots : /\ slot'[t].state = slot[t].state
                       /\ slot'[t].eid = slot[t].eid
                       /\ slot'[t].gen = slot[t].gen
                       /\ slot'[t].pl = slot[t].pl
    BY DEF TypeOK, Slot
<1>3. PayloadIffReady' /\ WsDistinct' /\ RunnersHold'
    BY <1>2 DEF PayloadIffReady, WsDistinct, RunnersHold, runVars
<1>4. JobOwnsSlot'
    <2>1. \A r \in Runners : rpc'[r] \in {"alloc", "fill"} =>
            r \in Running /\ rjob'[r] = rjob[r]
        BY DEF Running, runVars
    <2>2. \A j \in Job : Targets(j) => Targets(j)'
        BY <1>2 DEF Targets, Job
    <2>3. QED BY <2>1, <2>2, FillsKept DEF TypeOK, queueVars
<1>5. QED BY <1>1, <1>2, <1>3, <1>4

\* The guard frees payloads of READY slots: none that a fill is after.
LEMMA RssGuardKeeps ==
    ASSUME IInv, RssGuard
    PROVE  IInv'
<1> USE DEF IInv
<1>1. PICK D \in SUBSET LiveLru :
        slot' = [s \in Slots |->
                    IF s \in D THEN [slot[s] EXCEPT !.pl = NoBuf,
                                                    !.state = "empty"]
                    ELSE slot[s]]
    BY DEF RssGuard
<1>2. \A s \in D : s \in Slots /\ slot[s].state = "ready"
    BY DEF LiveLru, Slots
<1>3. TypeOK'
    <2>1. slot' \in [Slots -> Slot]
        <3>1. \A s \in Slots :
                [slot[s] EXCEPT !.pl = NoBuf, !.state = "empty"] \in Slot
            BY SlotUpdates DEF TypeOK
        <3>2. QED BY <1>1, <3>1 DEF TypeOK
    <2>2. content' \in [Bufs -> Bytes]
        BY DEF RssGuard, Trash, TypeOK, Bytes
    <2>3. QED BY <2>1, <2>2
              DEF TypeOK, RssGuard, queueVars, runVars
<1>4. PayloadIffReady'
    <2>1. ASSUME NEW s \in Slots
          PROVE  slot'[s].pl # NoBuf <=> slot'[s].state = "ready"
        <3>1. CASE s \in D
            <4>1. slot'[s].pl = NoBuf /\ slot'[s].state = "empty"
                BY <1>1, <3>1 DEF TypeOK, Slot
            <4>2. QED BY <4>1
        <3>2. CASE s \notin D
            <4>1. slot'[s] = slot[s]
                BY <1>1, <3>2
            <4>2. QED BY <4>1 DEF PayloadIffReady
        <3>3. QED BY <3>1, <3>2
    <2>2. QED BY <2>1 DEF PayloadIffReady
<1>5. WsDistinct' /\ RunnersHold' /\ CloseQuiet' /\ RequestValid'
    <2>1. ws' = ws /\ rpc' = rpc /\ rjob' = rjob /\ rbuf' = rbuf
          /\ cpc' = "free"
        BY DEF RssGuard, runVars
    <2>2. WsDistinct' /\ RunnersHold'
        BY <2>1 DEF WsDistinct, RunnersHold
    <2>3. CloseQuiet' /\ RequestValid'
        BY <2>1 DEF CloseQuiet, RequestValid
    <2>4. QED BY <2>2, <2>3
<1>6. JobOwnsSlot'
    <2>1. \A r \in Runners : rpc'[r] \in {"alloc", "fill"} =>
            r \in Running /\ rjob'[r] = rjob[r]
        BY DEF RssGuard, Running, runVars
    <2>2. \A j \in Job : Targets(j) => Targets(j)'
        BY <1>1, <1>2 DEF Targets, Job, RssGuard
    <2>3. QED BY <2>1, <2>2, FillsKept DEF TypeOK, RssGuard, queueVars
<1>7. QED BY <1>3, <1>4, <1>5, <1>6

\* A step that changes nothing.
LEMMA StutterKeeps ==
    ASSUME IInv, UNCHANGED vars
    PROVE  IInv'
<1> USE DEF IInv, vars, queueVars, runVars, bufVars
<1>1. TypeOK'
    BY DEF TypeOK
<1>2. PayloadIffReady' /\ WsDistinct' /\ RequestValid'
    BY DEF PayloadIffReady, WsDistinct, RequestValid
<1>3. RunnersHold' /\ CloseQuiet'
    BY DEF RunnersHold, CloseQuiet
<1>4. JobOwnsSlot'
    <2>1. \A r \in Runners : rpc'[r] \in {"alloc", "fill"} =>
            r \in Running /\ rjob'[r] = rjob[r]
        BY DEF Running
    <2>2. \A j \in Job : Targets(j) => Targets(j)'
        BY DEF Targets
    <2>3. QED BY <2>1, <2>2, FillsKept DEF TypeOK
<1>5. QED BY <1>1, <1>2, <1>3, <1>4

\* A fill submitted for a working-set entry that no fill is after (a new
\* one, or one whose fill was reset) owns it.
LEMMA SubmitKeeps ==
    ASSUME IInv, NEW c \in Callers, NEW l \in Layers, NEW e \in Experts,
           NEW s \in Heap, NEW r \in Slot, r.eid = e, r.pl = NoBuf,
           InWs(s) => slot[s].state = "empty" /\ slot[s].eid = e,
           \A m \in Layers : \A k \in DOMAIN ws[m] :
                k \in DOMAIN ws'[m] /\ ws'[m][k] = ws[m][k],
           \E k \in DOMAIN ws'[l] : ws'[l][k] = s,
           rpc[c] = "idle", Submit(c, l, e, s, r)
    PROVE  /\ PayloadIffReady' /\ RunnersHold' /\ JobOwnsSlot'
           /\ slot' \in [Slots -> Slot] /\ jobs' \in Seq(Job)
           /\ specQ' \in Int /\ hotFlight' = hotFlight /\ rbuf' = rbuf
           /\ rpc' \in [Runners ->
                {"idle", "asleep", "alloc", "fill", "retire", "exited"}]
           /\ rjob' \in [Runners -> Job \cup {NoJob}]
           /\ slot'[s].eid = e
           /\ \A t \in Slots : InWs(t) => slot'[t].eid = slot[t].eid
<1> DEFINE q == [r EXCEPT !.state = "loading", !.gen = gen]
<1> USE DEF IInv
<1>1. s \in Slots /\ gen \in Nat /\ c \in Runners
    BY HeapIsNotLru DEF TypeOK, Runners
<1>2. PICK j \in Job :
        j = [layer |-> l, eid |-> e, slot |-> s, gen |-> gen, hot |-> r.hot]
    BY <1>1 DEF Job, Slot
<1>3. q \in Slot
    BY <1>1, SlotUpdates
<1>4. q.eid = e /\ q.pl = NoBuf /\ q.state = "loading" /\ q.gen = gen
    BY DEF Slot
<1>5. slot' = [slot EXCEPT ![s] = q]
    BY DEF Submit
<1> HIDE DEF q
<1>6. slot'[s] = q /\ \A t \in Slots : t # s => slot'[t] = slot[t]
    BY <1>1, <1>5 DEF TypeOK
<1>7. slot' \in [Slots -> Slot]
    BY <1>3, <1>5 DEF TypeOK
<1>8. PayloadIffReady'
    BY <1>4, <1>6 DEF PayloadIffReady
<1>9. \A t \in Slots : InWs(t) => slot'[t].eid = slot[t].eid
    BY <1>4, <1>6
<1>10. ASSUME NEW i \in Job, Targets(i)
       PROVE  i.slot # s /\ Targets(i)'
    <2>1. i.layer \in Layers /\ i.slot \in Slots
        BY DEF Job
    <2>2. InWs(i.slot)
        BY <1>10, <2>1 DEF Targets, InWs
    <2>3. i.slot # s
        BY <1>10, <2>2 DEF Targets
    <2>4. QED BY <1>10, <1>6, <2>1, <2>3 DEF Targets
<1>11. Targets(j)'
    <2>1. /\ j.layer = l /\ j.slot = s /\ j.eid = e /\ j.gen = gen
        BY <1>2
    <2>2. QED BY <1>1, <1>4, <1>6, <2>1 DEF Targets
<1>12. \A k \in DOMAIN jobs : jobs[k] \in Job
    BY ElementOfSeq, LenProperties DEF TypeOK
<1>13. \A p \in Running : rjob[p] \in Job
    BY DEF Running, RunnersHold
<1>14. \A k \in DOMAIN jobs, i \in Job : i = jobs[k] =>
            i.slot # s /\ Targets(i)'
    BY <1>10 DEF JobOwnsSlot, JobsTarget
<1>15. \A p \in Running, i \in Job : i = rjob[p] =>
            i.slot # s /\ Targets(i)'
    BY <1>10 DEF JobOwnsSlot, JobsTarget
<1>16. j.slot = s
    BY <1>2
<1>17. hotFlight' = hotFlight /\ rbuf' = rbuf
    BY DEF Submit
<1>18. CASE Sync
    <2>1. /\ jobs' = jobs /\ specQ' = specQ
          /\ rpc' = [rpc EXCEPT ![c] = "alloc"]
          /\ rjob' = [rjob EXCEPT ![c] = j]
        BY <1>2, <1>18 DEF Submit
    <2>2. /\ rpc'[c] = "alloc" /\ rjob'[c] = j
          /\ \A p \in Runners : p # c =>
                rpc'[p] = rpc[p] /\ rjob'[p] = rjob[p]
        BY <1>1, <2>1 DEF TypeOK
    <2>3. RunnersHold'
        BY <1>2, <1>17, <2>2 DEF RunnersHold
    <2>4. \A p \in Running' : p \in Runners /\ (p # c => p \in Running)
        BY <2>2 DEF Running
    <2>5. \A p \in Running' : Targets(rjob[p])'
        BY <1>11, <1>13, <1>15, <2>2, <2>4
    <2>6. JobsTarget'
        BY <1>12, <1>14, <2>1, <2>5 DEF JobsTarget
    <2>7. JobsApart'
        BY <1>12, <1>13, <1>14, <1>15, <1>16, <2>1, <2>2, <2>4
           DEF JobsApart, JobOwnsSlot
    <2>8. QED BY <1>2, <1>4, <1>6, <1>7, <1>8, <1>9, <1>17, <2>1, <2>3,
                 <2>6, <2>7 DEF TypeOK, JobOwnsSlot
<1>19. CASE ~Sync
    <2>1. /\ jobs' = Append(jobs, j) /\ rjob' = rjob
          /\ specQ' \in Int /\ Signal
        BY <1>2, <1>19 DEF Submit, TypeOK
    <2>2. /\ rpc' \in [Runners ->
                {"idle", "asleep", "alloc", "fill", "retire", "exited"}]
          /\ \A p \in Runners : rpc'[p] = rpc[p] \/ rpc'[p] = "idle"
        BY <2>1 DEF Signal, TypeOK, Asleep, Runners
    <2>3. RunnersHold'
        BY <1>17, <2>1, <2>2 DEF RunnersHold
    <2>4. Running' \subseteq Running
        BY <2>2 DEF Running
    <2>5. /\ jobs' \in Seq(Job) /\ Len(jobs) \in Nat
          /\ DOMAIN jobs = 1..Len(jobs)
          /\ DOMAIN jobs' = 1..(Len(jobs) + 1)
          /\ \A k \in DOMAIN jobs : jobs'[k] = jobs[k]
          /\ jobs'[Len(jobs) + 1] = j
        BY <1>2, <2>1, AppendFacts DEF TypeOK
    <2>6. \A k \in DOMAIN jobs' :
            \/ k \in DOMAIN jobs /\ jobs'[k] = jobs[k]
            \/ k = Len(jobs) + 1 /\ jobs'[k] = j
        BY <2>5
    <2>7. JobsTarget'
        <3>1. \A k \in DOMAIN jobs' : Targets(jobs[k])'
            BY <1>11, <1>12, <1>14, <2>6
        <3>2. \A p \in Running' : Targets(rjob[p])'
            BY <1>13, <1>15, <2>1, <2>4
        <3>3. QED BY <3>1, <3>2 DEF JobsTarget
    <2>8. JobsApart'
        <3>1. ASSUME NEW a \in DOMAIN jobs', NEW b \in DOMAIN jobs',
                     jobs'[a].slot = jobs'[b].slot
              PROVE  a = b
            BY <1>12, <1>14, <1>16, <2>6, <3>1 DEF JobsApart, JobOwnsSlot
        <3>2. ASSUME NEW a \in DOMAIN jobs', NEW p \in Running'
              PROVE  jobs'[a].slot # rjob'[p].slot
            BY <1>13, <1>15, <1>16, <2>1, <2>4, <2>6 DEF JobsApart, JobOwnsSlot
        <3>3. QED BY <2>1, <2>4, <3>1, <3>2 DEF JobsApart, JobOwnsSlot
    <2>9. QED BY <1>4, <1>6, <1>7, <1>8, <1>9, <1>17, <2>1, <2>2, <2>3,
                 <2>5, <2>7, <2>8 DEF TypeOK, JobOwnsSlot
<1>20. QED BY <1>18, <1>19

\* A waiting resolve keeps waiting on its entry when the working sets only
\* grow and their entries keep their experts.
LEMMA RequestKept ==
    ASSUME IInv, cpc' = cpc, creq' = creq,
           ws' \in [Layers -> Seq(Heap)],
           \A m \in Layers : \A k \in DOMAIN ws[m] :
                k \in DOMAIN ws'[m] /\ ws'[m][k] = ws[m][k],
           \A t \in Slots : InWs(t) => slot'[t].eid = slot[t].eid
    PROVE  RequestValid'
<1> USE DEF IInv
<1>1. CASE cpc \notin {"blocked", "woken"}
    BY <1>1 DEF RequestValid
<1>2. CASE cpc \in {"blocked", "woken"}
    <2>1. PICK k \in DOMAIN ws[creq.layer] : ws[creq.layer][k] = creq.slot
        BY <1>2 DEF RequestValid
    <2>2. creq.layer \in Layers
        BY <1>2 DEF RequestValid
    <2>3. InWs(creq.slot)
        BY <2>1, <2>2 DEF InWs
    <2>4. creq.slot \in Slots
        <3>1. ws[creq.layer] \in Seq(Heap) BY <2>2 DEF TypeOK
        <3>2. QED BY <2>1, <3>1, ElementOfSeq, LenProperties, HeapIsNotLru
    <2>5. slot'[creq.slot].eid = slot[creq.slot].eid
        BY <2>3, <2>4
    <2>6. k \in DOMAIN ws'[creq.layer] /\ ws'[creq.layer][k] = creq.slot
        BY <2>1, <2>2
    <2>7. QED BY <1>2, <2>2, <2>5, <2>6 DEF RequestValid
<1>3. QED BY <1>1, <1>2

\* ws_add puts a heap slot nobody uses at the end of one working set: the
\* entries stay distinct and where they were.
LEMMA WsGrows ==
    ASSUME IInv, NEW l \in Layers, FreeHeap # {},
           ws' = [ws EXCEPT ![l] = Append(@, NewSlot)]
    PROVE  /\ ws' \in [Layers -> Seq(Heap)] /\ WsDistinct'
           /\ \A m \in Layers : \A k \in DOMAIN ws[m] :
                k \in DOMAIN ws'[m] /\ ws'[m][k] = ws[m][k]
           /\ \E k \in DOMAIN ws'[l] : ws'[l][k] = NewSlot
           /\ NewSlot \in Heap /\ ~InWs(NewSlot)
<1> USE DEF IInv
<1>1. NewSlot \in Heap /\ ~InWs(NewSlot)
    BY NewSlotFacts
<1>2. ws[l] \in Seq(Heap)
    BY DEF TypeOK
<1>3. ws'[l] = Append(ws[l], NewSlot) /\ \A m \in Layers : m # l =>
            ws'[m] = ws[m]
    BY DEF TypeOK
<1>4. /\ ws'[l] \in Seq(Heap) /\ Len(ws[l]) \in Nat
      /\ DOMAIN ws[l] = 1..Len(ws[l])
      /\ DOMAIN ws'[l] = 1..(Len(ws[l]) + 1)
      /\ \A k \in DOMAIN ws[l] : ws'[l][k] = ws[l][k]
      /\ ws'[l][Len(ws[l]) + 1] = NewSlot
    BY <1>1, <1>2, <1>3, AppendFacts
<1>5. ws' \in [Layers -> Seq(Heap)]
    BY <1>4 DEF TypeOK
<1>6. \A m \in Layers : \A k \in DOMAIN ws[m] :
            k \in DOMAIN ws'[m] /\ ws'[m][k] = ws[m][k]
    BY <1>3, <1>4
<1>7. \A m \in Layers : \A k \in DOMAIN ws'[m] :
            \/ k \in DOMAIN ws[m] /\ ws'[m][k] = ws[m][k]
            \/ m = l /\ k = Len(ws[l]) + 1 /\ ws'[m][k] = NewSlot
    BY <1>3, <1>4
<1>8. \A m \in Layers : \A k \in DOMAIN ws[m] : ws[m][k] # NewSlot
    BY <1>1 DEF InWs
<1>9. WsDistinct'
    <2>1. ASSUME NEW m \in Layers, NEW n \in Layers,
                 NEW i \in DOMAIN ws'[m], NEW k \in DOMAIN ws'[n],
                 ws'[m][i] = ws'[n][k]
          PROVE  m = n /\ i = k
        BY <1>7, <1>8, <2>1 DEF WsDistinct
    <2>2. QED BY <2>1 DEF WsDistinct
<1>10. QED BY <1>1, <1>4, <1>5, <1>6, <1>9

\* A hit that is not READY or LOADING is a working-set entry whose fill was
\* reset.
LEMMA IdleIsInWs ==
    ASSUME IInv, NEW l \in Layers, NEW e \in Experts,
           Lookup(l, e) # NoSlot, slot[Lookup(l, e)].state # "ready"
    PROVE  /\ Lookup(l, e) \in Heap /\ slot[Lookup(l, e)].eid = e
           /\ slot[Lookup(l, e)].pl = NoBuf
           /\ \E k \in DOMAIN ws[l] : ws[l][k] = Lookup(l, e)
<1> USE DEF IInv
<1>1. Lookup(l, e) \in Slots /\ slot[Lookup(l, e)].eid = e
      /\ slot[Lookup(l, e)].pl = NoBuf
    BY LookupFacts DEF PayloadIffReady
<1>2. PICK k \in DOMAIN ws[l] : ws[l][k] = Lookup(l, e)
    BY <1>1, LookupFacts
<1>3. Lookup(l, e) \in Heap
    <2>1. ws[l] \in Seq(Heap) BY DEF TypeOK
    <2>2. QED BY <1>2, <2>1, ElementOfSeq, LenProperties
<1>4. QED BY <1>1, <1>2, <1>3

\* The record a fill is submitted for.
LEMMA NewEntryFacts ==
    ASSUME NEW e \in Experts, NEW hot \in BOOLEAN
    PROVE  /\ NewEntry(e, hot) \in Slot
           /\ NewEntry(e, hot).eid = e /\ NewEntry(e, hot).pl = NoBuf
BY DEF NewEntry, Blank, Slot, State

\* A hint, by the pilot or by the compute thread, in its four cases.
LEMMA HintKeeps ==
    ASSUME IInv, NEW c \in Callers, NEW l \in Layers, NEW e \in Experts,
           NEW demand \in BOOLEAN, rpc[c] = "idle",
           cpc = "free" \/ ~stopping,
           HintBody(c, l, e, demand)
    PROVE  IInv'
<1> USE DEF IInv
<1>1. UNCHANGED <<plFree, content, clock, gen, stopping, cpc, creq, views,
                  faults>>
    BY DEF HintBody, bufVars
<1>2. cpc \notin {"joining", "closed"}
    BY DEF CloseQuiet
<1>3. CASE HintNew(c, l, e, demand)
    <2>1. /\ FreeHeap # {}
          /\ ws' = [ws EXCEPT ![l] = Append(@, NewSlot)]
          /\ Submit(c, l, e, NewSlot, NewEntry(e, demand))
        BY <1>3 DEF HintNew
    <2>2. /\ ws' \in [Layers -> Seq(Heap)] /\ WsDistinct'
          /\ \A m \in Layers : \A k \in DOMAIN ws[m] :
                k \in DOMAIN ws'[m] /\ ws'[m][k] = ws[m][k]
          /\ \E k \in DOMAIN ws'[l] : ws'[l][k] = NewSlot
          /\ NewSlot \in Heap /\ ~InWs(NewSlot)
        BY <2>1, WsGrows
    <2>3. /\ NewEntry(e, demand) \in Slot
          /\ NewEntry(e, demand).eid = e /\ NewEntry(e, demand).pl = NoBuf
        BY NewEntryFacts
    <2> DEFINE s == NewSlot
               r == NewEntry(e, demand)
    <2> HIDE DEF s, r
    <2>4. /\ PayloadIffReady' /\ RunnersHold' /\ JobOwnsSlot'
          /\ slot' \in [Slots -> Slot] /\ jobs' \in Seq(Job)
          /\ specQ' \in Int /\ hotFlight' = hotFlight /\ rbuf' = rbuf
          /\ rpc' \in [Runners ->
                {"idle", "asleep", "alloc", "fill", "retire", "exited"}]
          /\ rjob' \in [Runners -> Job \cup {NoJob}]
          /\ \A t \in Slots : InWs(t) => slot'[t].eid = slot[t].eid
        <3>1. /\ s \in Heap /\ r \in Slot /\ r.eid = e /\ r.pl = NoBuf
              /\ ~InWs(s) /\ \E k \in DOMAIN ws'[l] : ws'[l][k] = s
              /\ Submit(c, l, e, s, r)
            BY <2>1, <2>2, <2>3 DEF s, r
        <3>2. QED BY <2>2, <3>1, SubmitKeeps
    <2>5. TypeOK'
        BY <1>1, <2>2, <2>4 DEF TypeOK
    <2>6. RequestValid'
        BY <1>1, <2>2, <2>4, RequestKept
    <2>7. CloseQuiet'
        BY <1>1, <1>2 DEF CloseQuiet
    <2>8. QED BY <2>2, <2>4, <2>5, <2>6, <2>7
<1>4. CASE HintAgain(c, l, e, demand)
    <2> DEFINE s == Lookup(l, e)
               r == [slot[s] EXCEPT !.hot = demand \/ @]
    <2>1. /\ s # NoSlot /\ slot[s].state = "empty" /\ ws' = ws
          /\ Submit(c, l, e, s, r)
        BY <1>4 DEF HintAgain, Idle
    <2>2. /\ s \in Heap /\ slot[s].eid = e /\ slot[s].pl = NoBuf
          /\ \E k \in DOMAIN ws[l] : ws[l][k] = s
        BY <2>1, IdleIsInWs
    <2>3. r \in Slot /\ r.eid = e /\ r.pl = NoBuf
        <3>1. slot[s] \in Slot
            BY <2>2, HeapIsNotLru DEF TypeOK
        <3> HIDE DEF s
        <3>2. QED BY <2>2, <3>1 DEF Slot
    <2> HIDE DEF s, r
    <2>4. /\ PayloadIffReady' /\ RunnersHold' /\ JobOwnsSlot'
          /\ slot' \in [Slots -> Slot] /\ jobs' \in Seq(Job)
          /\ specQ' \in Int /\ hotFlight' = hotFlight /\ rbuf' = rbuf
          /\ rpc' \in [Runners ->
                {"idle", "asleep", "alloc", "fill", "retire", "exited"}]
          /\ rjob' \in [Runners -> Job \cup {NoJob}]
          /\ \A t \in Slots : InWs(t) => slot'[t].eid = slot[t].eid
        BY <2>1, <2>2, <2>3, SubmitKeeps
    <2>5. TypeOK'
        BY <1>1, <2>1, <2>4 DEF TypeOK
    <2>6. RequestValid'
        BY <1>1, <2>1, <2>4, RequestKept DEF TypeOK
    <2>7. CloseQuiet' /\ WsDistinct'
        BY <1>1, <1>2, <2>1 DEF CloseQuiet, WsDistinct
    <2>8. QED BY <2>4, <2>5, <2>6, <2>7
<1>5. CASE HintBoost(l, e, demand)
    <2>1. /\ Lookup(l, e) \in Slots
          /\ slot' = [slot EXCEPT ![Lookup(l, e)].hot = TRUE]
          /\ UNCHANGED <<ws, queueVars, runVars>>
        <3>1. Lookup(l, e) # NoSlot
            BY <1>5 DEF HintBoost
        <3>2. Lookup(l, e) \in Slots
            BY <3>1, LookupFacts
        <3>3. /\ slot' = [slot EXCEPT ![Lookup(l, e)].hot = TRUE]
              /\ UNCHANGED <<ws, queueVars, runVars>>
            BY <1>5 DEF HintBoost
        <3>4. QED BY <3>2, <3>3
    <2>2. /\ PayloadIffReady' /\ WsDistinct' /\ RunnersHold' /\ JobOwnsSlot'
          /\ slot' \in [Slots -> Slot]
          /\ \A t \in Slots : slot'[t].eid = slot[t].eid
        <3> DEFINE s == Lookup(l, e)
        <3> HIDE DEF s
        <3>1. s \in Slots /\ slot' = [slot EXCEPT ![s].hot = TRUE]
            BY <2>1 DEF s
        <3>2. QED BY <1>1, <2>1, <3>1, BoostKeeps DEF bufVars
    <2>3. TypeOK'
        BY <1>1, <2>1, <2>2 DEF TypeOK, queueVars, runVars
    <2>4. RequestValid'
        BY <1>1, <2>1, <2>2, RequestKept DEF TypeOK
    <2>5. CloseQuiet'
        BY <1>1, <1>2 DEF CloseQuiet
    <2>6. QED BY <2>2, <2>3, <2>4, <2>5
<1>6. CASE HintNothing(l, e, demand)
    BY <1>1, <1>6, StutterKeeps
       DEF HintNothing, vars, queueVars, runVars, bufVars
<1>7. QED BY <1>3, <1>4, <1>5, <1>6 DEF HintBody

\* A resolve that submits a fill for entry s and waits for it.
LEMMA SubmitAndWaitKeeps ==
    ASSUME IInv, NEW l \in Layers, NEW e \in Experts, NEW s \in Heap,
           NEW r \in Slot, r.eid = e, r.pl = NoBuf,
           InWs(s) => slot[s].state = "empty" /\ slot[s].eid = e,
           ws' \in [Layers -> Seq(Heap)], WsDistinct',
           \A m \in Layers : \A k \in DOMAIN ws[m] :
                k \in DOMAIN ws'[m] /\ ws'[m][k] = ws[m][k],
           \E k \in DOMAIN ws'[l] : ws'[l][k] = s,
           rpc[Compute] = "idle", Submit(Compute, l, e, s, r),
           Block(l, e, s, AfterSubmit)
    PROVE  IInv'
<1> USE DEF IInv
<1>1. Compute \in Callers
    BY DEF Callers
<1>2. /\ PayloadIffReady' /\ RunnersHold' /\ JobOwnsSlot'
      /\ slot' \in [Slots -> Slot] /\ jobs' \in Seq(Job)
      /\ specQ' \in Int /\ hotFlight' = hotFlight /\ rbuf' = rbuf
      /\ rpc' \in [Runners ->
            {"idle", "asleep", "alloc", "fill", "retire", "exited"}]
      /\ rjob' \in [Runners -> Job \cup {NoJob}]
      /\ slot'[s].eid = e
    BY <1>1, SubmitKeeps
<1>3. /\ cpc' \in {"blocked", "woken"}
      /\ creq' = [layer |-> l, eid |-> e, slot |-> s, idx |-> 0]
      /\ UNCHANGED <<plFree, content, clock, gen, stopping, views, faults>>
    BY DEF Block, AfterSubmit, bufVars
<1>4. creq' \in [layer : Nat, eid : Experts \cup {NoEid},
                 slot : Slots \cup {NoSlot}, idx : Nat]
    BY <1>3, ConstAssumption, HeapIsNotLru
<1>5. TypeOK'
    BY <1>2, <1>3, <1>4 DEF TypeOK
<1>6. RequestValid'
    <2>1. creq'.layer = l /\ creq'.eid = e /\ creq'.slot = s
        BY <1>3
    <2>2. QED BY <1>2, <1>3, <2>1 DEF RequestValid
<1>7. CloseQuiet'
    BY <1>3 DEF CloseQuiet
<1>8. QED BY <1>2, <1>5, <1>6, <1>7

\* A resolve of a working-set entry whose fill was reset.
LEMMA ResubmitKeeps ==
    ASSUME IInv, NEW l \in Layers, NEW e \in Experts, NEW s \in Heap,
           slot[s].eid = e, slot[s].pl = NoBuf,
           \E k \in DOMAIN ws[l] : ws[l][k] = s,
           rpc[Compute] = "idle", ws' = ws, Resubmit(l, e, s)
    PROVE  IInv'
<1> DEFINE r == [slot[s] EXCEPT !.hot = TRUE]
<1> USE DEF IInv
<1>1. slot[s] \in Slot
    BY HeapIsNotLru DEF TypeOK
<1>2. r \in Slot /\ r.eid = e /\ r.pl = NoBuf
    BY <1>1 DEF Slot
<1>3. /\ slot[s].state = "empty"
      /\ Submit(Compute, l, e, s, r)
      /\ Block(l, e, s, AfterSubmit)
    BY DEF Resubmit, Idle
<1> HIDE DEF r
<1>4. ws' \in [Layers -> Seq(Heap)] /\ WsDistinct'
    BY DEF TypeOK, WsDistinct
<1>5. /\ \A m \in Layers : \A k \in DOMAIN ws[m] :
            k \in DOMAIN ws'[m] /\ ws'[m][k] = ws[m][k]
      /\ \E k \in DOMAIN ws'[l] : ws'[l][k] = s
    OBVIOUS
<1>6. QED BY <1>2, <1>3, <1>4, <1>5, SubmitAndWaitKeeps

\* A resolve goes to sleep on entry s; it may just have raised it to demand
\* class.
LEMMA WaitKeeps ==
    ASSUME IInv, NEW l \in Layers, NEW e \in Experts, NEW s \in Heap,
           slot[s].eid \in {e, NoEid}, \E k \in DOMAIN ws[l] : ws[l][k] = s,
           slot' = slot \/ slot' = [slot EXCEPT ![s].hot = TRUE],
           Block(l, e, s, "blocked"),
           UNCHANGED <<ws, queueVars, runVars>>
    PROVE  IInv'
<1> USE DEF IInv
<1>1. /\ cpc' = "blocked"
      /\ creq' = [layer |-> l, eid |-> e, slot |-> s, idx |-> 0]
      /\ UNCHANGED <<plFree, content, clock, gen, stopping, views, faults>>
      /\ UNCHANGED <<bufVars, clock, gen, stopping, views, faults>>
    BY DEF Block, bufVars
<1>2. s \in Slots
    BY HeapIsNotLru
<1>3. /\ PayloadIffReady' /\ WsDistinct' /\ RunnersHold' /\ JobOwnsSlot'
      /\ slot' \in [Slots -> Slot]
      /\ \A t \in Slots : slot'[t].eid = slot[t].eid
    <2>1. CASE slot' = [slot EXCEPT ![s].hot = TRUE]
        BY <1>1, <1>2, <2>1, BoostKeeps
    <2>2. CASE slot' = slot
        <3>1. PayloadIffReady' /\ WsDistinct' /\ RunnersHold'
            BY <2>2 DEF PayloadIffReady, WsDistinct, RunnersHold, runVars
        <3>2. \A r \in Runners : rpc'[r] \in {"alloc", "fill"} =>
                r \in Running /\ rjob'[r] = rjob[r]
            BY DEF Running, runVars
        <3>3. \A j \in Job : Targets(j) => Targets(j)'
            BY <2>2 DEF Targets
        <3>4. JobOwnsSlot'
            BY <3>2, <3>3, FillsKept DEF TypeOK, queueVars
        <3>5. QED BY <2>2, <3>1, <3>4 DEF TypeOK
    <2>3. QED BY <2>1, <2>2
<1>4. creq' \in [layer : Nat, eid : Experts \cup {NoEid},
                 slot : Slots \cup {NoSlot}, idx : Nat]
    BY <1>1, <1>2, ConstAssumption
<1>5. TypeOK'
    BY <1>1, <1>3, <1>4 DEF TypeOK, queueVars, runVars
<1>6. RequestValid'
    <2>1. creq'.layer = l /\ creq'.eid = e /\ creq'.slot = s
        BY <1>1
    <2>2. slot'[s].eid \in {e, NoEid}
        BY <1>2, <1>3
    <2>3. QED BY <1>1, <2>1, <2>2 DEF RequestValid
<1>7. CloseQuiet'
    BY <1>1 DEF CloseQuiet
<1>8. QED BY <1>3, <1>5, <1>6, <1>7

\* A call of resolve.
LEMMA ResolveKeeps ==
    ASSUME IInv, NEW l \in Layers, NEW e \in Experts, Resolve(l, e)
    PROVE  IInv'
<1> DEFINE s == Lookup(l, e)
<1> USE DEF IInv
<1>1. rpc[Compute] = "idle"
    BY DEF Resolve, ComputeFree
<1>2. s # NoSlot => s \in Slots
    BY LookupFacts
<1>3. s # NoSlot /\ slot[s].state # "ready" =>
        /\ s \in Heap /\ slot[s].eid = e /\ slot[s].pl = NoBuf
        /\ \E k \in DOMAIN ws[l] : ws[l][k] = s
    BY IdleIsInWs
<1>4. CASE ResolveHit(l, e)
    <2>1. s # NoSlot /\ slot[s].state = "ready" /\ Deliver(l, e, s)
        BY <1>4 DEF ResolveHit
    <2> HIDE DEF s
    <2>2. QED BY <1>2, <2>1, DeliverKeeps
<1>5. CASE ResolveJoin(l, e)
    <2>1. /\ s # NoSlot /\ slot[s].state = "loading"
          /\ slot' = [slot EXCEPT ![s].hot = TRUE]
          /\ Block(l, e, s, "blocked")
          /\ UNCHANGED <<ws, queueVars, runVars>>
        BY <1>5 DEF ResolveJoin
    <2> HIDE DEF s
    <2>2. QED BY <1>3, <2>1, WaitKeeps
<1>6. CASE s # NoSlot /\ Resubmit(l, e, s)
    <2>1. slot[s].state # "ready" /\ ws' = ws
        BY <1>6 DEF Resubmit, Idle
    <2> HIDE DEF s
    <2>2. QED BY <1>1, <1>3, <1>6, <2>1, ResubmitKeeps
<1>7. CASE ResolveMiss(l, e)
    <2>1. CASE FreeHeap = {} /\ Fail
        BY <2>1, FailKeeps
    <2>2. CASE /\ FreeHeap # {}
               /\ ws' = [ws EXCEPT ![l] = Append(@, NewSlot)]
               /\ Submit(Compute, l, e, NewSlot, NewEntry(e, TRUE))
               /\ Block(l, e, NewSlot, AfterSubmit)
        <3>1. /\ ws' \in [Layers -> Seq(Heap)] /\ WsDistinct'
              /\ \A m \in Layers : \A k \in DOMAIN ws[m] :
                    k \in DOMAIN ws'[m] /\ ws'[m][k] = ws[m][k]
              /\ \E k \in DOMAIN ws'[l] : ws'[l][k] = NewSlot
              /\ NewSlot \in Heap /\ ~InWs(NewSlot)
            BY <2>2, WsGrows
        <3>2. /\ NewEntry(e, TRUE) \in Slot
              /\ NewEntry(e, TRUE).eid = e /\ NewEntry(e, TRUE).pl = NoBuf
            BY NewEntryFacts
        <3> DEFINE n == NewSlot
                   r == NewEntry(e, TRUE)
        <3>3. /\ n \in Heap /\ r \in Slot /\ r.eid = e /\ r.pl = NoBuf
              /\ ~InWs(n) /\ \E k \in DOMAIN ws'[l] : ws'[l][k] = n
              /\ Submit(Compute, l, e, n, r) /\ Block(l, e, n, AfterSubmit)
            BY <2>2, <3>1, <3>2
        <3> HIDE DEF n, r
        <3>4. QED BY <1>1, <3>1, <3>3, SubmitAndWaitKeeps
    <2>3. QED BY <1>7, <2>1, <2>2 DEF ResolveMiss
<1>8. QED BY <1>4, <1>5, <1>6, <1>7 DEF Resolve

\* A turn of wait_ready's loop.
LEMMA WaitReadyKeeps ==
    ASSUME IInv, WaitReady
    PROVE  IInv'
<1> USE DEF IInv
<1>1. PICK l \in Layers, e \in Experts, s \in Slots \cup {NoSlot} :
        l = creq.layer /\ e = creq.eid /\ s = creq.slot
    BY DEF WaitReady, RequestValid, TypeOK
<1>2. /\ slot[s].eid \in {e, NoEid}
      /\ \E k \in DOMAIN ws[l] : ws[l][k] = s
    BY <1>1 DEF WaitReady, RequestValid
<1>3. s \in Heap /\ s \in Slots
    <2>1. ws[l] \in Seq(Heap) BY DEF TypeOK
    <2>2. QED BY <1>2, <2>1, ElementOfSeq, LenProperties, HeapIsNotLru
<1>4. rpc[Compute] = "idle"
    BY DEF WaitReady
<1>5. CASE slot[s].state = "ready" /\ Deliver(l, e, s)
    BY <1>3, <1>5, DeliverKeeps
<1>6. CASE Fail
    BY <1>6, FailKeeps
<1>7. CASE Resubmit(l, e, s)
    <2>1. slot[s].state = "empty" /\ slot[s].eid # NoEid /\ ws' = ws
        BY <1>7 DEF Resubmit, Idle
    <2>2. slot[s].eid = e /\ slot[s].pl = NoBuf
        BY <1>2, <1>3, <2>1 DEF PayloadIffReady
    <2>3. QED BY <1>2, <1>3, <1>4, <1>7, <2>1, <2>2, ResubmitKeeps
<1>8. CASE /\ slot[s].state = "loading" /\ Block(l, e, s, "blocked")
           /\ UNCHANGED <<slot, ws, queueVars, runVars>>
    BY <1>2, <1>3, <1>8, WaitKeeps
<1>9. QED BY <1>1, <1>5, <1>6, <1>7, <1>8 DEF WaitReady

\* pl_put leaves a stack of buffers.
LEMMA PutFacts ==
    ASSUME TypeOK, NEW b \in Bufs \cup {NoBuf}
    PROVE  Put(b) \in Seq(Bufs)
<1>1. CASE b # NoBuf
    <2>1. b \in Bufs /\ plFree \in Seq(Bufs)
        BY <1>1 DEF TypeOK
    <2>2. Append(plFree, b) \in Seq(Bufs)
        BY <2>1, AppendFacts
    <2>3. QED BY <2>1, <2>2 DEF Put
<1>2. CASE b = NoBuf
    BY <1>2 DEF Put, TypeOK
<1>3. QED BY <1>1, <1>2

\* Freed bytes are bytes.
LEMMA TrashFacts ==
    ASSUME TypeOK, NEW B
    PROVE  Trash(B) \in [Bufs -> Bytes]
BY DEF Trash, TypeOK, Bytes

\* Taking entry k off a working set: the others stay distinct, and each
\* slot but that entry's is still there.
LEMMA WsShrinks ==
    ASSUME IInv, NEW l \in Layers, NEW k \in DOMAIN ws[l],
           ws' = [ws EXCEPT ![l] = RemoveAt(@, k)]
    PROVE  /\ ws' \in [Layers -> Seq(Heap)] /\ WsDistinct'
           /\ \A m \in Layers : \A i \in DOMAIN ws[m] :
                ws[m][i] # ws[l][k] =>
                    \E n \in DOMAIN ws'[m] : ws'[m][n] = ws[m][i]
<1> USE DEF IInv
<1>1. ws[l] \in Seq(Heap) /\ k \in 1..Len(ws[l])
    BY LenProperties DEF TypeOK
<1>2. ws'[l] = RemoveAt(ws[l], k) /\ \A m \in Layers : m # l =>
            ws'[m] = ws[m]
    BY DEF TypeOK
<1> DEFINE q == ws[l]
           n == Len(q)
<1>3. /\ ws'[l] \in Seq(Heap) /\ n \in Nat /\ DOMAIN q = 1..n
      /\ DOMAIN ws'[l] = 1..(n - 1)
      /\ \A i \in 1..(n - 1) : ws'[l][i] = IF i < k THEN q[i] ELSE q[i + 1]
    BY <1>1, <1>2, RemoveFacts
<1>4. ws' \in [Layers -> Seq(Heap)]
    BY <1>3 DEF TypeOK
<1> DEFINE old(m, i) == IF m = l /\ i >= k THEN i + 1 ELSE i
<1>5. ASSUME NEW m \in Layers, NEW i \in DOMAIN ws'[m]
      PROVE  old(m, i) \in DOMAIN ws[m] /\ ws'[m][i] = ws[m][old(m, i)]
    <2>1. CASE m = l
        <3>1. i \in 1..(n - 1)
            BY <1>3, <2>1
        <3>2. CASE i < k
            <4>1. old(m, i) = i BY <1>1, <2>1, <3>1, <3>2, <1>3
            <4>2. ws'[l][i] = q[i] BY <1>3, <3>1, <3>2
            <4>3. i \in DOMAIN q BY <1>3, <3>1
            <4>4. QED BY <2>1, <4>1, <4>2, <4>3
        <3>3. CASE ~(i < k)
            <4>1. old(m, i) = i + 1 BY <1>1, <1>3, <2>1, <3>1, <3>3
            <4>2. ws'[l][i] = q[i + 1] BY <1>3, <3>1, <3>3
            <4>3. i + 1 \in DOMAIN q BY <1>3, <3>1
            <4>4. QED BY <2>1, <4>1, <4>2, <4>3
        <3>4. QED BY <3>2, <3>3
    <2>2. CASE m # l
        BY <1>2, <2>2
    <2>3. QED BY <2>1, <2>2
<1>6. ASSUME NEW m \in Layers, NEW p \in Layers,
             NEW i \in DOMAIN ws'[m], NEW j \in DOMAIN ws'[p],
             ws'[m][i] = ws'[p][j]
      PROVE  m = p /\ i = j
    <2>1. ws[m][old(m, i)] = ws[p][old(p, j)]
        BY <1>5, <1>6
    <2>2. m = p /\ old(m, i) = old(p, j)
        BY <1>5, <2>1 DEF WsDistinct
    <2>3. CASE m # l
        BY <2>2, <2>3
    <2>4. CASE m = l
        <3>1. i \in 1..(n - 1) /\ j \in 1..(n - 1) /\ k \in Nat
            BY <1>1, <1>3, <2>2, <2>4
        <3>2. (IF i >= k THEN i + 1 ELSE i) = (IF j >= k THEN j + 1 ELSE j)
            BY <2>2, <2>4
        <3> HIDE DEF n, q, old
        <3>3. i \in Nat /\ j \in Nat
            BY <3>1, <1>3
        <3>4. i = j
            BY <3>1, <3>2, <3>3
        <3>5. QED BY <2>2, <3>4
    <2>5. QED BY <2>3, <2>4
<1>7. ASSUME NEW m \in Layers, NEW i \in DOMAIN ws[m], ws[m][i] # ws[l][k]
      PROVE  \E j \in DOMAIN ws'[m] : ws'[m][j] = ws[m][i]
    <2>1. CASE m # l
        BY <1>2, <2>1
    <2>2. CASE m = l
        <3>1. i \in 1..n /\ i # k /\ k \in 1..n /\ n \in Nat
            BY <1>1, <1>3, <1>7, <2>2
        <3> HIDE DEF n
        <3>2. CASE i < k
            <4>1. i \in 1..(n - 1)
                BY <3>1, <3>2
            <4>2. ws'[l][i] = q[i]
                BY <1>3, <3>2, <4>1
            <4>3. QED BY <1>3, <2>2, <4>1, <4>2
        <3>3. CASE ~(i < k)
            <4>1. i - 1 \in 1..(n - 1) /\ ~(i - 1 < k) /\ (i - 1) + 1 = i
                BY <3>1, <3>3
            <4>2. ws'[l][i - 1] = q[i]
                BY <1>3, <4>1
            <4>3. QED BY <1>3, <2>2, <4>1, <4>2
        <3>4. QED BY <3>2, <3>3
    <2>3. QED BY <2>1, <2>2
<1>8. WsDistinct'
    BY <1>6 DEF WsDistinct
<1>9. QED BY <1>4, <1>7, <1>8

\* One iteration of layer_end's promotion loop: only READY entries leave the
\* working set, so no fill loses its slot.
LEMMA PromoteKeeps ==
    ASSUME IInv, Promote
    PROVE  IInv'
<1> USE DEF IInv
<1>1. PICK l \in Layers, k \in Nat \ {0} : l = creq.layer /\ k = creq.idx
    BY DEF Promote, RequestValid, TypeOK
<1>2. k \in DOMAIN ws[l]
    BY <1>1, LenProperties DEF Promote, TypeOK
<1>3. PICK s \in Heap : s = ws[l][k]
    <2>1. ws[l] \in Seq(Heap) BY DEF TypeOK
    <2>2. QED BY <1>2, <2>1, ElementOfSeq, LenProperties
<1>4. s \in Slots
    BY HeapIsNotLru
<1>5. /\ UNCHANGED <<queueVars, runVars, clock, gen, stopping, cpc, views,
                     faults>>
      /\ UNCHANGED <<jobs, specQ, hotFlight, rpc, rjob, rbuf>>
      /\ cpc = "promote"
    BY DEF Promote, queueVars, runVars
<1>6. RunnersHold' /\ CloseQuiet'
    BY <1>5 DEF RunnersHold, CloseQuiet
<1>7. \A r \in Runners : rpc'[r] \in {"alloc", "fill"} =>
            r \in Running /\ rjob'[r] = rjob[r]
    BY <1>5 DEF Running
<1>8. CASE slot[s].state # "ready"
    <2>1. /\ creq' = [creq EXCEPT !.idx = k + 1]
          /\ UNCHANGED <<slot, ws, plFree, content>>
        BY <1>1, <1>3, <1>8 DEF Promote, bufVars
    <2>2. creq'.idx = k + 1 /\ creq'.layer = creq.layer /\ creq' \in
            [layer : Nat, eid : Experts \cup {NoEid},
             slot : Slots \cup {NoSlot}, idx : Nat]
        <3> DEFINE T == [layer : Nat, eid : Experts \cup {NoEid},
                         slot : Slots \cup {NoSlot}, idx : Nat]
        <3>1. creq \in T /\ k + 1 \in Nat
            BY DEF TypeOK
        <3>2. \A x \in T, n \in Nat : LET y == [x EXCEPT !.idx = n] IN
                y \in T /\ y.idx = n /\ y.layer = x.layer
            OBVIOUS
        <3> HIDE DEF T
        <3>3. creq' \in T /\ creq'.idx = k + 1 /\ creq'.layer = creq.layer
            BY <2>1, <3>1, <3>2
        <3>4. QED BY <3>3 DEF T
    <2>3. TypeOK'
        BY <1>5, <2>1, <2>2 DEF TypeOK
    <2>4. RequestValid'
        BY <1>1, <1>5, <2>2 DEF RequestValid
    <2>5. PayloadIffReady' /\ WsDistinct'
        BY <2>1 DEF PayloadIffReady, WsDistinct
    <2>6. \A j \in Job : Targets(j) => Targets(j)'
        BY <2>1 DEF Targets
    <2>7. JobOwnsSlot'
        BY <1>5, <1>7, <2>6, FillsKept DEF TypeOK
    <2>8. QED BY <1>6, <2>3, <2>4, <2>5, <2>7
<1>9. CASE slot[s].state = "ready"
    <2>1. ws' = [ws EXCEPT ![l] = RemoveAt(@, k)] /\ creq' = creq
        BY <1>1, <1>3, <1>9 DEF Promote
    <2>2. /\ ws' \in [Layers -> Seq(Heap)] /\ WsDistinct'
          /\ \A m \in Layers : \A i \in DOMAIN ws[m] : ws[m][i] # s =>
                \E n \in DOMAIN ws'[m] : ws'[m][n] = ws[m][i]
        <3>1. /\ ws' \in [Layers -> Seq(Heap)] /\ WsDistinct'
              /\ \A m \in Layers : \A i \in DOMAIN ws[m] :
                    ws[m][i] # ws[l][k] =>
                        \E n \in DOMAIN ws'[m] : ws'[m][n] = ws[m][i]
            <4> HIDE DEF IInv
            <4>1. QED BY <1>2, <2>1, WsShrinks, IInv
        <3>2. QED BY <1>3, <3>1
    <2>3. RequestValid'
        BY <1>5, <2>1 DEF RequestValid
    <2>4. Blank \in Slot /\ Blank.pl = NoBuf /\ Blank.state = "empty"
        BY DEF Blank, Slot, State
    <2>5. slot[s] \in Slot /\ slot[s].pl \in Bufs
        BY <1>4, <1>9 DEF TypeOK, PayloadIffReady, Slot
    <2>6. ASSUME slot' \in [Slots -> Slot], PayloadIffReady',
                 plFree' \in Seq(Bufs), content' \in [Bufs -> Bytes],
                 \A t \in Slots : slot[t].state = "loading" =>
                    slot'[t] = slot[t]
          PROVE  IInv'
        <3>1. TypeOK'
            BY <1>5, <2>1, <2>2, <2>6 DEF TypeOK
        <3>2. ASSUME NEW j \in Job, Targets(j)
              PROVE  Targets(j)'
            <4>1. j.layer \in Layers /\ j.slot \in Slots
                BY DEF Job
            <4>2. slot[j.slot].state = "loading" /\ j.slot # s
                BY <1>9, <3>2 DEF Targets
            <4>3. PICK i \in DOMAIN ws[j.layer] : ws[j.layer][i] = j.slot
                BY <3>2 DEF Targets
            <4>4. \E n \in DOMAIN ws'[j.layer] : ws'[j.layer][n] = j.slot
                BY <2>2, <4>1, <4>2, <4>3
            <4>5. slot'[j.slot] = slot[j.slot]
                BY <2>6, <4>1, <4>2
            <4>6. QED BY <3>2, <4>4, <4>5 DEF Targets
        <3>3. JobOwnsSlot'
            BY <1>5, <1>7, <3>2, FillsKept DEF TypeOK
        <3>4. QED BY <1>6, <2>2, <2>3, <2>6, <3>1, <3>3
    <2>7. CASE Installs(s, Victim(l))
        <3>1. PICK v \in LruSlots : v = Victim(l)
            BY <2>7, VictimFacts DEF Installs
        <3>2. v \in Slots /\ v # s /\ slot[v] \in Slot
              /\ slot[v].state # "loading"
            BY <2>7, <3>1, HeapIsNotLru, VictimFacts
               DEF Installs, Slots, TypeOK
        <3> DEFINE r == [eid |-> slot[s].eid, pl |-> slot[s].pl,
                         last |-> slot[s].last, state |-> "ready",
                         gen |-> slot[v].gen, hot |-> FALSE]
        <3>3. r \in Slot /\ r.pl = slot[s].pl /\ r.state = "ready"
            BY <2>5, <3>2 DEF Slot, State
        <3>4. /\ slot' = [slot EXCEPT ![v] = r, ![s] = Blank]
              /\ plFree' = Put(slot[v].pl)
              /\ content' = Trash({slot[v].pl})
            BY <1>1, <1>3, <1>9, <2>7, <3>1, <3>2 DEF Promote, TypeOK
        <3> HIDE DEF r
        <3>5. /\ slot'[v] = r /\ slot'[s] = Blank
              /\ \A t \in Slots : t # v /\ t # s => slot'[t] = slot[t]
            BY <1>4, <3>2, <3>4 DEF TypeOK
        <3>6. slot' \in [Slots -> Slot]
            BY <2>4, <3>3, <3>4 DEF TypeOK
        <3>7. PayloadIffReady'
            BY <2>4, <2>5, <3>3, <3>5, ConstAssumption DEF PayloadIffReady
        <3>8. plFree' \in Seq(Bufs) /\ content' \in [Bufs -> Bytes]
            <4>1. slot[v].pl \in Bufs \cup {NoBuf}
                BY <3>2 DEF Slot
            <4>2. QED BY <3>4, <4>1, PutFacts, TrashFacts
        <3>9. \A t \in Slots : slot[t].state = "loading" =>
                    slot'[t] = slot[t]
            BY <1>9, <3>2, <3>5
        <3>10. QED BY <2>6, <3>6, <3>7, <3>8, <3>9
    <2>8. CASE ~Installs(s, Victim(l))
        <3>1. /\ slot' = [slot EXCEPT ![s] = Blank]
              /\ plFree' = Put(slot[s].pl)
              /\ content' = Trash({slot[s].pl})
            BY <1>1, <1>3, <1>9, <2>8 DEF Promote
        <3>2. /\ slot'[s] = Blank
              /\ \A t \in Slots : t # s => slot'[t] = slot[t]
            BY <1>4, <3>1 DEF TypeOK
        <3>3. slot' \in [Slots -> Slot]
            BY <2>4, <3>1 DEF TypeOK
        <3>4. PayloadIffReady'
            BY <2>4, <3>2 DEF PayloadIffReady
        <3>5. plFree' \in Seq(Bufs) /\ content' \in [Bufs -> Bytes]
            BY <2>5, <3>1, PutFacts, TrashFacts
        <3>6. \A t \in Slots : slot[t].state = "loading" =>
                    slot'[t] = slot[t]
            BY <1>9, <3>2
        <3>7. QED BY <2>6, <3>3, <3>4, <3>5, <3>6
    <2>9. QED BY <2>7, <2>8
<1>10. QED BY <1>8, <1>9

\* A worker takes a job off the queue: the fill moves, with its slot.
LEMMA PopKeeps ==
    ASSUME IInv, NEW w \in Workers, Pop(w)
    PROVE  IInv'
<1> USE DEF IInv
<1> DEFINE n == Len(jobs)
<1>1. jobs \in Seq(Job) /\ jobs # <<>>
    BY DEF Pop, TypeOK
<1>2. PICK p \in 1..Len(jobs) : p = Pick
    BY <1>1, PickFacts
<1>3. /\ jobs' \in Seq(Job) /\ n \in Nat /\ DOMAIN jobs = 1..n
      /\ DOMAIN jobs' = 1..(n - 1)
      /\ \A k \in 1..(n - 1) : jobs'[k] = IF k < p THEN jobs[k]
                                          ELSE jobs[k + 1]
    <2>1. jobs' = RemoveAt(jobs, p)
        BY <1>2 DEF Pop
    <2>2. QED BY <1>1, <2>1, RemoveFacts
<1>4. \A k \in DOMAIN jobs : jobs[k] \in Job
    BY <1>1, ElementOfSeq, <1>3
<1>5. PICK j \in Job : j = jobs[p]
    BY <1>3, <1>4
<1>6. slot[j.slot] \in Slot
    BY DEF Job, TypeOK
<1>7. PICK i \in Job : /\ i = [j EXCEPT !.hot = slot[j.slot].hot]
                       /\ i.slot = j.slot /\ i.layer = j.layer
                       /\ i.eid = j.eid /\ i.gen = j.gen
    <2>1. slot[j.slot].hot \in BOOLEAN
        BY <1>6 DEF Slot
    <2>2. \A h \in BOOLEAN : LET i == [j EXCEPT !.hot = h] IN
            /\ i \in Job /\ i.slot = j.slot /\ i.layer = j.layer
            /\ i.eid = j.eid /\ i.gen = j.gen
        BY DEF Job
    <2>3. QED BY <2>1, <2>2
<1>8. w \in Runners /\ rpc[w] = "idle"
    BY DEF Pop, Runners
<1>9. /\ rpc' = [rpc EXCEPT ![w] = "alloc"]
      /\ rjob' = [rjob EXCEPT ![w] = i]
      /\ UNCHANGED <<slot, ws, rbuf, plFree, content, clock, gen, stopping,
                     cpc, creq, views, faults>>
    BY <1>2, <1>5, <1>7 DEF Pop, bufVars
<1>10. /\ rpc'[w] = "alloc" /\ rjob'[w] = i
       /\ \A r \in Runners : r # w => rpc'[r] = rpc[r] /\ rjob'[r] = rjob[r]
    BY <1>8, <1>9 DEF TypeOK
<1>11. specQ' \in Int /\ hotFlight' \in Int
    BY DEF Pop, SpecPopped, TypeOK
<1>12. TypeOK'
    BY <1>3, <1>9, <1>11 DEF TypeOK
<1>13. PayloadIffReady' /\ WsDistinct' /\ RequestValid'
    BY <1>9 DEF PayloadIffReady, WsDistinct, RequestValid
<1>14. RunnersHold'
    BY <1>9, <1>10 DEF RunnersHold
<1>15. CloseQuiet'
    BY <1>9, <1>10, ConstAssumption DEF CloseQuiet, Runners
<1>16. \A r \in Running' : r \in Runners /\ (r # w => r \in Running)
    BY <1>10 DEF Running
<1>17. \A k \in DOMAIN jobs' : \E m \in DOMAIN jobs :
            m # p /\ jobs'[k] = jobs[m] /\ m = IF k < p THEN k ELSE k + 1
    <2>1. SUFFICES ASSUME NEW k \in 1..(n - 1)
                   PROVE  \E m \in 1..n : /\ m # p /\ jobs'[k] = jobs[m]
                                          /\ m = IF k < p THEN k ELSE k + 1
        BY <1>3
    <2>2. p \in 1..n
        BY <1>2
    <2> HIDE DEF n
    <2>3. CASE k < p
        BY <1>3, <2>2, <2>3
    <2>4. CASE ~(k < p)
        <3>1. k + 1 \in 1..n /\ k + 1 # p
            BY <1>3, <2>2, <2>4
        <3>2. QED BY <1>3, <2>4, <3>1
    <2>5. QED BY <2>3, <2>4
<1>18. \A a \in Job : Targets(a) => Targets(a)'
    BY <1>9 DEF Targets
<1>19. Targets(i)'
    <2>1. Targets(j)
        BY <1>2, <1>3, <1>5 DEF JobOwnsSlot, JobsTarget
    <2>2. QED BY <1>7, <1>9, <2>1 DEF Targets
<1>20. JobsTarget'
    <2>1. \A k \in DOMAIN jobs' : Targets(jobs[k])'
        <3>1. ASSUME NEW k \in DOMAIN jobs', NEW a \in Job, a = jobs'[k]
              PROVE  Targets(a)'
            BY <1>17, <1>18, <3>1 DEF JobOwnsSlot, JobsTarget
        <3>2. QED BY <1>4, <1>17, <3>1
    <2>2. ASSUME NEW r \in Running', NEW a \in Job, a = rjob'[r]
          PROVE  Targets(a)'
        BY <1>10, <1>16, <1>18, <1>19, <2>2 DEF JobOwnsSlot, JobsTarget
    <2>3. \A r \in Running' : rjob'[r] \in Job
        BY <1>10, <1>16 DEF RunnersHold, Running
    <2>4. QED BY <2>1, <2>2, <2>3 DEF JobsTarget
<1>21. JobsApart'
    <2>1. ASSUME NEW a \in DOMAIN jobs', NEW b \in DOMAIN jobs',
                 jobs'[a].slot = jobs'[b].slot
          PROVE  a = b
        <3>1. PICK c \in DOMAIN jobs : /\ jobs'[a] = jobs[c]
                                       /\ c = IF a < p THEN a ELSE a + 1
            BY <1>17
        <3>2. PICK d \in DOMAIN jobs : /\ jobs'[b] = jobs[d]
                                       /\ d = IF b < p THEN b ELSE b + 1
            BY <1>17
        <3>3. c = d
            BY <2>1, <3>1, <3>2 DEF JobOwnsSlot, JobsApart
        <3>4. a \in Nat /\ b \in Nat /\ p \in Nat
            BY <1>3, <1>2
        <3>5. (IF a < p THEN a ELSE a + 1) = (IF b < p THEN b ELSE b + 1)
            BY <3>1, <3>2, <3>3
        <3>6. QED BY <3>4, <3>5
    <2>2. \A m \in DOMAIN jobs : jobs[m].slot = j.slot => m = p
        BY <1>2, <1>3, <1>5 DEF JobOwnsSlot, JobsApart
    <2>3. \A r \in Running : rjob[r].slot # j.slot
        BY <1>2, <1>3, <1>5 DEF JobOwnsSlot, JobsApart
    <2>4. ASSUME NEW q \in Running', NEW r \in Running',
                 rjob'[q].slot = rjob'[r].slot
          PROVE  q = r
        <3>1. q \in Runners /\ r \in Runners
            BY <1>16
        <3>2. CASE q = w /\ r # w
            BY <1>7, <1>10, <1>16, <2>3, <2>4, <3>1, <3>2
        <3>3. CASE q # w /\ r = w
            BY <1>7, <1>10, <1>16, <2>3, <2>4, <3>1, <3>3
        <3>4. CASE q # w /\ r # w
            <4>1. /\ q \in Running /\ r \in Running
                  /\ rjob[q].slot = rjob[r].slot
                BY <1>10, <1>16, <2>4, <3>1, <3>4
            <4>2. QED BY <4>1 DEF JobOwnsSlot, JobsApart
        <3>5. QED BY <3>2, <3>3, <3>4
    <2>5. ASSUME NEW k \in DOMAIN jobs', NEW r \in Running'
          PROVE  jobs'[k].slot # rjob'[r].slot
        <3>1. PICK m \in DOMAIN jobs : m # p /\ jobs'[k] = jobs[m]
            BY <1>17
        <3>2. CASE r = w
            BY <1>7, <1>10, <2>2, <3>1, <3>2
        <3>3. CASE r # w
            BY <1>10, <1>16, <3>1, <3>3 DEF JobOwnsSlot, JobsApart
        <3>4. QED BY <3>2, <3>3
    <2>6. QED BY <2>1, <2>4, <2>5 DEF JobsApart
<1>22. QED BY <1>12, <1>13, <1>14, <1>15, <1>20, <1>21 DEF JobOwnsSlot

\* The end of the fill of thread r, in its three outcomes, as far as the
\* slots go: the entry it was submitted for becomes READY with a payload, or
\* EMPTY without, and keeps its expert or loses it; no other slot changes.
LEMMA RunEndKeeps ==
    ASSUME IInv, NEW r \in Runners, rpc[r] \in {"alloc", "fill"},
           NEW v \in Slot,
           v.pl # NoBuf <=> v.state = "ready",
           v.eid \in {slot[rjob[r].slot].eid, NoEid},
           slot' = [slot EXCEPT ![rjob[r].slot] = v],
           AfterRun(r), AfterJob(r), rbuf' \in [Runners -> Bufs \cup {NoBuf}],
           \A q \in Runners : q # r => rbuf'[q] = rbuf[q],
           cpc' = WakeCompute,
           plFree' \in Seq(Bufs), content' \in [Bufs -> Bytes],
           faults' \in [read : Nat, alloc : Nat],
           UNCHANGED <<ws, jobs, specQ, hotFlight, clock, gen, stopping,
                       creq, views>>
    PROVE  IInv'
<1> USE DEF IInv
<1>1. PICK j \in Job : j = rjob[r]
    BY DEF RunnersHold
<1>2. j.slot \in Slots /\ r \in Running
    BY DEF Job, Running
<1>3. /\ slot'[j.slot] = v
      /\ \A t \in Slots : t # j.slot => slot'[t] = slot[t]
    BY <1>1, <1>2 DEF TypeOK
<1>4. slot' \in [Slots -> Slot]
    BY <1>1 DEF TypeOK
<1>5. /\ rpc' \in [Runners ->
            {"idle", "asleep", "alloc", "fill", "retire", "exited"}]
      /\ rpc'[r] \in {"idle", "retire"}
      /\ \A q \in Runners : q # r => rpc'[q] = rpc[q]
    BY DEF AfterRun, TypeOK
<1>6. rpc'[r] = "retire" => r \in Workers
    <2>1. rpc'[r] = IF r \in Workers THEN "retire" ELSE "idle"
        BY DEF AfterRun, TypeOK
    <2>2. QED BY <2>1
<1>7. /\ rjob' \in [Runners -> Job \cup {NoJob}]
      /\ r \in Workers => rjob'[r] = j
      /\ \A q \in Runners : q # r => rjob'[q] = rjob[q]
    BY <1>1 DEF AfterJob, TypeOK
<1>8. /\ cpc' \in {"free", "blocked", "woken", "promote", "guard", "joining",
                   "closed"}
      /\ cpc' # cpc => cpc = "blocked" /\ cpc' = "woken"
    BY DEF WakeCompute, TypeOK
<1>9. TypeOK'
    BY <1>4, <1>5, <1>7, <1>8 DEF TypeOK
<1>10. PayloadIffReady'
    BY <1>3 DEF PayloadIffReady
<1>11. RunnersHold'
    BY <1>5, <1>6, <1>7 DEF RunnersHold
<1>12. WsDistinct'
    BY DEF WsDistinct
<1>13. CloseQuiet'
    <2>1. ASSUME cpc' \in {"joining", "closed"}, NEW c \in Callers
          PROVE  stopping' /\ rpc'[c] = "idle"
        <3>1. cpc' = cpc
            BY <1>8, <2>1
        <3>2. stopping /\ rpc[c] = "idle" /\ c \in Runners
            BY <2>1, <3>1 DEF CloseQuiet, Runners
        <3>3. c # r
            BY <3>2
        <3>4. QED BY <1>5, <3>2, <3>3
    <2>2. Compute \in Callers
        BY DEF Callers
    <2>3. QED BY <2>1, <2>2 DEF CloseQuiet
<1>14. RequestValid'
    <2>1. CASE cpc' = "promote"
        BY <1>8, <2>1 DEF RequestValid
    <2>2. CASE cpc' \in {"blocked", "woken"}
        <3>1. cpc \in {"blocked", "woken"}
            BY <1>8, <2>2
        <3>2. creq.layer \in Layers
            BY <3>1 DEF RequestValid
        <3>3. PICK k \in DOMAIN ws[creq.layer] :
                ws[creq.layer][k] = creq.slot
            BY <3>1 DEF RequestValid
        <3>4. creq.slot \in Slots
            <4>1. ws[creq.layer] \in Seq(Heap) BY <3>2 DEF TypeOK
            <4>2. QED BY <3>3, <4>1, ElementOfSeq, LenProperties,
                         HeapIsNotLru
        <3>5. slot'[creq.slot].eid \in {slot[creq.slot].eid, NoEid}
            BY <1>1, <1>3, <3>4
        <3>6. slot'[creq.slot].eid \in {creq.eid, NoEid}
            BY <3>1, <3>5 DEF RequestValid
        <3>7. QED BY <2>2, <3>1, <3>2, <3>3, <3>6 DEF RequestValid
    <2>3. CASE cpc' \notin {"blocked", "woken", "promote"}
        BY <2>3 DEF RequestValid
    <2>4. QED BY <2>1, <2>2, <2>3
<1>15. JobOwnsSlot'
    <2>1. \A q \in Runners : rpc'[q] \in {"alloc", "fill"} =>
            q # r /\ q \in Running /\ rjob'[q] = rjob[q]
        BY <1>5, <1>7 DEF Running
    <2>2. ASSUME NEW i \in Job,
                 \/ \E k \in DOMAIN jobs : jobs[k] = i
                 \/ \E q \in Runners : rpc'[q] \in {"alloc", "fill"}
                                       /\ rjob[q] = i,
                 Targets(i)
          PROVE  Targets(i)'
        <3>1. i.slot # j.slot
            BY <1>1, <1>2, <2>1, <2>2 DEF JobOwnsSlot, JobsApart
        <3>2. i.slot \in Slots
            BY DEF Job
        <3>3. slot'[i.slot] = slot[i.slot]
            BY <1>3, <3>1, <3>2
        <3>4. QED BY <2>2, <3>3 DEF Targets
    <2>3. QED BY <2>1, <2>2, FillsKept DEF TypeOK
<1>16. QED BY <1>9, <1>10, <1>11, <1>12, <1>13, <1>14, <1>15

\* No buffer could be had: the slot is reset, and its expert forgotten.
LEMMA AllocFailKeeps ==
    ASSUME IInv, NEW r \in Runners, AllocFail(r)
    PROVE  IInv'
<1> USE DEF IInv
<1>1. PICK j \in Job : j = rjob[r]
    BY DEF AllocFail, RunnersHold
<1>2. j.slot \in Slots /\ slot[j.slot] \in Slot
    BY DEF Job, TypeOK
<1>3. slot[j.slot].state = "loading" /\ slot[j.slot].pl = NoBuf
    <2>1. r \in Running
        BY DEF AllocFail, Running
    <2>2. QED BY <1>1, <1>2, <2>1
              DEF JobOwnsSlot, JobsTarget, Targets, PayloadIffReady
<1> DEFINE v == [slot[j.slot] EXCEPT !.eid = NoEid, !.state = "empty"]
<1>4. v \in Slot
    BY <1>2, SlotUpdates
<1>5. v.pl = NoBuf /\ v.state = "empty" /\ v.eid = NoEid
    BY <1>2, <1>3 DEF Slot
<1>6. slot' = [slot EXCEPT ![j.slot] = v]
    BY <1>1, <1>2 DEF AllocFail, Drop, TypeOK
<1> HIDE DEF v
<1>7. /\ rpc[r] \in {"alloc", "fill"} /\ AfterRun(r) /\ AfterJob(r)
      /\ cpc' = WakeCompute
      /\ UNCHANGED <<ws, jobs, specQ, hotFlight, rbuf, plFree, content,
                     clock, gen, stopping, creq, views>>
    BY DEF AllocFail, queueVars, bufVars
<1>8. faults' \in [read : Nat, alloc : Nat]
    BY DEF AllocFail, TypeOK
<1>9. /\ rbuf' \in [Runners -> Bufs \cup {NoBuf}]
      /\ plFree' \in Seq(Bufs) /\ content' \in [Bufs -> Bytes]
    BY <1>7 DEF TypeOK
<1>10. QED BY <1>1, <1>4, <1>5, <1>6, <1>7, <1>8, <1>9, RunEndKeeps

\* The bytes arrived, and the claim finds its slot still LOADING.
LEMMA ReadOkKeeps ==
    ASSUME IInv, NEW r \in Runners, ReadOk(r)
    PROVE  IInv'
<1> USE DEF IInv
<1>1. PICK j \in Job, b \in Bufs : j = rjob[r] /\ b = rbuf[r]
    BY DEF ReadOk, RunnersHold
<1>2. j.slot \in Slots /\ slot[j.slot] \in Slot
    BY DEF Job, TypeOK
<1>3. Claims(j)
    <2>1. r \in Running
        BY DEF ReadOk, Running
    <2>2. QED BY <1>1, <2>1 DEF JobOwnsSlot, JobsTarget, Targets, Claims
<1> DEFINE v == [slot[j.slot] EXCEPT !.pl = b, !.state = "ready",
                                     !.hot = FALSE]
<1>4. v \in Slot
    BY <1>2, SlotUpdates
<1>5. v.pl = b /\ v.state = "ready" /\ v.eid = slot[j.slot].eid
    BY <1>2 DEF Slot
<1>6. slot' = [slot EXCEPT ![j.slot] = v]
    BY <1>1, <1>2, <1>3 DEF ReadOk, TypeOK
<1> HIDE DEF v
<1>7. /\ rpc[r] \in {"alloc", "fill"} /\ AfterRun(r) /\ AfterJob(r)
      /\ cpc' = WakeCompute /\ rbuf' = [rbuf EXCEPT ![r] = NoBuf]
      /\ UNCHANGED <<ws, jobs, specQ, hotFlight, clock, gen, stopping, creq,
                     views, faults>>
    BY DEF ReadOk, queueVars
<1>8. plFree' = plFree /\ content' = [content EXCEPT ![b] =
                                        <<j.layer, j.eid>>]
    BY <1>1, <1>3 DEF ReadOk
<1>9. content' \in [Bufs -> Bytes]
    BY <1>8 DEF TypeOK, Bytes, Job
<1>10. /\ rbuf' \in [Runners -> Bufs \cup {NoBuf}]
       /\ \A q \in Runners : q # r => rbuf'[q] = rbuf[q]
       /\ plFree' \in Seq(Bufs) /\ faults' \in [read : Nat, alloc : Nat]
    BY <1>7, <1>8 DEF TypeOK
<1>11. v.pl # NoBuf <=> v.state = "ready"
    BY <1>5, ConstAssumption
<1>12. QED BY <1>1, <1>4, <1>5, <1>6, <1>7, <1>9, <1>10, <1>11, RunEndKeeps

\* The pread failed: the slot is reset, and its expert forgotten.
LEMMA ReadFailKeeps ==
    ASSUME IInv, NEW r \in Runners, ReadFail(r)
    PROVE  IInv'
<1> USE DEF IInv
<1>1. PICK j \in Job, b \in Bufs : j = rjob[r] /\ b = rbuf[r]
    BY DEF ReadFail, RunnersHold
<1>2. j.slot \in Slots /\ slot[j.slot] \in Slot
    BY DEF Job, TypeOK
<1>3. slot[j.slot].state = "loading" /\ slot[j.slot].pl = NoBuf
    <2>1. r \in Running
        BY DEF ReadFail, Running
    <2>2. QED BY <1>1, <1>2, <2>1
              DEF JobOwnsSlot, JobsTarget, Targets, PayloadIffReady
<1> DEFINE v == [slot[j.slot] EXCEPT !.state = "empty", !.hot = FALSE,
                                     !.eid = NoEid]
<1>4. v \in Slot
    BY <1>2, SlotUpdates
<1>5. v.pl = NoBuf /\ v.state = "empty" /\ v.eid = NoEid
    BY <1>2, <1>3 DEF Slot
<1>6. slot' = [slot EXCEPT ![j.slot] = v]
    BY <1>1, <1>2 DEF ReadFail, TypeOK
<1> HIDE DEF v
<1>7. /\ rpc[r] \in {"alloc", "fill"} /\ AfterRun(r) /\ AfterJob(r)
      /\ cpc' = WakeCompute /\ rbuf' = [rbuf EXCEPT ![r] = NoBuf]
      /\ UNCHANGED <<ws, jobs, specQ, hotFlight, content, clock, gen,
                     stopping, creq, views>>
    BY DEF ReadFail, queueVars
<1>8. plFree' \in Seq(Bufs)
    BY <1>1, PutFacts DEF ReadFail
<1>9. faults' \in [read : Nat, alloc : Nat]
    <2>1. \A f \in [read : Nat, alloc : Nat] :
            [f EXCEPT !.read = @ + 1] \in [read : Nat, alloc : Nat]
        OBVIOUS
    <2>2. faults \in [read : Nat, alloc : Nat]
          /\ faults' = [faults EXCEPT !.read = @ + 1]
        BY DEF ReadFail, TypeOK
    <2>3. QED BY <2>1, <2>2
<1>10. /\ rbuf' \in [Runners -> Bufs \cup {NoBuf}]
       /\ \A q \in Runners : q # r => rbuf'[q] = rbuf[q]
       /\ content' \in [Bufs -> Bytes]
    BY <1>7 DEF TypeOK
<1>11. QED BY <1>1, <1>4, <1>5, <1>6, <1>7, <1>8, <1>9, <1>10, RunEndKeeps

-----------------------------------------------------------------------------
(* The theorems.                                                           *)

\* The cache apus_gcache_open leaves satisfies the invariant.
LEMMA InitIInv == Init => IInv
<1> SUFFICES ASSUME Init PROVE IInv
    OBVIOUS
<1>1. \A s \in Slots : slot[s] = Blank
    BY DEF Init
<1>2. Blank \in Slot /\ Blank.pl = NoBuf /\ Blank.state = "empty"
    BY DEF Blank, Slot, State
<1>3. TypeOK
    <2>1. slot \in [Slots -> Slot]
        BY <1>2 DEF Init
    <2>2. ws \in [Layers -> Seq(Heap)] /\ jobs \in Seq(Job)
          /\ plFree \in Seq(Bufs)
        BY EmptySeq DEF Init
    <2>3. content \in [Bufs -> Bytes]
        BY DEF Init, Bytes
    <2>4. /\ creq \in [layer : Nat, eid : Experts \cup {NoEid},
                       slot : Slots \cup {NoSlot}, idx : Nat]
          /\ views \in SUBSET [layer : Layers, eid : Experts, pl : Bufs]
          /\ faults \in [read : Nat, alloc : Nat]
        BY DEF Init, NoReq
    <2>5. /\ rpc \in [Runners ->
                {"idle", "asleep", "alloc", "fill", "retire", "exited"}]
          /\ rjob \in [Runners -> Job \cup {NoJob}]
          /\ rbuf \in [Runners -> Bufs \cup {NoBuf}]
        BY DEF Init
    <2>6. /\ specQ \in Int /\ hotFlight \in Int /\ clock \in Nat
          /\ gen \in Nat /\ stopping \in BOOLEAN
          /\ cpc \in {"free", "blocked", "woken", "promote", "guard",
                      "joining", "closed"}
        <3>1. /\ specQ = 0 /\ hotFlight = 0 /\ clock = 0 /\ gen = 0
              /\ stopping = FALSE /\ cpc = "free"
            BY DEF Init
        <3>2. stopping \in BOOLEAN
            BY <3>1, Zenon
        <3>3. QED BY <3>1, <3>2
    <2>7. QED BY <2>1, <2>2, <2>3, <2>4, <2>5, <2>6 DEF TypeOK
<1>4. PayloadIffReady
    BY <1>1, <1>2 DEF PayloadIffReady
<1>5. Running = {} /\ RunnersHold
    BY DEF Init, Running, RunnersHold
<1>6. WsDistinct
    BY EmptySeq DEF Init, WsDistinct
<1>7. RequestValid /\ CloseQuiet
    BY DEF Init, RequestValid, CloseQuiet
<1>8. JobOwnsSlot
    BY <1>5, EmptySeq DEF Init, JobOwnsSlot, JobsTarget, JobsApart
<1>9. QED BY <1>3, <1>4, <1>5, <1>6, <1>7, <1>8 DEF IInv

\* Every step keeps the invariant: one case per action.
LEMMA StepIInv == IInv /\ [Next]_vars => IInv'
<1> SUFFICES ASSUME IInv, [Next]_vars PROVE IInv'
    OBVIOUS
<1>1. Compute \in Callers /\ Pilot \in Callers /\ TRUE \in BOOLEAN
      /\ FALSE \in BOOLEAN
    BY DEF Callers
<1>2. CASE UNCHANGED vars
    BY <1>2, StutterKeeps
<1>3. ASSUME NEW r \in Runners, RunnerStep(r)
      PROVE  IInv'
    BY <1>3, GetBufKeeps, AllocFailKeeps, ReadOkKeeps, ReadFailKeeps
       DEF RunnerStep
<1>4. CASE ClientCall
    <2>1. ASSUME NEW l \in Layers, NEW e \in Experts, Hint(l, e)
          PROVE  IInv'
        <3>1. /\ rpc[Pilot] = "idle" /\ ~stopping
              /\ HintBody(Pilot, l, e, FALSE)
            BY <2>1 DEF Hint, PilotFree
        <3>2. QED BY <1>1, <3>1, HintKeeps
    <2>2. ASSUME NEW l \in Layers, NEW e \in Experts, HintDemand(l, e)
          PROVE  IInv'
        <3>1. /\ rpc[Compute] = "idle" /\ cpc = "free"
              /\ HintBody(Compute, l, e, TRUE)
            BY <2>2 DEF HintDemand, ComputeFree
        <3>2. QED BY <1>1, <3>1, HintKeeps
    <2>3. QED BY <1>4, <2>1, <2>2, ResolveKeeps, LayerEndKeeps, CloseKeeps
              DEF ClientCall
<1>5. CASE ComputeStep
    BY <1>5, WaitReadyKeeps, PromoteKeeps, PromoteDoneKeeps, RssGuardKeeps,
       JoinKeeps DEF ComputeStep
<1>6. ASSUME NEW w \in Workers, WorkerStep(w)
      PROVE  IInv'
    <2>1. w \in Runners
        BY DEF Runners
    <2>2. QED BY <1>3, <1>6, <2>1, SleepKeeps, ExitKeeps, PopKeeps,
                 RetireKeeps DEF WorkerStep
<1>7. ASSUME NEW c \in Callers, RunnerStep(c)
      PROVE  IInv'
    <2>1. c \in Runners
        BY DEF Runners
    <2>2. QED BY <1>3, <1>7, <2>1
<1>8. CASE Closed
    BY <1>8, StutterKeeps DEF Closed
<1>9. QED BY <1>2, <1>4, <1>5, <1>6, <1>7, <1>8, SpuriousKeeps DEF Next

\* IInv is an invariant of the cache, whatever the number of layers,
\* experts, slots, workers and buffers, and whatever fails.
THEOREM Inductive == Spec => []IInv
<1>1. QED BY InitIInv, StepIInv, PTL DEF Spec

\* The variables of the cache keep their types: no slot record, job or
\* buffer pointer is ever used uninitialised.
THEOREM TypeCorrect == Spec => []TypeOK
<1>1. IInv => TypeOK
    BY DEF IInv
<1>2. QED BY <1>1, Inductive, PTL

\* Every fill of the I/O pool points at the LOADING working-set entry it was
\* submitted for, alone: apus_gc_run_job writes through no freed slot.
THEOREM JobsOwnTheirSlots == Spec => []JobOwnsSlot
<1>1. IInv => JobOwnsSlot
    BY DEF IInv
<1>2. QED BY <1>1, Inductive, PTL

-----------------------------------------------------------------------------
(* The queue.                                                              *)

\* The fill a LOADING slot waits for.
Served(s) ==
    \/ \E k \in DOMAIN jobs : jobs[k].slot = s
    \/ \E r \in Running : rjob[r].slot = s

\* What the two counters count.
SpecPos == {k \in DOMAIN jobs : ~jobs[k].hot}
Busy    == {"alloc", "fill", "retire"}
HotRun  == {w \in Workers : rpc[w] \in Busy /\ rjob[w].hot}

\* In synchronous mode nothing is queued.
QueueInv ==
    /\ WaitIsServed /\ WorkersAwake /\ ClassAccounting
    /\ Sync => jobs = <<>>

-----------------------------------------------------------------------------
(* Counting in a sequence.                                                 *)

\* The positions of q that hold an element of T.
PosOf(q, T) == {k \in DOMAIN q : q[k] \in T}

LEMMA PosFinite ==
    ASSUME NEW S, NEW q \in Seq(S), NEW T
    PROVE  IsFiniteSet(PosOf(q, T))
<1>1. DOMAIN q = 1..Len(q) /\ Len(q) \in Nat
    BY LenProperties
<1>2. IsFiniteSet(1..Len(q))
    BY <1>1, FS_Interval
<1>3. QED BY <1>1, <1>2, FS_Subset DEF PosOf

\* Appending x counts one more when x is counted.
LEMMA CountAppend ==
    ASSUME NEW S, NEW q \in Seq(S), NEW x \in S, NEW T
    PROVE  Cardinality(PosOf(Append(q, x), T)) =
             IF x \in T THEN Cardinality(PosOf(q, T)) + 1
             ELSE Cardinality(PosOf(q, T))
<1> DEFINE n == Len(q) + 1
<1>1. /\ Len(q) \in Nat
      /\ DOMAIN q = 1..Len(q)
      /\ DOMAIN Append(q, x) = 1..n
      /\ \A k \in DOMAIN q : Append(q, x)[k] = q[k]
      /\ Append(q, x)[n] = x
    BY AppendFacts
<1>2. PosOf(Append(q, x), T) =
        IF x \in T THEN PosOf(q, T) \cup {n} ELSE PosOf(q, T)
    <2>1. \A k \in 1..n : k \in DOMAIN q \/ k = n
        BY <1>1
    <2>2. \A k \in DOMAIN q : k \in 1..n
        BY <1>1
    <2>3. n \in 1..n
        BY <1>1
    <2> HIDE DEF n
    <2>4. QED BY <1>1, <2>1, <2>2, <2>3 DEF PosOf
<1>3. n \notin PosOf(q, T)
    BY <1>1 DEF PosOf
<1>4. IsFiniteSet(PosOf(q, T))
    BY PosFinite
<1> HIDE DEF n
<1>5. Cardinality(PosOf(q, T) \cup {n}) = Cardinality(PosOf(q, T)) + 1
    BY <1>3, <1>4, FS_AddElement
<1>6. QED BY <1>2, <1>5

\* Removing entry i counts one less when it was counted.
LEMMA CountRemove ==
    ASSUME NEW S, NEW q \in Seq(S), NEW i \in 1..Len(q), NEW T
    PROVE  Cardinality(PosOf(RemoveAt(q, i), T)) =
             IF q[i] \in T THEN Cardinality(PosOf(q, T)) - 1
             ELSE Cardinality(PosOf(q, T))
<1> DEFINE n == Len(q)
           p == RemoveAt(q, i)
           A == PosOf(q, T) \ {i}
           B == PosOf(p, T)
           F == [k \in B |-> IF k < i THEN k ELSE k + 1]
<1>1. /\ n \in Nat /\ DOMAIN q = 1..n /\ DOMAIN p = 1..(n - 1)
      /\ \A k \in 1..(n - 1) : p[k] = IF k < i THEN q[k] ELSE q[k + 1]
      /\ i \in 1..n
    BY RemoveFacts
<1> HIDE DEF n, p
<1>2. ASSUME NEW k \in B
      PROVE  k \in 1..(n - 1) /\ F[k] \in A
    <2>1. k \in 1..(n - 1) /\ p[k] \in T
        BY <1>1 DEF PosOf
    <2>2. CASE k < i
        BY <1>1, <2>1, <2>2 DEF PosOf
    <2>3. CASE ~(k < i)
        BY <1>1, <2>1, <2>3 DEF PosOf
    <2>4. QED BY <2>1, <2>2, <2>3
<1>3. ASSUME NEW k \in B, NEW m \in B, F[k] = F[m]
      PROVE  k = m
    <2>1. k \in Int /\ m \in Int /\ i \in Int
        BY <1>1, <1>2
    <2>2. QED BY <1>3, <2>1
<1>4. ASSUME NEW a \in A
      PROVE  \E k \in B : F[k] = a
    <2>1. a \in 1..n /\ a # i /\ q[a] \in T
        BY <1>1 DEF PosOf
    <2>2. CASE a < i
        <3>1. a \in 1..(n - 1) /\ p[a] = q[a]
            BY <1>1, <2>1, <2>2
        <3>2. a \in B
            BY <1>1, <2>1, <3>1 DEF PosOf
        <3>3. QED BY <2>2, <3>2
    <2>3. CASE ~(a < i)
        <3>1. a - 1 \in 1..(n - 1) /\ ~(a - 1 < i) /\ (a - 1) + 1 = a
            BY <1>1, <2>1, <2>3
        <3>2. p[a - 1] = q[a]
            BY <1>1, <3>1
        <3>3. a - 1 \in B
            BY <1>1, <2>1, <3>1, <3>2 DEF PosOf
        <3>4. QED BY <3>1, <3>3
    <2>4. QED BY <2>2, <2>3
<1>5. ExistsBijection(B, A)
    <2>1. F \in [B -> A]
        BY <1>2
    <2> HIDE DEF F, A, B
    <2>2. F \in Bijection(B, A)
        BY <1>3, <1>4, <2>1
           DEF Bijection, Injection, Surjection, IsInjective
    <2>3. QED BY <2>2 DEF ExistsBijection
<1>6. IsFiniteSet(PosOf(q, T))
    BY PosFinite
<1>7. IsFiniteSet(A) /\ Cardinality(A) =
        IF i \in PosOf(q, T) THEN Cardinality(PosOf(q, T)) - 1
        ELSE Cardinality(PosOf(q, T))
    BY <1>6, FS_RemoveElement
<1>8. i \in PosOf(q, T) <=> q[i] \in T
    BY <1>1 DEF PosOf
<1>9. IsFiniteSet(B)
    <2>1. p \in Seq(S)
        BY RemoveFacts DEF p
    <2>2. QED BY <2>1, PosFinite
<1>10. Cardinality(A) = Cardinality(B)
    <2> HIDE DEF A, B
    <2>1. QED BY <1>5, <1>9, FS_Bijection
<1>11. QED BY <1>7, <1>8, <1>10 DEF p

-----------------------------------------------------------------------------
(* The three parts, when a step leaves them mostly alone.                  *)

\* No slot starts to load, every fill that does not end goes on, and a
\* sleeping resolve still sleeps on a LOADING slot.
LEMMA ServedKept ==
    ASSUME WaitIsServed,
           \A s \in Slots : slot'[s].state = "loading" =>
                slot[s].state = "loading" /\ (Served(s) => Served(s)'),
           cpc' = "blocked" => slot'[creq'.slot].state = "loading"
    PROVE  WaitIsServed'
<1>1. \A s \in Slots : slot[s].state = "loading" => Served(s)
    BY DEF WaitIsServed, Served
<1>2. \A s \in Slots : slot'[s].state = "loading" => Served(s)'
    BY <1>1
<1>3. QED BY <1>2 DEF WaitIsServed, Served

\* No worker falls asleep and no job arrives.
LEMMA AwakeKept ==
    ASSUME WorkersAwake, jobs' # <<>> => jobs # <<>>, Asleep' \subseteq Asleep,
           stopping' = stopping
    PROVE  WorkersAwake'
<1>1. Asleep \subseteq Workers
    BY DEF Asleep
<1>2. QED BY <1>1 DEF WorkersAwake

\* No job is queued or taken, and the fills that count keep counting.
LEMMA AccountKept ==
    ASSUME ClassAccounting, jobs' = jobs, specQ' = specQ,
           hotFlight' = hotFlight,
           \A w \in Workers :
                /\ rpc'[w] \in Busy <=> rpc[w] \in Busy
                /\ rpc[w] \in Busy => rjob'[w] = rjob[w]
    PROVE  ClassAccounting'
<1>1. HotRun' = HotRun
    BY DEF HotRun
<1>2. QED BY <1>1 DEF ClassAccounting, HotRun, Busy

\* The counters count finite sets.
LEMMA CountsFinite ==
    ASSUME IInv
    PROVE  /\ IsFiniteSet(SpecPos) /\ Cardinality(SpecPos) \in Nat
           /\ IsFiniteSet(HotRun) /\ Cardinality(HotRun) \in Nat
           /\ SpecPos = PosOf(jobs, {j \in Job : ~j.hot})
<1>1. jobs \in Seq(Job)
    BY DEF IInv, TypeOK
<1>2. SpecPos = PosOf(jobs, {j \in Job : ~j.hot})
    <2>1. \A k \in DOMAIN jobs : jobs[k] \in Job
        BY <1>1, ElementOfSeq, LenProperties
    <2>2. QED BY <2>1 DEF SpecPos, PosOf
<1>3. IsFiniteSet(SpecPos) /\ Cardinality(SpecPos) \in Nat
    BY <1>1, <1>2, PosFinite, FS_CardinalityType
<1>4. IsFiniteSet(HotRun)
    BY WorkersFinite, FS_Subset DEF HotRun
<1>5. QED BY <1>2, <1>3, <1>4, FS_CardinalityType

\* A step of a thread that neither queues nor runs a fill, and starts no
\* load.
LEMMA CalmKeeps ==
    ASSUME QueueInv, jobs' = jobs, specQ' = specQ, hotFlight' = hotFlight,
           rpc' = rpc, rjob' = rjob, stopping' = stopping,
           \A s \in Slots : slot'[s].state = "loading" =>
                slot[s].state = "loading",
           cpc' = "blocked" => slot'[creq'.slot].state = "loading"
    PROVE  QueueInv'
<1>1. \A s \in Slots : Served(s) => Served(s)'
    BY DEF Served, Running
<1>2. WaitIsServed'
    BY <1>1, ServedKept DEF QueueInv
<1>3. WorkersAwake'
    BY AwakeKept DEF QueueInv, Asleep
<1>4. ClassAccounting'
    BY AccountKept DEF QueueInv
<1>5. QED BY <1>2, <1>3, <1>4 DEF QueueInv

-----------------------------------------------------------------------------
(* Once close has been called no job is queued, so a worker that has       *)
(* exited has left an empty queue behind.                                  *)

StopInv ==
    /\ stopping => cpc \in {"joining", "closed"}
    /\ (\E w \in Workers : rpc[w] = "exited") => stopping /\ jobs = <<>>

\* Before close every step leaves the workers running.
LEMMA OpenKeeps ==
    ASSUME IInv, StopInv, ~stopping, ~stopping',
           \A w \in Workers : rpc'[w] = "exited" => rpc[w] = "exited"
    PROVE  StopInv'
BY DEF StopInv

\* After it, none queues a job.
LEMMA ClosingKeeps ==
    ASSUME IInv, StopInv, stopping' = stopping,
           jobs' # <<>> => jobs # <<>>,
           cpc \in {"joining", "closed"} => cpc' \in {"joining", "closed"},
           \A w \in Workers : rpc'[w] = "exited" =>
                rpc[w] = "exited" \/ (stopping /\ jobs = <<>>)
    PROVE  StopInv'
BY DEF StopInv

LEMMA StepStopInv == IInv /\ StopInv /\ [Next]_vars => StopInv'
<1> SUFFICES ASSUME IInv, StopInv, [Next]_vars PROVE StopInv'
    OBVIOUS
<1>1. ~(Compute \in Workers) /\ ~(Pilot \in Workers)
    BY ConstAssumption DEF Callers
<1>2. CASE UNCHANGED vars
    BY <1>2 DEF StopInv, vars
<1>3. ASSUME NEW c \in Callers, NEW l, NEW e, NEW s, NEW r,
             Submit(c, l, e, s, r)
      PROVE  \A w \in Workers : rpc'[w] = "exited" => rpc[w] = "exited"
    <2>1. c \notin Workers
        BY ConstAssumption
    <2>2. QED BY <1>3, <2>1 DEF Submit, Signal, IInv, TypeOK, Runners
<1>4. cpc \in {"free", "woken"} => ~stopping
    BY DEF StopInv
<1>5. Compute \in Callers /\ Pilot \in Callers
    BY DEF Callers
<1>6. ASSUME NEW c \in Callers, NEW l, NEW e, NEW demand, ~stopping,
             HintBody(c, l, e, demand)
      PROVE  StopInv'
    <2>1. ~stopping'
        BY <1>6 DEF HintBody
    <2>2. \A w \in Workers : rpc'[w] = "exited" => rpc[w] = "exited"
        BY <1>3, <1>6 DEF HintBody, HintNew, HintAgain, HintBoost,
                          HintNothing, runVars
    <2>3. QED BY <1>6, <2>1, <2>2, OpenKeeps
<1>7. ASSUME NEW l, NEW e, NEW s, ~stopping,
             \/ Deliver(l, e, s) \/ Fail \/ Resubmit(l, e, s)
             \/ /\ Block(l, e, s, "blocked")
                /\ UNCHANGED <<slot, ws, queueVars, runVars>>
      PROVE  StopInv'
    <2>1. ~stopping'
        BY <1>7 DEF Deliver, Fail, Resubmit, Block
    <2>2. \A w \in Workers : rpc'[w] = "exited" => rpc[w] = "exited"
        BY <1>3, <1>5, <1>7 DEF Deliver, Fail, Resubmit, Block, runVars
    <2>3. QED BY <1>7, <2>1, <2>2, OpenKeeps
<1>8. ASSUME NEW l \in Layers, NEW e \in Experts, Resolve(l, e)
      PROVE  StopInv'
    <2>1. ~stopping
        BY <1>4, <1>8 DEF Resolve, ComputeFree
    <2>2. CASE Deliver(l, e, Lookup(l, e)) \/ Fail
               \/ Resubmit(l, e, Lookup(l, e))
        BY <1>7, <2>1, <2>2
    <2>3. CASE ResolveJoin(l, e)
        <3>1. ~stopping' /\ rpc' = rpc
            BY <2>1, <2>3 DEF ResolveJoin, Block, runVars
        <3>2. QED BY <2>1, <3>1, OpenKeeps
    <2>4. CASE /\ Submit(Compute, l, e, NewSlot, NewEntry(e, TRUE))
               /\ Block(l, e, NewSlot, AfterSubmit)
        <3>1. ~stopping'
            BY <2>1, <2>4 DEF Block
        <3>2. QED BY <1>3, <1>5, <2>1, <2>4, <3>1, OpenKeeps
    <2>5. QED BY <1>8, <2>2, <2>3, <2>4
              DEF Resolve, ResolveHit, ResolveMiss
<1>9. CASE WaitReady
    <2>1. ~stopping
        BY <1>4, <1>9 DEF WaitReady
    <2>2. QED BY <1>7, <1>9, <2>1 DEF WaitReady
<1>10. ASSUME NEW l \in Layers, LayerEnd(l)
       PROVE  StopInv'
    BY <1>10, ClosingKeeps DEF LayerEnd, ComputeFree, queueVars, runVars
<1>11. CASE Promote \/ PromoteDone \/ RssGuard
    BY <1>11, ClosingKeeps
       DEF Promote, PromoteDone, RssGuard, GuardTurn, queueVars, runVars
<1>12. CASE Close
    <2>1. ~stopping
        BY <1>4, <1>12 DEF Close, ComputeFree
    <2>2. \A w \in Workers : rpc[w] # "exited"
        BY <2>1 DEF StopInv
    <2>3. \A w \in Workers : rpc'[w] # "exited"
        BY <1>12, <2>2 DEF Close, WakeWorkers, Runners
    <2>4. QED BY <1>12, <2>3 DEF Close, StopInv
<1>13. CASE Join
    BY <1>13, ClosingKeeps DEF Join, runVars
<1>14. CASE Spurious
    <2>1. \A w \in Workers : rpc'[w] = "exited" => rpc[w] = "exited"
        BY <1>14 DEF Spurious, IInv, TypeOK, Runners
    <2>2. QED BY <1>14, <2>1, ClosingKeeps DEF Spurious, queueVars
<1>15. ASSUME NEW r \in Runners, RunnerStep(r)
       PROVE  StopInv'
    <2>1. stopping' = stopping /\ jobs' = jobs
        BY <1>15 DEF RunnerStep, GetBuf, AllocFail, ReadOk, ReadFail,
                     queueVars
    <2>2. cpc \in {"joining", "closed"} => cpc' = cpc
        BY <1>15 DEF RunnerStep, GetBuf, AllocFail, ReadOk, ReadFail,
                     WakeCompute
    <2>3. \A w \in Workers : rpc'[w] = "exited" => rpc[w] = "exited"
        BY <1>15 DEF RunnerStep, GetBuf, AllocFail, ReadOk, ReadFail,
                     AfterRun, IInv, TypeOK, Runners
    <2>4. QED BY <2>1, <2>2, <2>3, ClosingKeeps
<1>16. ASSUME NEW w \in Workers, Sleep(w) \/ Exit(w) \/ Pop(w) \/ Retire(w)
       PROVE  StopInv'
    <2>1. stopping' = stopping /\ (jobs' # <<>> => jobs # <<>>) /\ cpc' = cpc
        BY <1>16 DEF Sleep, Exit, Pop, Retire, queueVars
    <2>2. \A v \in Workers : rpc'[v] = "exited" =>
            rpc[v] = "exited" \/ (stopping /\ jobs = <<>>)
        BY <1>16 DEF Sleep, Exit, Pop, Retire, IInv, TypeOK, Runners
    <2>3. QED BY <2>1, <2>2, ClosingKeeps
<1>17. CASE ClientCall
    BY <1>4, <1>5, <1>6, <1>8, <1>10, <1>12, <1>17
       DEF ClientCall, Hint, HintDemand, PilotFree, ComputeFree
<1>18. CASE ComputeStep
    BY <1>9, <1>11, <1>13, <1>18 DEF ComputeStep
<1>19. CASE (\E w \in Workers : WorkerStep(w))
            \/ (\E c \in Callers : RunnerStep(c))
    BY <1>15, <1>16, <1>19 DEF WorkerStep, Runners
<1>20. CASE Closed
    BY <1>2, <1>20 DEF Closed
<1>21. QED BY <1>2, <1>14, <1>17, <1>18, <1>19, <1>20 DEF Next

-----------------------------------------------------------------------------
(* The inductive step, action by action.                                   *)

\* A fill submitted: queued with a signal, or run by the caller.
LEMMA SubmitQueues ==
    ASSUME IInv, QueueInv, NEW c \in Callers, NEW l \in Layers,
           NEW e \in Experts, NEW s \in Heap, NEW r \in Slot,
           r.hot \/ specQ < SpecCap, rpc[c] = "idle",
           Submit(c, l, e, s, r), stopping' = stopping
    PROVE  /\ \A t \in Slots : slot'[t].state = "loading" => Served(t)'
           /\ slot'[s].state = "loading"
           /\ \A t \in Slots : t # s => slot'[t] = slot[t]
           /\ WorkersAwake' /\ ClassAccounting' /\ (Sync => jobs' = <<>>)
<1> DEFINE q == [r EXCEPT !.state = "loading", !.gen = gen]
<1>1. PICK j \in Job : j = [layer |-> l, eid |-> e, slot |-> s,
                            gen |-> gen, hot |-> r.hot]
    BY HeapIsNotLru DEF IInv, TypeOK, Job, Slot
<1>2. slot' = [slot EXCEPT ![s] = q] /\ q.state = "loading" /\ s \in Slots
      /\ j.slot = s /\ (j.hot <=> r.hot)
    BY <1>1, HeapIsNotLru DEF Submit, Slot
<1> HIDE DEF q
<1>3. /\ slot'[s].state = "loading"
      /\ \A t \in Slots : t # s => slot'[t] = slot[t]
    BY <1>2 DEF IInv, TypeOK
<1>4. c \in Runners /\ c \notin Workers
    BY ConstAssumption DEF Runners
<1>5. ASSUME \A t \in Slots : Served(t) => Served(t)', Served(s)'
      PROVE  \A t \in Slots : slot'[t].state = "loading" => Served(t)'
    BY <1>3, <1>5 DEF QueueInv, WaitIsServed, Served
<1>6. jobs \in Seq(Job) /\ hotFlight' = hotFlight
    BY DEF IInv, TypeOK, Submit
<1>7. CASE Sync
    <2>1. /\ jobs' = jobs /\ specQ' = specQ
          /\ rpc' = [rpc EXCEPT ![c] = "alloc"]
          /\ rjob' = [rjob EXCEPT ![c] = j]
        BY <1>1, <1>7 DEF Submit
    <2>2. /\ rpc'[c] = "alloc" /\ rjob'[c] = j
          /\ \A p \in Runners : p # c =>
                rpc'[p] = rpc[p] /\ rjob'[p] = rjob[p]
        BY <1>4, <2>1 DEF IInv, TypeOK
    <2>3. Served(s)'
        BY <1>2, <1>4, <2>2 DEF Served, Running
    <2>4. \A t \in Slots : Served(t) => Served(t)'
        <3>1. c \notin Running
            BY DEF Running
        <3>2. \A p \in Running : p \in Running' /\ rjob'[p] = rjob[p]
            BY <2>2, <3>1 DEF Running
        <3>3. QED BY <2>1, <3>2 DEF Served
    <2>5. WorkersAwake'
        <3>1. Asleep' \subseteq Asleep
            BY <1>7 DEF Sync, Asleep
        <3>2. QED BY <2>1, <3>1, AwakeKept DEF QueueInv
    <2>6. ClassAccounting'
        BY <1>6, <1>7, <2>1, AccountKept DEF QueueInv, Sync
    <2>7. QED BY <1>3, <1>5, <1>7, <2>1, <2>3, <2>4, <2>5, <2>6
              DEF QueueInv
<1>8. CASE ~Sync
    <2>1. /\ jobs' = Append(jobs, j) /\ rjob' = rjob
          /\ specQ' = (IF r.hot THEN specQ ELSE specQ + 1)
          /\ Signal
        BY <1>1, <1>8 DEF Submit
    <2>2. /\ Len(jobs) \in Nat
          /\ DOMAIN jobs = 1..Len(jobs)
          /\ DOMAIN jobs' = 1..(Len(jobs) + 1)
          /\ \A k \in DOMAIN jobs : jobs'[k] = jobs[k]
          /\ jobs'[Len(jobs) + 1] = j
        BY <1>6, <2>1, AppendFacts
    <2>3. \A p \in Runners :
            \/ rpc'[p] = rpc[p]
            \/ rpc[p] = "asleep" /\ rpc'[p] = "idle"
        BY <2>1 DEF Signal, IInv, TypeOK, Asleep, Runners
    <2>4. Running' = Running
        BY <2>3 DEF Running
    <2>5. Served(s)'
        <3>1. Len(jobs) + 1 \in DOMAIN jobs'
            BY <2>2
        <3>2. QED BY <1>2, <2>2, <3>1 DEF Served
    <2>6. \A t \in Slots : Served(t) => Served(t)'
        <3>1. \A k \in DOMAIN jobs : k \in DOMAIN jobs'
            BY <2>2
        <3>2. QED BY <2>1, <2>2, <2>4, <3>1 DEF Served
    <2>7. WorkersAwake'
        <3>1. Asleep' \subseteq Asleep
            BY <2>3 DEF Asleep, Runners
        <3>2. Asleep' # Workers
            <4>1. CASE Asleep = {}
                BY <1>8, <3>1, <4>1 DEF Sync
            <4>2. CASE Asleep # {}
                <5>1. PICK w \in Asleep : rpc' = [rpc EXCEPT ![w] = "idle"]
                    BY <2>1, <4>2 DEF Signal
                <5>2. rpc'[w] = "idle" /\ w \in Workers
                    BY <5>1 DEF Asleep, IInv, TypeOK, Runners
                <5>3. QED BY <5>2 DEF Asleep
            <4>3. QED BY <4>1, <4>2
        <3>3. QED BY <3>1, <3>2 DEF WorkersAwake, QueueInv
    <2>8. ClassAccounting'
        <3>1. \A w \in Workers : rpc'[w] \in Busy <=> rpc[w] \in Busy
            BY <2>3 DEF Busy, Runners
        <3>2. HotRun' = HotRun
            BY <2>1, <3>1 DEF HotRun
        <3> DEFINE T == {i \in Job : ~i.hot}
        <3>3. SpecPos' = PosOf(jobs', T)
            <4>1. jobs' \in Seq(Job)
                BY <1>6, <2>1, AppendFacts
            <4>2. \A k \in DOMAIN jobs' : jobs'[k] \in Job
                BY <4>1, ElementOfSeq, LenProperties
            <4>3. QED BY <4>2 DEF SpecPos, PosOf
        <3>4. Cardinality(SpecPos') = IF j \in T THEN Cardinality(SpecPos) + 1
                                      ELSE Cardinality(SpecPos)
            <4>1. SpecPos = PosOf(jobs, T)
                BY CountsFinite
            <4> HIDE DEF T
            <4>2. QED BY <1>6, <2>1, <3>3, <4>1, CountAppend
        <3>5. j \in T <=> ~r.hot
            BY <1>2
        <3>6. specQ = Cardinality(SpecPos) /\ specQ <= SpecCap
              /\ hotFlight = Cardinality(HotRun)
            BY DEF QueueInv, ClassAccounting, SpecPos, HotRun, Busy
        <3> HIDE DEF T
        <3>7. specQ' = Cardinality(SpecPos') /\ specQ' <= SpecCap
            <4>1. Cardinality(SpecPos) \in Nat
                BY CountsFinite
            <4>2. QED BY <2>1, <3>4, <3>5, <3>6, <4>1, ConstAssumption
        <3>8. hotFlight' = Cardinality(HotRun')
            BY <1>6, <3>2, <3>6
        <3>9. QED BY <3>7, <3>8 DEF ClassAccounting, SpecPos, HotRun, Busy
    <2>9. QED BY <1>3, <1>5, <1>8, <2>5, <2>6, <2>7, <2>8
<1>9. QED BY <1>7, <1>8

\* A sleeping resolve sleeps on a slot.
LEMMA BlockedOnSlot ==
    ASSUME IInv, cpc \in {"blocked", "woken"}
    PROVE  creq.slot \in Slots /\ creq.slot \in Heap
<1>1. PICK k \in DOMAIN ws[creq.layer] : ws[creq.layer][k] = creq.slot
    BY DEF IInv, RequestValid
<1>2. ws[creq.layer] \in Seq(Heap)
    BY DEF IInv, TypeOK, RequestValid
<1>3. QED BY <1>1, <1>2, ElementOfSeq, LenProperties, HeapIsNotLru

\* A call that submits a fill: the caller goes on, or waits for it.
LEMMA CallQueues ==
    ASSUME IInv, QueueInv, NEW c \in Callers, NEW l \in Layers,
           NEW e \in Experts, NEW s \in Heap, NEW r \in Slot,
           r.hot \/ specQ < SpecCap, rpc[c] = "idle",
           Submit(c, l, e, s, r), stopping' = stopping,
           \/ cpc' = cpc /\ creq' = creq
           \/ creq'.slot = s
    PROVE  QueueInv'
<1>1. /\ \A t \in Slots : slot'[t].state = "loading" => Served(t)'
      /\ slot'[s].state = "loading"
      /\ \A t \in Slots : t # s => slot'[t] = slot[t]
      /\ WorkersAwake' /\ ClassAccounting' /\ (Sync => jobs' = <<>>)
    BY SubmitQueues
<1>2. cpc' = "blocked" => slot'[creq'.slot].state = "loading"
    BY <1>1, BlockedOnSlot DEF QueueInv, WaitIsServed
<1>3. WaitIsServed'
    BY <1>1, <1>2 DEF WaitIsServed, Served
<1>4. QED BY <1>1, <1>3 DEF QueueInv

\* Raising a slot to demand class, or stamping it, loads nothing.
LEMMA SameStates ==
    ASSUME IInv, NEW s \in Slots,
           \/ slot' = [slot EXCEPT ![s].hot = TRUE]
           \/ slot' = [slot EXCEPT ![s].last = clock + 1]
    PROVE  \A t \in Slots : slot'[t].state = slot[t].state
<1>1. slot[s] \in Slot /\ clock + 1 \in Nat /\ TRUE \in BOOLEAN
    BY DEF IInv, TypeOK
<1>2. CASE slot' = [slot EXCEPT ![s].hot = TRUE]
    <2>1. /\ slot'[s] = [slot[s] EXCEPT !.hot = TRUE]
          /\ \A t \in Slots : t # s => slot'[t] = slot[t]
        BY <1>2 DEF IInv, TypeOK
    <2>2. QED BY <1>1, <2>1 DEF Slot
<1>3. CASE slot' = [slot EXCEPT ![s].last = clock + 1]
    <2>1. /\ slot'[s] = [slot[s] EXCEPT !.last = clock + 1]
          /\ \A t \in Slots : t # s => slot'[t] = slot[t]
        BY <1>3 DEF IInv, TypeOK
    <2>2. QED BY <1>1, <2>1 DEF Slot
<1>4. QED BY <1>2, <1>3

\* A hint, in its four cases.
LEMMA HintQueues ==
    ASSUME IInv, QueueInv, NEW c \in Callers, NEW l \in Layers,
           NEW e \in Experts, NEW demand \in BOOLEAN, rpc[c] = "idle",
           HintBody(c, l, e, demand)
    PROVE  QueueInv'
<1>1. stopping' = stopping /\ cpc' = cpc /\ creq' = creq
    BY DEF HintBody
<1>2. SpecAdmit => specQ < SpecCap
    BY DEF SpecAdmit
<1>3. cpc = "blocked" => creq.slot \in Slots
                         /\ slot[creq.slot].state = "loading"
    BY BlockedOnSlot DEF QueueInv, WaitIsServed
<1>4. CASE HintNew(c, l, e, demand)
    <2> DEFINE s == NewSlot
               r == NewEntry(e, demand)
    <2>1. /\ s \in Heap /\ r \in Slot /\ (r.hot \/ specQ < SpecCap)
          /\ Submit(c, l, e, s, r)
        <3>1. r.hot = demand
            BY DEF NewEntry, Blank
        <3>2. QED BY <1>2, <1>4, <3>1, NewSlotFacts, NewEntryFacts
                  DEF HintNew
    <2> HIDE DEF s, r
    <2>2. QED BY <1>1, <2>1, CallQueues
<1>5. CASE HintAgain(c, l, e, demand)
    <2> DEFINE s == Lookup(l, e)
               r == [slot[s] EXCEPT !.hot = demand \/ @]
    <2>1. /\ s # NoSlot /\ slot[s].state = "empty"
          /\ (demand \/ specQ < SpecCap)
          /\ Submit(c, l, e, s, r)
        BY <1>2, <1>5 DEF HintAgain, Idle
    <2>2. s \in Heap
        BY <2>1, IdleIsInWs
    <2>3. slot[s] \in Slot
        BY <2>2, HeapIsNotLru DEF IInv, TypeOK
    <2>4. r \in Slot /\ (demand => r.hot)
        <3> HIDE DEF s
        <3>1. QED BY <2>3 DEF Slot
    <2> HIDE DEF s, r
    <2>5. QED BY <1>1, <2>1, <2>2, <2>4, CallQueues
<1>6. CASE HintBoost(l, e, demand)
    <2>1. /\ Lookup(l, e) # NoSlot
          /\ slot' = [slot EXCEPT ![Lookup(l, e)].hot = TRUE]
          /\ UNCHANGED <<jobs, specQ, hotFlight, rpc, rjob>>
        BY <1>6 DEF HintBoost, queueVars, runVars
    <2>2. \A t \in Slots : slot'[t].state = slot[t].state
        BY <2>1, LookupFacts, SameStates DEF IInv
    <2>3. QED BY <1>1, <1>3, <2>1, <2>2, CalmKeeps
<1>7. CASE HintNothing(l, e, demand)
    BY <1>1, <1>3, <1>7, CalmKeeps DEF HintNothing, queueVars, runVars
<1>8. QED BY <1>4, <1>5, <1>6, <1>7 DEF HintBody

\* A fill submitted again by a resolve.
LEMMA ResubmitQueues ==
    ASSUME IInv, QueueInv, NEW l \in Layers, NEW e \in Experts,
           NEW s \in Heap, rpc[Compute] = "idle", Resubmit(l, e, s)
    PROVE  QueueInv'
<1> DEFINE r == [slot[s] EXCEPT !.hot = TRUE]
<1>1. r \in Slot /\ r.hot /\ Compute \in Callers
    <2>1. slot[s] \in Slot /\ TRUE \in BOOLEAN
        BY HeapIsNotLru DEF IInv, TypeOK
    <2>2. r \in Slot
        BY <2>1, SlotUpdates
    <2>3. r.hot
        BY <2>1 DEF Slot
    <2>4. QED BY <2>2, <2>3 DEF Callers
<1>2. /\ Submit(Compute, l, e, s, r) /\ stopping' = stopping
      /\ creq'.slot = s
    BY DEF Resubmit, Block
<1> HIDE DEF r
<1>3. QED BY <1>1, <1>2, CallQueues

\* A call of resolve.
LEMMA ResolveQueues ==
    ASSUME IInv, QueueInv, NEW l \in Layers, NEW e \in Experts, Resolve(l, e)
    PROVE  QueueInv'
<1> DEFINE s == Lookup(l, e)
<1>1. rpc[Compute] = "idle" /\ Compute \in Callers
    BY DEF Resolve, ComputeFree, Callers
<1>2. s # NoSlot => s \in Slots
    BY LookupFacts DEF IInv
<1>3. s # NoSlot /\ slot[s].state # "ready" => s \in Heap
    BY IdleIsInWs
<1>4. CASE ResolveHit(l, e)
    <2>1. s # NoSlot /\ Deliver(l, e, s)
        BY <1>4 DEF ResolveHit
    <2> HIDE DEF s
    <2>2. \A t \in Slots : slot'[t].state = slot[t].state
        BY <1>2, <2>1, SameStates DEF Deliver
    <2>3. QED BY <2>1, <2>2, CalmKeeps DEF Deliver, queueVars, runVars
<1>5. CASE ResolveJoin(l, e)
    <2>1. /\ s # NoSlot /\ slot[s].state = "loading"
          /\ slot' = [slot EXCEPT ![s].hot = TRUE]
          /\ creq'.slot = s
          /\ UNCHANGED <<jobs, specQ, hotFlight, rpc, rjob, stopping>>
        BY <1>5 DEF ResolveJoin, Block, queueVars, runVars
    <2> HIDE DEF s
    <2>2. s \in Slots /\ \A t \in Slots : slot'[t].state = slot[t].state
        BY <1>2, <2>1, SameStates
    <2>3. QED BY <2>1, <2>2, CalmKeeps
<1>6. CASE s # NoSlot /\ Resubmit(l, e, s)
    <2>1. slot[s].state # "ready"
        BY <1>6 DEF Resubmit, Idle
    <2> HIDE DEF s
    <2>2. QED BY <1>1, <1>3, <1>6, <2>1, ResubmitQueues
<1>7. CASE ResolveMiss(l, e)
    <2>1. CASE Fail
        BY <2>1, CalmKeeps DEF Fail, queueVars, runVars
    <2>2. CASE /\ FreeHeap # {}
               /\ Submit(Compute, l, e, NewSlot, NewEntry(e, TRUE))
               /\ Block(l, e, NewSlot, AfterSubmit)
        <3> DEFINE n == NewSlot
                   r == NewEntry(e, TRUE)
        <3>1. /\ n \in Heap /\ r \in Slot /\ r.hot
              /\ Submit(Compute, l, e, n, r) /\ creq'.slot = n
              /\ stopping' = stopping
            BY <2>2, NewSlotFacts, NewEntryFacts DEF NewEntry, Blank, Block
        <3> HIDE DEF n, r
        <3>2. QED BY <1>1, <3>1, CallQueues
    <2>3. QED BY <1>7, <2>1, <2>2 DEF ResolveMiss
<1>8. QED BY <1>4, <1>5, <1>6, <1>7 DEF Resolve

\* A turn of wait_ready's loop.
LEMMA WaitReadyQueues ==
    ASSUME IInv, QueueInv, WaitReady
    PROVE  QueueInv'
<1>1. PICK l \in Layers, e \in Experts, s \in Heap :
        l = creq.layer /\ e = creq.eid /\ s = creq.slot
    BY BlockedOnSlot DEF WaitReady, RequestValid, IInv, TypeOK
<1>2. rpc[Compute] = "idle" /\ s \in Slots
    BY HeapIsNotLru DEF WaitReady
<1>3. CASE Deliver(l, e, s)
    <2>1. \A t \in Slots : slot'[t].state = slot[t].state
        BY <1>2, <1>3, SameStates DEF Deliver
    <2>2. QED BY <1>3, <2>1, CalmKeeps DEF Deliver, queueVars, runVars
<1>4. CASE Fail
    BY <1>4, CalmKeeps DEF Fail, queueVars, runVars
<1>5. CASE Resubmit(l, e, s)
    BY <1>2, <1>5, ResubmitQueues
<1>6. CASE /\ slot[s].state = "loading" /\ Block(l, e, s, "blocked")
           /\ UNCHANGED <<slot, ws, queueVars, runVars>>
    BY <1>6, CalmKeeps DEF Block, queueVars, runVars
<1>7. QED BY <1>1, <1>3, <1>4, <1>5, <1>6 DEF WaitReady

\* layer_end and its guard touch no LOADING slot and start no load.
LEMMA LayerEndQueues ==
    ASSUME IInv, QueueInv, NEW l \in Layers, LayerEnd(l)
    PROVE  QueueInv'
BY CalmKeeps DEF LayerEnd, queueVars, runVars

LEMMA PromoteDoneQueues ==
    ASSUME IInv, QueueInv, PromoteDone
    PROVE  QueueInv'
BY CalmKeeps DEF PromoteDone, queueVars, runVars

LEMMA PromoteQueues ==
    ASSUME IInv, QueueInv, Promote
    PROVE  QueueInv'
<1>1. PICK l \in Layers, k \in Nat : l = creq.layer /\ k = creq.idx
    BY DEF Promote, RequestValid, IInv, TypeOK
<1>2. ws[l] \in Seq(Heap) /\ k >= 1 /\ k <= Len(ws[l])
    BY <1>1 DEF Promote, RequestValid, IInv, TypeOK
<1>3. PICK s \in Slots : s = ws[l][k]
    <2>1. k \in DOMAIN ws[l]
        BY <1>2, LenProperties
    <2>2. QED BY <1>2, <2>1, ElementOfSeq, LenProperties, HeapIsNotLru
<1>4. /\ Blank.state = "empty"
      /\ \A e, p, n, g, h : [eid |-> e, pl |-> p, last |-> n,
                             state |-> "ready", gen |-> g, hot |-> h].state
                            = "ready"
    BY DEF Blank
<1>5. \A t \in Slots : slot'[t].state = "loading" =>
            slot[t].state = "loading"
    <2>1. CASE slot' = slot
        BY <2>1
    <2>2. CASE slot' = [slot EXCEPT ![s] = Blank]
        BY <1>4, <2>2 DEF IInv, TypeOK
    <2>3. ASSUME NEW v, NEW r, r.state = "ready",
                 slot' = [slot EXCEPT ![v] = r, ![s] = Blank]
          PROVE  \A t \in Slots : slot'[t].state = "loading" =>
                    slot[t].state = "loading"
        BY <1>4, <2>3 DEF IInv, TypeOK
    <2>4. \/ slot' = slot
          \/ slot' = [slot EXCEPT ![s] = Blank]
          \/ \E v, r : /\ r.state = "ready"
                       /\ slot' = [slot EXCEPT ![v] = r, ![s] = Blank]
        <3> DEFINE v == Victim(l)
                   r == [eid |-> slot[s].eid, pl |-> slot[s].pl,
                         last |-> slot[s].last, state |-> "ready",
                         gen |-> slot[v].gen, hot |-> FALSE]
        <3>1. r.state = "ready"
            OBVIOUS
        <3>2. \/ slot' = slot
              \/ slot' = [slot EXCEPT ![s] = Blank]
              \/ slot' = [slot EXCEPT ![v] = r, ![s] = Blank]
            BY <1>1, <1>3, VictimFacts
               DEF Promote, Installs, IInv, TypeOK, Slots
        <3> HIDE DEF v, r
        <3>3. QED BY <3>1, <3>2
    <2>5. QED BY <2>1, <2>2, <2>3, <2>4
<1>6. /\ UNCHANGED <<jobs, specQ, hotFlight, rpc, rjob, stopping>>
      /\ cpc' = "promote"
    BY DEF Promote, queueVars, runVars
<1>7. QED BY <1>5, <1>6, CalmKeeps

LEMMA RssGuardQueues ==
    ASSUME IInv, QueueInv, RssGuard
    PROVE  QueueInv'
<1>1. PICK D \in SUBSET LiveLru :
        slot' = [s \in Slots |->
                    IF s \in D THEN [slot[s] EXCEPT !.pl = NoBuf,
                                                    !.state = "empty"]
                    ELSE slot[s]]
    BY DEF RssGuard
<1>2. \A s \in Slots : slot'[s].state = "loading" =>
            slot[s].state = "loading"
    <2>1. ASSUME NEW s \in Slots, s \in D
          PROVE  slot'[s].state = "empty"
        <3>1. slot[s] \in Slot
            BY DEF IInv, TypeOK
        <3>2. slot'[s] = [slot[s] EXCEPT !.pl = NoBuf, !.state = "empty"]
            BY <1>1, <2>1
        <3>3. QED BY <3>1, <3>2 DEF Slot
    <2>2. \A s \in Slots : s \notin D => slot'[s] = slot[s]
        BY <1>1
    <2>3. QED BY <2>1, <2>2
<1>3. /\ UNCHANGED <<jobs, specQ, hotFlight, rpc, rjob, stopping>>
      /\ cpc' = "free"
    BY DEF RssGuard, queueVars, runVars
<1>4. QED BY <1>2, <1>3, CalmKeeps

\* close's end: every worker has left an empty queue behind.
LEMMA JoinQueues ==
    ASSUME IInv, StopInv, QueueInv, Join
    PROVE  QueueInv'
<1>1. jobs = <<>>
    <2>1. CASE Workers = {}
        BY <2>1 DEF QueueInv, Sync
    <2>2. CASE Workers # {}
        BY <2>2 DEF Join, StopInv
    <2>3. QED BY <2>1, <2>2
<1>2. /\ jobs' = jobs /\ cpc' = "closed"
      /\ UNCHANGED <<specQ, hotFlight, rpc, rjob, stopping>>
    BY <1>1 DEF Join, runVars
<1>3. \A s \in Slots : slot'[s].state = "empty"
    BY DEF Join, Blank
<1>4. QED BY <1>2, <1>3, CalmKeeps

\* A worker goes to sleep, with nothing to do.
LEMMA SleepQueues ==
    ASSUME IInv, QueueInv, NEW w \in Workers, Sleep(w)
    PROVE  QueueInv'
<1>1. /\ rpc[w] = "idle" /\ jobs = <<>> /\ ~stopping
      /\ rpc' = [rpc EXCEPT ![w] = "asleep"]
      /\ UNCHANGED <<slot, jobs, specQ, hotFlight, rjob, stopping, cpc,
                     creq>>
    BY DEF Sleep, queueVars
<1>2. /\ rpc'[w] = "asleep"
      /\ \A r \in Runners : r # w => rpc'[r] = rpc[r]
    BY <1>1 DEF IInv, TypeOK, Runners
<1>3. Running' = Running
    BY <1>1, <1>2 DEF Running
<1>4. WaitIsServed'
    BY <1>1, <1>3 DEF QueueInv, WaitIsServed
<1>5. ClassAccounting'
    BY <1>1, <1>2, AccountKept DEF QueueInv, Busy, Runners
<1>6. WorkersAwake'
    BY <1>1 DEF WorkersAwake
<1>7. QED BY <1>1, <1>4, <1>5, <1>6 DEF QueueInv

LEMMA ExitQueues ==
    ASSUME IInv, QueueInv, NEW w \in Workers, Exit(w)
    PROVE  QueueInv'
<1>1. /\ rpc[w] = "idle" /\ jobs = <<>>
      /\ rpc' = [rpc EXCEPT ![w] = "exited"]
      /\ UNCHANGED <<slot, jobs, specQ, hotFlight, rjob, stopping, cpc,
                     creq>>
    BY DEF Exit, queueVars
<1>2. /\ rpc'[w] = "exited"
      /\ \A r \in Runners : r # w => rpc'[r] = rpc[r]
    BY <1>1 DEF IInv, TypeOK, Runners
<1>3. Running' = Running
    BY <1>1, <1>2 DEF Running
<1>4. WaitIsServed'
    BY <1>1, <1>3 DEF QueueInv, WaitIsServed
<1>5. ClassAccounting'
    BY <1>1, <1>2, AccountKept DEF QueueInv, Busy, Runners
<1>6. Asleep' \subseteq Asleep
    BY <1>2 DEF Asleep, Runners
<1>7. WorkersAwake'
    BY <1>1, <1>6, AwakeKept DEF QueueInv
<1>8. QED BY <1>1, <1>4, <1>5, <1>7 DEF QueueInv

\* A worker takes a job, hot or not, from wherever Pick finds it.
LEMMA PopQueues ==
    ASSUME IInv, QueueInv, NEW w \in Workers, Pop(w)
    PROVE  QueueInv'
<1>1. jobs \in Seq(Job) /\ jobs # <<>>
    BY DEF Pop, IInv, TypeOK
<1>2. PICK p \in 1..Len(jobs) : p = Pick
    BY <1>1, PickFacts DEF IInv
<1>3. /\ jobs' = RemoveAt(jobs, p)
      /\ jobs' \in Seq(Job) /\ Len(jobs) \in Nat
      /\ DOMAIN jobs = 1..Len(jobs)
      /\ DOMAIN jobs' = 1..(Len(jobs) - 1)
      /\ \A k \in 1..(Len(jobs) - 1) :
            jobs'[k] = IF k < p THEN jobs[k] ELSE jobs[k + 1]
    <2>1. jobs' = RemoveAt(jobs, p)
        BY <1>2 DEF Pop
    <2>2. QED BY <1>1, <2>1, RemoveFacts
<1>4. \A k \in DOMAIN jobs : jobs[k] \in Job
    BY <1>1, <1>3, ElementOfSeq
<1>5. PICK j \in Job : j = jobs[p]
    BY <1>3, <1>4
<1>6. slot[j.slot].hot \in BOOLEAN
    BY DEF Job, IInv, TypeOK, Slot
<1>7. PICK i \in Job : /\ i = [j EXCEPT !.hot = slot[j.slot].hot]
                       /\ i.slot = j.slot
                       /\ i.hot = slot[j.slot].hot
    <2>1. \A h \in BOOLEAN : LET i == [j EXCEPT !.hot = h] IN
            i \in Job /\ i.slot = j.slot /\ i.hot = h
        BY DEF Job
    <2>2. QED BY <1>6, <2>1
<1>8. /\ rpc[w] = "idle" /\ w \in Runners
      /\ rpc' = [rpc EXCEPT ![w] = "alloc"]
      /\ rjob' = [rjob EXCEPT ![w] = i]
      /\ specQ' = SpecPopped(j)
      /\ hotFlight' = (IF i.hot THEN hotFlight + 1 ELSE hotFlight)
      /\ UNCHANGED <<slot, stopping, cpc, creq>>
    BY <1>2, <1>5, <1>7 DEF Pop, Runners
<1>9. /\ rpc'[w] = "alloc" /\ rjob'[w] = i
      /\ \A r \in Runners : r # w => rpc'[r] = rpc[r] /\ rjob'[r] = rjob[r]
    BY <1>8 DEF IInv, TypeOK
<1>10. \A s \in Slots : Served(s) => Served(s)'
    <2>1. ASSUME NEW s \in Slots, NEW k \in DOMAIN jobs, jobs[k].slot = s
          PROVE  Served(s)'
        <3>1. CASE k = p
            <4>1. w \in Running' /\ rjob'[w].slot = s
                BY <1>5, <1>7, <1>8, <1>9, <2>1, <3>1 DEF Running
            <4>2. QED BY <4>1 DEF Served
        <3>2. CASE k # p
            <4>1. \E m \in DOMAIN jobs' : jobs'[m] = jobs[k]
                <5> DEFINE n == Len(jobs)
                <5>1. n \in Nat /\ k \in 1..n /\ p \in 1..n
                    BY <1>3
                <5> HIDE DEF n
                <5>2. CASE k < p
                    <6>1. k \in 1..(n - 1)
                        BY <5>1, <5>2
                    <6>2. QED BY <1>3, <5>2, <6>1 DEF n
                <5>3. CASE ~(k < p)
                    <6>1. /\ k - 1 \in 1..(n - 1) /\ ~(k - 1 < p)
                          /\ (k - 1) + 1 = k
                        BY <3>2, <5>1, <5>3
                    <6>2. QED BY <1>3, <6>1 DEF n
                <5>4. QED BY <5>2, <5>3
            <4>2. QED BY <2>1, <4>1 DEF Served
        <3>3. QED BY <3>1, <3>2
    <2>2. ASSUME NEW s \in Slots, NEW r \in Running, rjob[r].slot = s
          PROVE  Served(s)'
        <3>1. r \in Runners /\ r # w /\ rpc[r] \in {"alloc", "fill"}
            BY <1>8 DEF Running
        <3>2. r \in Running' /\ rjob'[r].slot = s
            BY <1>9, <2>2, <3>1 DEF Running
        <3>3. QED BY <3>2 DEF Served
    <2>3. QED BY <2>1, <2>2 DEF Served
<1>11. WaitIsServed'
    <2>1. cpc' = "blocked" => slot'[creq'.slot].state = "loading"
        BY <1>8 DEF QueueInv, WaitIsServed
    <2>2. QED BY <1>8, <1>10, <2>1, ServedKept DEF QueueInv
<1>12. WorkersAwake'
    <2>1. Asleep' \subseteq Asleep
        BY <1>9 DEF Asleep, Runners
    <2>2. QED BY <1>1, <1>8, <2>1, AwakeKept DEF QueueInv
<1>13. ClassAccounting'
    <2> DEFINE T == {a \in Job : ~a.hot}
    <2>1. SpecPos = PosOf(jobs, T)
        BY CountsFinite
    <2>2. SpecPos' = PosOf(jobs', T)
        <3>1. \A k \in DOMAIN jobs' : jobs'[k] \in Job
            BY <1>3, ElementOfSeq, LenProperties
        <3>2. QED BY <3>1 DEF SpecPos, PosOf
    <2>3. j \in T <=> ~j.hot
        OBVIOUS
    <2> HIDE DEF T
    <2>4. Cardinality(SpecPos') =
            IF j \in T THEN Cardinality(SpecPos) - 1
            ELSE Cardinality(SpecPos)
        BY <1>1, <1>3, <1>5, <2>1, <2>2, CountRemove
    <2>5. HotRun' = IF i.hot THEN HotRun \cup {w} ELSE HotRun
        BY <1>8, <1>9 DEF HotRun, Busy, Runners
    <2>6. w \notin HotRun
        BY <1>8 DEF HotRun, Busy
    <2>7. /\ IsFiniteSet(HotRun) /\ Cardinality(SpecPos) \in Nat
        BY CountsFinite
    <2>8. Cardinality(HotRun \cup {w}) = Cardinality(HotRun) + 1
        BY <2>6, <2>7, FS_AddElement
    <2>9. specQ = Cardinality(SpecPos) /\ specQ <= SpecCap
          /\ hotFlight = Cardinality(HotRun)
        BY DEF QueueInv, ClassAccounting, SpecPos, HotRun, Busy
    <2>10. specQ' = Cardinality(SpecPos') /\ specQ' <= SpecCap
        BY <1>8, <2>3, <2>4, <2>7, <2>9, ConstAssumption DEF SpecPopped
    <2>11. hotFlight' = Cardinality(HotRun')
        BY <1>8, <2>5, <2>8, <2>9
    <2>12. QED BY <2>10, <2>11 DEF ClassAccounting, SpecPos, HotRun, Busy
<1>14. ~Sync
    BY DEF Sync
<1>15. QED BY <1>11, <1>12, <1>13, <1>14 DEF QueueInv, Sync

\* A thread gets its buffer: the fill goes on.
LEMMA GetBufQueues ==
    ASSUME IInv, QueueInv, NEW r \in Runners, GetBuf(r)
    PROVE  QueueInv'
<1>1. /\ rpc[r] = "alloc" /\ rpc' = [rpc EXCEPT ![r] = "fill"]
      /\ UNCHANGED <<slot, jobs, specQ, hotFlight, rjob, stopping, cpc,
                     creq>>
    BY DEF GetBuf, queueVars
<1>2. /\ rpc'[r] = "fill"
      /\ \A q \in Runners : q # r => rpc'[q] = rpc[q]
    BY <1>1 DEF IInv, TypeOK
<1>3. Running' = Running
    BY <1>1, <1>2 DEF Running
<1>4. WaitIsServed'
    BY <1>1, <1>3 DEF QueueInv, WaitIsServed
<1>5. ClassAccounting'
    BY <1>1, <1>2, AccountKept DEF QueueInv, Busy, Runners
<1>6. Asleep' \subseteq Asleep
    BY <1>2 DEF Asleep, Runners
<1>7. WorkersAwake'
    BY <1>1, <1>6, AwakeKept DEF QueueInv
<1>8. QED BY <1>1, <1>4, <1>5, <1>7 DEF QueueInv

\* A fill ends, well or badly: its slot leaves LOADING, the waiting resolve
\* is woken, and no other slot loses its fill.
LEMMA RunEndQueues ==
    ASSUME IInv, QueueInv, NEW r \in Runners, rpc[r] \in {"alloc", "fill"},
           NEW v, v.state # "loading",
           slot' = [slot EXCEPT ![rjob[r].slot] = v],
           AfterRun(r), AfterJob(r), cpc' = WakeCompute,
           UNCHANGED <<jobs, specQ, hotFlight, stopping>>
    PROVE  QueueInv'
<1>1. PICK j \in Job : j = rjob[r]
    BY DEF IInv, RunnersHold
<1>2. j.slot \in Slots /\ r \in Running
    BY DEF Job, Running
<1>3. /\ slot'[j.slot] = v
      /\ \A t \in Slots : t # j.slot => slot'[t] = slot[t]
    BY <1>1, <1>2 DEF IInv, TypeOK
<1>4. /\ rpc'[r] = IF r \in Workers THEN "retire" ELSE "idle"
      /\ r \in Workers => rjob'[r] = j
      /\ \A q \in Runners : q # r => rpc'[q] = rpc[q] /\ rjob'[q] = rjob[q]
    BY <1>1 DEF AfterRun, AfterJob, IInv, TypeOK
<1>5. ASSUME NEW s \in Slots, slot'[s].state = "loading"
      PROVE  slot[s].state = "loading" /\ (Served(s) => Served(s)')
    <2>1. s # j.slot
        BY <1>3, <1>5
    <2>2. slot[s].state = "loading"
        BY <1>3, <1>5, <2>1
    <2>3. ASSUME NEW q \in Running, rjob[q].slot = s
          PROVE  Served(s)'
        <3>1. q # r /\ q \in Runners
            BY <1>1, <2>1, <2>3 DEF Running
        <3>2. q \in Running' /\ rjob'[q].slot = s
            BY <1>4, <2>3, <3>1 DEF Running
        <3>3. QED BY <3>2 DEF Served
    <2>4. QED BY <2>2, <2>3 DEF Served
<1>6. cpc' # "blocked"
    BY DEF WakeCompute
<1>7. WaitIsServed'
    BY <1>5, <1>6, ServedKept DEF QueueInv
<1>8. WorkersAwake'
    <2>1. Asleep' \subseteq Asleep
        BY <1>4 DEF Asleep, Runners
    <2>2. QED BY <2>1, AwakeKept DEF QueueInv
<1>9. ClassAccounting'
    <2>1. \A w \in Workers :
            /\ rpc'[w] \in Busy <=> rpc[w] \in Busy
            /\ rpc[w] \in Busy => rjob'[w] = rjob[w]
        BY <1>1, <1>4 DEF Busy, Runners
    <2>2. QED BY <2>1, AccountKept DEF QueueInv
<1>10. QED BY <1>7, <1>8, <1>9 DEF QueueInv

LEMMA RunnerQueues ==
    ASSUME IInv, QueueInv, NEW r \in Runners, RunnerStep(r)
    PROVE  QueueInv'
<1>1. CASE GetBuf(r)
    BY <1>1, GetBufQueues
<1>2. CASE AllocFail(r) \/ ReadOk(r) \/ ReadFail(r)
    <2>1. PICK j \in Job : j = rjob[r]
        BY <1>2 DEF AllocFail, ReadOk, ReadFail, IInv, RunnersHold
    <2>2. j.slot \in Slots /\ slot[j.slot] \in Slot
        BY DEF Job, IInv, TypeOK
    <2> DEFINE u == [slot[j.slot] EXCEPT !.eid = NoEid, !.state = "empty"]
               v(b) == [slot[j.slot] EXCEPT !.pl = b, !.state = "ready",
                                            !.hot = FALSE]
               x == [slot[j.slot] EXCEPT !.state = "empty", !.hot = FALSE]
               y == [slot[j.slot] EXCEPT !.state = "empty", !.hot = FALSE,
                                         !.eid = NoEid]
    <2>3. /\ u.state = "empty" /\ x.state = "empty" /\ y.state = "empty"
          /\ \A b : v(b).state = "ready"
        BY <2>2 DEF Slot
    <2>4. \/ slot' = [slot EXCEPT ![j.slot] = u]
          \/ slot' = [slot EXCEPT ![j.slot] = v(rbuf[r])]
          \/ slot' = [slot EXCEPT ![j.slot] = x]
          \/ slot' = [slot EXCEPT ![j.slot] = y]
        BY <1>2, <2>1, <2>2
           DEF AllocFail, ReadOk, ReadFail, Drop, IInv, TypeOK
    <2> HIDE DEF u, v, x, y
    <2>5. PICK n : n.state # "loading" /\ slot' = [slot EXCEPT ![j.slot] = n]
        BY <2>3, <2>4
    <2>6. /\ rpc[r] \in {"alloc", "fill"} /\ AfterRun(r) /\ AfterJob(r)
          /\ cpc' = WakeCompute
          /\ UNCHANGED <<jobs, specQ, hotFlight, stopping>>
        BY <1>2 DEF AllocFail, ReadOk, ReadFail, queueVars
    <2>7. QED BY <2>1, <2>5, <2>6, RunEndQueues
<1>3. QED BY <1>1, <1>2 DEF RunnerStep

\* The epilogue of a worker: hot_flight goes down when the job was hot.
LEMMA RetireQueues ==
    ASSUME IInv, QueueInv, NEW w \in Workers, Retire(w)
    PROVE  QueueInv'
<1>1. /\ rpc[w] = "retire" /\ w \in Runners
      /\ hotFlight' = (IF rjob[w].hot THEN hotFlight - 1 ELSE hotFlight)
      /\ rpc' = [rpc EXCEPT ![w] = "idle"]
      /\ rjob' = [rjob EXCEPT ![w] = NoJob]
      /\ UNCHANGED <<slot, jobs, specQ, stopping, cpc, creq>>
    BY DEF Retire, Runners
<1>2. /\ rpc'[w] = "idle"
      /\ \A r \in Runners : r # w => rpc'[r] = rpc[r] /\ rjob'[r] = rjob[r]
    BY <1>1 DEF IInv, TypeOK
<1>3. /\ \A r \in Running : r \in Running' /\ rjob'[r] = rjob[r]
    BY <1>1, <1>2 DEF Running
<1>4. \A s \in Slots : Served(s) => Served(s)'
    BY <1>1, <1>3 DEF Served
<1>5. WaitIsServed'
    <2>1. cpc' = "blocked" => slot'[creq'.slot].state = "loading"
        BY <1>1 DEF QueueInv, WaitIsServed
    <2>2. QED BY <1>1, <1>4, <2>1, ServedKept DEF QueueInv
<1>6. WorkersAwake'
    <2>1. Asleep' \subseteq Asleep
        BY <1>2 DEF Asleep, Runners
    <2>2. QED BY <1>1, <2>1, AwakeKept DEF QueueInv
<1>7. ClassAccounting'
    <2>1. HotRun' = HotRun \ {w}
        BY <1>2 DEF HotRun, Busy, Runners
    <2>2. w \in HotRun <=> rjob[w].hot
        BY <1>1 DEF HotRun, Busy
    <2>3. Cardinality(HotRun \ {w}) =
            IF w \in HotRun THEN Cardinality(HotRun) - 1
            ELSE Cardinality(HotRun)
        BY CountsFinite, FS_RemoveElement
    <2>4. specQ = Cardinality(SpecPos) /\ specQ <= SpecCap
          /\ hotFlight = Cardinality(HotRun)
        BY DEF QueueInv, ClassAccounting, SpecPos, HotRun, Busy
    <2>5. SpecPos' = SpecPos
        BY <1>1 DEF SpecPos
    <2>6. hotFlight' = Cardinality(HotRun')
        BY <1>1, <2>1, <2>2, <2>3, <2>4
    <2>7. specQ' = Cardinality(SpecPos') /\ specQ' <= SpecCap
        BY <1>1, <2>4, <2>5
    <2>8. QED BY <2>6, <2>7 DEF ClassAccounting, SpecPos, HotRun, Busy
<1>8. QED BY <1>1, <1>5, <1>6, <1>7 DEF QueueInv

\* close's broadcast leaves no worker asleep.
LEMMA CloseQueues ==
    ASSUME IInv, QueueInv, Close
    PROVE  QueueInv'
<1>1. /\ rpc' = WakeWorkers /\ cpc' = "joining"
      /\ UNCHANGED <<slot, jobs, specQ, hotFlight, rjob>>
    BY DEF Close, queueVars
<1>2. \A r \in Runners :
        \/ rpc'[r] = rpc[r] /\ rpc[r] # "asleep"
        \/ rpc[r] = "asleep" /\ rpc'[r] = "idle"
    BY <1>1 DEF WakeWorkers
<1>3. Running' = Running /\ Asleep' = {}
    BY <1>2 DEF Running, Asleep, Runners
<1>4. WaitIsServed'
    BY <1>1, <1>3 DEF QueueInv, WaitIsServed
<1>5. ClassAccounting'
    BY <1>1, <1>2, AccountKept DEF QueueInv, Busy, Runners
<1>6. WorkersAwake'
    <2>1. jobs' # <<>> => Workers # {}
        BY <1>1 DEF QueueInv, Sync
    <2>2. QED BY <1>3, <2>1 DEF WorkersAwake
<1>7. QED BY <1>1, <1>4, <1>5, <1>6 DEF QueueInv

LEMMA SpuriousQueues ==
    ASSUME IInv, QueueInv, Spurious
    PROVE  QueueInv'
<1>1. /\ UNCHANGED <<slot, jobs, specQ, hotFlight, rjob, stopping, creq>>
      /\ cpc' = "blocked" => cpc = "blocked"
    BY DEF Spurious, queueVars
<1>2. \A r \in Runners :
        \/ rpc'[r] = rpc[r]
        \/ rpc[r] = "asleep" /\ rpc'[r] = "idle"
    BY DEF Spurious, Asleep, IInv, TypeOK, Runners
<1>3. Running' = Running /\ Asleep' \subseteq Asleep
    BY <1>2 DEF Running, Asleep, Runners
<1>4. WaitIsServed'
    BY <1>1, <1>3 DEF QueueInv, WaitIsServed
<1>5. ClassAccounting'
    BY <1>1, <1>2, AccountKept DEF QueueInv, Busy, Runners
<1>6. WorkersAwake'
    BY <1>1, <1>3, AwakeKept DEF QueueInv
<1>7. QED BY <1>1, <1>4, <1>5, <1>6 DEF QueueInv

LEMMA StutterQueues ==
    ASSUME IInv, QueueInv, UNCHANGED vars
    PROVE  QueueInv'
<1>1. cpc = "blocked" => slot[creq.slot].state = "loading"
    BY DEF QueueInv, WaitIsServed
<1>2. QED BY <1>1, CalmKeeps DEF vars

-----------------------------------------------------------------------------
(* The theorems.                                                           *)

\* The cache apus_gcache_open leaves has an empty queue and no load.
LEMMA InitQueue == Init => QueueInv /\ StopInv
<1> SUFFICES ASSUME Init PROVE QueueInv /\ StopInv
    OBVIOUS
<1>1. /\ jobs = <<>> /\ DOMAIN jobs = {} /\ specQ = 0 /\ hotFlight = 0
      /\ cpc = "free" /\ stopping = FALSE
      /\ \A r \in Runners : rpc[r] = "idle"
      /\ \A s \in Slots : slot[s].state = "empty"
    BY EmptySeq DEF Init, Blank
<1>2. WaitIsServed /\ WorkersAwake
    BY <1>1 DEF WaitIsServed, WorkersAwake, Asleep
<1>3. SpecPos = {} /\ HotRun = {}
    BY <1>1 DEF SpecPos, HotRun, Busy, Runners
<1>4. ClassAccounting
    <2>1. specQ = Cardinality(SpecPos) /\ hotFlight = Cardinality(HotRun)
        BY <1>1, <1>3, FS_EmptySet
    <2>2. specQ <= SpecCap
        BY <1>1, ConstAssumption
    <2>3. QED BY <2>1, <2>2 DEF ClassAccounting, SpecPos, HotRun, Busy
<1>5. StopInv
    BY <1>1 DEF StopInv, Runners
<1>6. QED BY <1>1, <1>2, <1>4, <1>5 DEF QueueInv

\* Every step keeps the invariant: one case per action.
LEMMA StepQueue == IInv /\ StopInv /\ QueueInv /\ [Next]_vars => QueueInv'
<1> SUFFICES ASSUME IInv, StopInv, QueueInv, [Next]_vars PROVE QueueInv'
    OBVIOUS
<1>1. /\ Compute \in Callers /\ Pilot \in Callers
      /\ TRUE \in BOOLEAN /\ FALSE \in BOOLEAN
    BY DEF Callers
<1>2. CASE ClientCall
    <2>1. ASSUME NEW l \in Layers, NEW e \in Experts,
                 Hint(l, e) \/ HintDemand(l, e)
          PROVE  QueueInv'
        BY <1>1, <2>1, HintQueues
           DEF Hint, HintDemand, PilotFree, ComputeFree
    <2>2. QED BY <1>2, <2>1, ResolveQueues, LayerEndQueues, CloseQueues
              DEF ClientCall
<1>3. CASE ComputeStep
    BY <1>3, WaitReadyQueues, PromoteQueues, PromoteDoneQueues,
       RssGuardQueues, JoinQueues DEF ComputeStep
<1>4. ASSUME NEW w \in Workers, WorkerStep(w)
      PROVE  QueueInv'
    BY <1>4, RunnerQueues, SleepQueues, ExitQueues, PopQueues, RetireQueues
       DEF WorkerStep, Runners
<1>5. ASSUME NEW c \in Callers, RunnerStep(c)
      PROVE  QueueInv'
    BY <1>5, RunnerQueues DEF Runners
<1>6. CASE UNCHANGED vars \/ Closed
    BY <1>6, StutterQueues DEF Closed
<1>7. QED BY <1>2, <1>3, <1>4, <1>5, <1>6, SpuriousQueues DEF Next

\* The queue invariant holds, with the two it rests on.
THEOREM QueueInvariant == Spec => [](IInv /\ StopInv /\ QueueInv)
<1>1. Init => IInv /\ StopInv /\ QueueInv
    BY InitIInv, InitQueue
<1>2. (IInv /\ StopInv /\ QueueInv) /\ [Next]_vars
        => (IInv /\ StopInv /\ QueueInv)'
    BY StepIInv, StepStopInv, StepQueue
<1>3. QED BY <1>1, <1>2, PTL DEF Spec

\* A resolve never sleeps for nothing: the slot it waits for is LOADING, and
\* every LOADING slot has a fill queued or running, through faults of the
\* disk and the allocator, spurious wake-ups, hints and joins of both
\* threads.
THEOREM WaitsAreServed == Spec => []WaitIsServed
<1>1. QueueInv => WaitIsServed
    BY DEF QueueInv
<1>2. QED BY <1>1, QueueInvariant, PTL

\* One pthread_cond_signal per job is enough: a queued job never finds every
\* worker asleep, and after close's broadcast none sleeps.
THEOREM WorkersStayAwake == Spec => []WorkersAwake
<1>1. QueueInv => WorkersAwake
    BY DEF QueueInv
<1>2. QED BY <1>1, QueueInvariant, PTL

\* spec_q and hot_flight never leak, although a job's class may be raised
\* while it is queued: each is the number of jobs it stands for.
THEOREM CountersAreExact == Spec => []ClassAccounting
<1>1. QueueInv => ClassAccounting
    BY DEF QueueInv
<1>2. QED BY <1>1, QueueInvariant, PTL

-----------------------------------------------------------------------------
(* What the reader of the cache relies on: buffers, views, single loads,   *)
(* and the refinement of the expert store.                                 *)

\* The layer a slot belongs to: by its working set, or by its place.
BelongsTo(s, l) ==
    \/ \E k \in DOMAIN ws[l] : ws[l][k] = s
    \/ \E i \in 1..NSlots : s = <<l, i>>

\* The bytes behind the payload of a READY slot are those of its expert.
BytesRight ==
    \A l \in Layers, s \in Slots :
        BelongsTo(s, l) /\ slot[s].state = "ready" =>
            /\ slot[s].eid \in Experts
            /\ content[slot[s].pl] = <<l, slot[s].eid>>

\* A view is backed by a READY slot of its layer with its expert.
Backs(s, v) ==
    /\ BelongsTo(s, v.layer)
    /\ slot[s].state = "ready" /\ slot[s].eid = v.eid /\ slot[s].pl = v.pl
ViewsBacked == \A v \in views : \E s \in Slots : Backs(s, v)

\* The compute thread waits in a resolve, or moves or frees payloads.
Waiting == {"blocked", "woken"}
Moving  == {"promote", "guard", "joining", "closed"}

\* The views are of one layer, which is the one asked for while a resolve
\* waits; there is none while payloads move or are freed.
ViewsOfOneLayer ==
    /\ \A v, w \in views : v.layer = w.layer
    /\ cpc \in Waiting => \A v \in views : v.layer = creq.layer
    /\ cpc \in Moving => views = {}

ReaderInv ==
    /\ BufferOwnedOnce /\ BytesRight
    /\ OneLayer => ViewsBacked /\ ViewsOfOneLayer

-----------------------------------------------------------------------------
(* Two shapes a step may have.                                             *)

\* The READY slots of a layer stay what they are.
ResidentsStay ==
    \A s \in Slots, l \in Layers :
        slot[s].state = "ready" /\ BelongsTo(s, l) =>
            /\ slot'[s].state = "ready" /\ slot'[s].eid = slot[s].eid
            /\ slot'[s].pl = slot[s].pl
            /\ BelongsTo(s, l)'

\* No slot becomes READY, and no buffer changes hands.
NoneArrive ==
    /\ \A s \in Slots : slot'[s].state = "ready" =>
            /\ slot[s].state = "ready" /\ slot'[s].eid = slot[s].eid
            /\ slot'[s].pl = slot[s].pl
            /\ \A l \in Layers : BelongsTo(s, l)' => BelongsTo(s, l)
    /\ UNCHANGED <<rbuf, plFree, content>>

\* Steps that leave the slots and the working sets alone.
LEMMA UntouchedStay ==
    ASSUME slot' = slot, ws' = ws
    PROVE  /\ ResidentsStay
           /\ UNCHANGED <<rbuf, plFree, content>> => NoneArrive
BY DEF ResidentsStay, NoneArrive, BelongsTo

\* Steps that change one slot, which was not READY and does not become so,
\* and at most add that slot to the working sets.
LEMMA OneSlotStays ==
    ASSUME IInv, NEW t \in Slots, NEW r \in Slot, slot' = [slot EXCEPT ![t] = r],
           slot[t].state # "ready" \/ ~(\E l \in Layers : BelongsTo(t, l)),
           r.state # "ready",
           \A s \in Slots, l \in Layers :
                s # t => (BelongsTo(s, l)' <=> BelongsTo(s, l)),
           UNCHANGED <<rbuf, plFree, content>>
    PROVE  ResidentsStay /\ NoneArrive
<1>1. /\ slot'[t] = r
      /\ \A s \in Slots : s # t => slot'[s] = slot[s]
    BY DEF IInv, TypeOK
<1>2. QED BY <1>1 DEF ResidentsStay, NoneArrive

\* Steps that change one slot, but neither its state nor its content.
LEMMA SameSlotStays ==
    ASSUME IInv, NEW t \in Slots, NEW r \in Slot, slot' = [slot EXCEPT ![t] = r],
           r.state = slot[t].state, r.eid = slot[t].eid, r.pl = slot[t].pl,
           ws' = ws, UNCHANGED <<rbuf, plFree, content>>
    PROVE  ResidentsStay /\ NoneArrive
<1>1. /\ slot'[t] = r
      /\ \A s \in Slots : s # t => slot'[s] = slot[s]
    BY DEF IInv, TypeOK
<1>2. \A s \in Slots, l \in Layers : BelongsTo(s, l)' <=> BelongsTo(s, l)
    BY DEF BelongsTo
<1>3. QED BY <1>1, <1>2 DEF ResidentsStay, NoneArrive

\* ws_add adds the new slot to a working set, and no other.
LEMMA WsGrowsByOne ==
    ASSUME IInv, NEW l \in Layers, FreeHeap # {},
           ws' = [ws EXCEPT ![l] = Append(@, NewSlot)]
    PROVE  \A t \in Slots, m \in Layers :
                t # NewSlot => (BelongsTo(t, m)' <=> BelongsTo(t, m))
<1>1. NewSlot \in Heap /\ ws[l] \in Seq(Heap)
    BY NewSlotFacts DEF IInv, TypeOK
<1>2. ws'[l] = Append(ws[l], NewSlot) /\ \A m \in Layers : m # l =>
            ws'[m] = ws[m]
    BY DEF IInv, TypeOK
<1>3. /\ Len(ws[l]) \in Nat
      /\ DOMAIN ws[l] = 1..Len(ws[l])
      /\ DOMAIN ws'[l] = 1..(Len(ws[l]) + 1)
      /\ \A k \in DOMAIN ws[l] : ws'[l][k] = ws[l][k]
      /\ ws'[l][Len(ws[l]) + 1] = NewSlot
    BY <1>1, <1>2, AppendFacts
<1>4. \A k \in DOMAIN ws'[l] : k \in DOMAIN ws[l] \/ k = Len(ws[l]) + 1
    BY <1>3
<1>5. ASSUME NEW t \in Slots, NEW m \in Layers, t # NewSlot
      PROVE  BelongsTo(t, m)' <=> BelongsTo(t, m)
    <2>1. CASE m # l
        BY <1>2, <2>1 DEF BelongsTo
    <2>2. CASE m = l
        <3>1. (\E k \in DOMAIN ws'[l] : ws'[l][k] = t) <=>
                (\E k \in DOMAIN ws[l] : ws[l][k] = t)
            <4>1. \A k \in DOMAIN ws[l] : k \in DOMAIN ws'[l]
                BY <1>3
            <4>2. QED BY <1>3, <1>4, <1>5, <4>1
        <3>2. QED BY <2>2, <3>1 DEF BelongsTo
    <2>3. QED BY <2>1, <2>2
<1>6. QED BY <1>5

\* A fill submitted for an entry without a payload.
LEMMA SubmitStays ==
    ASSUME IInv, NEW c \in Callers, NEW l \in Layers, NEW e \in Experts,
           NEW s \in Heap, NEW r \in Slot,
           slot[s].state # "ready" \/ ~InWs(s),
           \A t \in Slots, m \in Layers :
                t # s => (BelongsTo(t, m)' <=> BelongsTo(t, m)),
           Submit(c, l, e, s, r), UNCHANGED bufVars
    PROVE  ResidentsStay /\ NoneArrive
<1> DEFINE q == [r EXCEPT !.state = "loading", !.gen = gen]
<1>1. q \in Slot /\ q.state = "loading"
    <2>1. gen \in Nat BY DEF IInv, TypeOK
    <2>2. QED BY <2>1, SlotUpdates DEF Slot
<1>2. slot' = [slot EXCEPT ![s] = q]
    BY DEF Submit
<1> HIDE DEF q
<1>3. UNCHANGED <<rbuf, plFree, content>>
    BY DEF Submit, bufVars
<1>4. slot[s].state # "ready" \/ ~(\E m \in Layers : BelongsTo(s, m))
    BY HeapIsNotLru DEF InWs, BelongsTo, LruSlots
<1>5. q.state # "ready" /\ s \in Slots
    BY <1>1, HeapIsNotLru
<1>6. QED BY <1>1, <1>2, <1>3, <1>4, <1>5, OneSlotStays

\* A slot raised to demand class.
LEMMA BoostStays ==
    ASSUME IInv, NEW s \in Slots, slot' = [slot EXCEPT ![s].hot = TRUE],
           ws' = ws, UNCHANGED <<rbuf, plFree, content>>
    PROVE  ResidentsStay /\ NoneArrive
<1> DEFINE r == [slot[s] EXCEPT !.hot = TRUE]
<1>1. slot[s] \in Slot
    BY DEF IInv, TypeOK
<1>2. /\ r \in Slot /\ r.state = slot[s].state /\ r.eid = slot[s].eid
      /\ r.pl = slot[s].pl
    BY <1>1, SlotUpdates DEF Slot
<1>3. slot' = [slot EXCEPT ![s] = r]
    OBVIOUS
<1> HIDE DEF r
<1>4. QED BY <1>2, <1>3, SameSlotStays

\* A hint, in its four cases.
LEMMA HintStays ==
    ASSUME IInv, NEW c \in Callers, NEW l \in Layers, NEW e \in Experts,
           NEW demand \in BOOLEAN, HintBody(c, l, e, demand)
    PROVE  ResidentsStay /\ NoneArrive
<1>1. UNCHANGED bufVars /\ UNCHANGED <<plFree, content>>
    BY DEF HintBody, bufVars
<1>2. CASE HintNew(c, l, e, demand)
    <2>1. /\ FreeHeap # {}
          /\ ws' = [ws EXCEPT ![l] = Append(@, NewSlot)]
          /\ Submit(c, l, e, NewSlot, NewEntry(e, demand))
        BY <1>2 DEF HintNew
    <2>2. /\ NewSlot \in Heap /\ ~InWs(NewSlot)
          /\ NewEntry(e, demand) \in Slot
          /\ \A t \in Slots, m \in Layers :
                t # NewSlot => (BelongsTo(t, m)' <=> BelongsTo(t, m))
        BY <2>1, NewSlotFacts, NewEntryFacts, WsGrowsByOne
    <2> DEFINE s == NewSlot
               r == NewEntry(e, demand)
    <2>3. /\ s \in Heap /\ ~InWs(s) /\ r \in Slot
          /\ \A t \in Slots, m \in Layers :
                t # s => (BelongsTo(t, m)' <=> BelongsTo(t, m))
          /\ Submit(c, l, e, s, r)
        BY <2>1, <2>2
    <2> HIDE DEF s, r
    <2>4. QED BY <1>1, <2>3, SubmitStays
<1>3. CASE HintAgain(c, l, e, demand)
    <2> DEFINE s == Lookup(l, e)
               r == [slot[s] EXCEPT !.hot = demand \/ @]
    <2>1. /\ s # NoSlot /\ slot[s].state = "empty" /\ ws' = ws
          /\ Submit(c, l, e, s, r)
        BY <1>3 DEF HintAgain, Idle
    <2>2. s \in Heap
        BY <2>1, IdleIsInWs
    <2>3. r \in Slot
        <3>1. slot[s] \in Slot
            BY <2>2, HeapIsNotLru DEF IInv, TypeOK
        <3> HIDE DEF s
        <3>2. QED BY <3>1 DEF Slot
    <2>4. \A t \in Slots, m \in Layers : BelongsTo(t, m)' <=> BelongsTo(t, m)
        BY <2>1 DEF BelongsTo
    <2> HIDE DEF s, r
    <2>5. QED BY <1>1, <2>1, <2>2, <2>3, <2>4, SubmitStays
<1>4. CASE HintBoost(l, e, demand)
    <2>1. /\ Lookup(l, e) # NoSlot
          /\ slot' = [slot EXCEPT ![Lookup(l, e)].hot = TRUE]
          /\ ws' = ws /\ UNCHANGED <<rbuf, plFree, content>>
        BY <1>1, <1>4 DEF HintBoost, runVars
    <2>2. Lookup(l, e) \in Slots
        BY <2>1, LookupFacts DEF IInv
    <2> DEFINE s == Lookup(l, e)
    <2>3. s \in Slots /\ slot' = [slot EXCEPT ![s].hot = TRUE]
        BY <2>1, <2>2
    <2> HIDE DEF s
    <2>4. QED BY <2>1, <2>3, BoostStays
<1>5. CASE HintNothing(l, e, demand)
    BY <1>1, <1>5, UntouchedStay DEF HintNothing, runVars
<1>6. QED BY <1>2, <1>3, <1>4, <1>5 DEF HintBody

\* A READY slot stamped and returned to the caller.
LEMMA DeliverStays ==
    ASSUME IInv, NEW l \in Layers, NEW e \in Experts, NEW s \in Slots,
           Deliver(l, e, s)
    PROVE  ResidentsStay /\ NoneArrive
<1> DEFINE r == [slot[s] EXCEPT !.last = clock + 1]
<1>1. slot[s] \in Slot /\ clock + 1 \in Nat
    BY DEF IInv, TypeOK
<1>2. /\ r \in Slot /\ r.state = slot[s].state /\ r.eid = slot[s].eid
      /\ r.pl = slot[s].pl
    BY <1>1, SlotUpdates DEF Slot
<1>3. /\ slot' = [slot EXCEPT ![s] = r] /\ ws' = ws
      /\ UNCHANGED <<rbuf, plFree, content>>
    BY DEF Deliver, runVars, bufVars
<1> HIDE DEF r
<1>4. QED BY <1>2, <1>3, SameSlotStays

\* A fill submitted again by a resolve.
LEMMA ResubmitStays ==
    ASSUME IInv, NEW l \in Layers, NEW e \in Experts, NEW s \in Heap,
           Resubmit(l, e, s)
    PROVE  ResidentsStay /\ NoneArrive
<1> DEFINE r == [slot[s] EXCEPT !.hot = TRUE]
<1>1. r \in Slot /\ Compute \in Callers
    BY HeapIsNotLru, SlotUpdates DEF IInv, TypeOK, Callers
<1>2. /\ slot[s].state = "empty" /\ ws' = ws /\ UNCHANGED bufVars
      /\ Submit(Compute, l, e, s, r)
    BY DEF Resubmit, Idle, Block
<1>3. \A t \in Slots, m \in Layers : BelongsTo(t, m)' <=> BelongsTo(t, m)
    BY <1>2 DEF BelongsTo
<1> HIDE DEF r
<1>4. QED BY <1>1, <1>2, <1>3, SubmitStays

\* A call of resolve.
LEMMA ResolveStays ==
    ASSUME IInv, NEW l \in Layers, NEW e \in Experts, Resolve(l, e)
    PROVE  ResidentsStay /\ NoneArrive
<1> DEFINE s == Lookup(l, e)
<1>1. s # NoSlot => s \in Slots
    BY LookupFacts DEF IInv
<1>2. s # NoSlot /\ slot[s].state # "ready" => s \in Heap
    BY IdleIsInWs
<1>3. CASE ResolveHit(l, e)
    <2>1. s # NoSlot /\ Deliver(l, e, s)
        BY <1>3 DEF ResolveHit
    <2> HIDE DEF s
    <2>2. QED BY <1>1, <2>1, DeliverStays
<1>4. CASE ResolveJoin(l, e)
    <2>1. /\ s # NoSlot /\ slot' = [slot EXCEPT ![s].hot = TRUE]
          /\ ws' = ws /\ UNCHANGED <<rbuf, plFree, content>>
        BY <1>4 DEF ResolveJoin, Block, runVars, bufVars
    <2> HIDE DEF s
    <2>2. QED BY <1>1, <2>1, BoostStays
<1>5. CASE s # NoSlot /\ Resubmit(l, e, s)
    <2>1. slot[s].state # "ready"
        BY <1>5 DEF Resubmit, Idle
    <2> HIDE DEF s
    <2>2. QED BY <1>2, <1>5, <2>1, ResubmitStays
<1>6. CASE ResolveMiss(l, e)
    <2>1. CASE Fail
        BY <2>1, UntouchedStay DEF Fail, runVars, bufVars
    <2>2. CASE /\ FreeHeap # {}
               /\ ws' = [ws EXCEPT ![l] = Append(@, NewSlot)]
               /\ Submit(Compute, l, e, NewSlot, NewEntry(e, TRUE))
               /\ Block(l, e, NewSlot, AfterSubmit)
        <3>1. /\ NewSlot \in Heap /\ ~InWs(NewSlot)
              /\ NewEntry(e, TRUE) \in Slot /\ Compute \in Callers
              /\ \A t \in Slots, m \in Layers :
                    t # NewSlot => (BelongsTo(t, m)' <=> BelongsTo(t, m))
            BY <2>2, NewSlotFacts, NewEntryFacts, WsGrowsByOne DEF Callers
        <3> DEFINE n == NewSlot
                   r == NewEntry(e, TRUE)
        <3>2. /\ n \in Heap /\ ~InWs(n) /\ r \in Slot
              /\ Compute \in Callers
              /\ \A t \in Slots, m \in Layers :
                    t # n => (BelongsTo(t, m)' <=> BelongsTo(t, m))
              /\ Submit(Compute, l, e, n, r) /\ UNCHANGED bufVars
            BY <2>2, <3>1 DEF Block
        <3> HIDE DEF n, r
        <3>3. QED BY <3>2, SubmitStays
    <2>3. QED BY <1>6, <2>1, <2>2 DEF ResolveMiss
<1>7. QED BY <1>3, <1>4, <1>5, <1>6 DEF Resolve

\* A turn of wait_ready's loop.
LEMMA WaitReadyStays ==
    ASSUME IInv, WaitReady
    PROVE  ResidentsStay /\ NoneArrive
<1>1. PICK l \in Layers, e \in Experts, s \in Slots \cup {NoSlot} :
        l = creq.layer /\ e = creq.eid /\ s = creq.slot
    BY DEF WaitReady, RequestValid, IInv, TypeOK
<1>2. s \in Heap /\ s \in Slots
    <2>1. ws[l] \in Seq(Heap) BY DEF IInv, TypeOK
    <2>2. \E k \in DOMAIN ws[l] : ws[l][k] = s
        BY <1>1 DEF WaitReady, IInv, RequestValid
    <2>3. QED BY <2>1, <2>2, ElementOfSeq, LenProperties, HeapIsNotLru
<1>3. CASE Deliver(l, e, s)
    BY <1>2, <1>3, DeliverStays
<1>4. CASE Fail
    BY <1>4, UntouchedStay DEF Fail, runVars, bufVars
<1>5. CASE Resubmit(l, e, s)
    BY <1>2, <1>5, ResubmitStays
<1>6. CASE UNCHANGED <<slot, ws, queueVars, runVars>>
           /\ Block(l, e, s, "blocked")
    BY <1>6, UntouchedStay DEF Block, runVars, bufVars
<1>7. QED BY <1>1, <1>3, <1>4, <1>5, <1>6 DEF WaitReady

\* A fill that got no buffer: its slot was LOADING.
LEMMA AllocFailStays ==
    ASSUME IInv, NEW r \in Runners, AllocFail(r)
    PROVE  ResidentsStay /\ NoneArrive
<1>1. PICK j \in Job : j = rjob[r]
    BY DEF IInv, AllocFail, RunnersHold
<1>2. j.slot \in Slots /\ slot[j.slot] \in Slot
    BY DEF IInv, Job, TypeOK
<1>3. slot[j.slot].state = "loading"
    <2>1. r \in Running
        BY DEF AllocFail, Running
    <2>2. QED BY <1>1, <2>1 DEF IInv, JobOwnsSlot, JobsTarget, Targets
<1> DEFINE v == [slot[j.slot] EXCEPT !.eid = NoEid, !.state = "empty"]
<1>4. v \in Slot /\ v.state = "empty"
    BY <1>2, SlotUpdates DEF Slot
<1>5. slot' = [slot EXCEPT ![j.slot] = v]
    BY <1>1, <1>2 DEF IInv, AllocFail, Drop, TypeOK
<1>6. ws' = ws /\ UNCHANGED <<rbuf, plFree, content>>
    BY DEF AllocFail, bufVars
<1>7. \A t \in Slots, m \in Layers : BelongsTo(t, m)' <=> BelongsTo(t, m)
    BY <1>6 DEF BelongsTo
<1> HIDE DEF v
<1>8. QED BY <1>2, <1>3, <1>4, <1>5, <1>6, <1>7, OneSlotStays

-----------------------------------------------------------------------------
(* Who owns a buffer, and what is behind it.                               *)

\* With payloads nobody new has, and the bytes where they were, the buffers
\* have one owner and the right bytes still.
LEMMA NoneArriveKeeps ==
    ASSUME IInv', BufferOwnedOnce, BytesRight, NoneArrive
    PROVE  BufferOwnedOnce' /\ BytesRight'
<1>1. \A s \in Slots : slot'[s].pl # NoBuf => slot'[s].pl = slot[s].pl
    BY DEF IInv, PayloadIffReady, NoneArrive
<1>2. BufferOwnedOnce'
    <2>1. PayloadIffReady' BY DEF IInv
    <2>2. plFree' = plFree /\ rbuf' = rbuf
        BY DEF NoneArrive
    <2>3. /\ IsInjective(plFree')
          /\ \A b \in ToSet(plFree') :
                /\ \A s \in Slots : slot[s].pl # b
                /\ \A r \in Runners : rbuf'[r] # b
        BY <2>2 DEF BufferOwnedOnce
    <2>4. NoBuf \notin ToSet(plFree')
        <3>1. plFree' \in Seq(Bufs) BY DEF IInv, TypeOK
        <3>2. QED BY <3>1, ElementOfSeq, LenProperties, ConstAssumption
                  DEF ToSet
    <2>5. \A b \in ToSet(plFree'), s \in Slots : slot'[s].pl # b
        BY <1>1, <2>3, <2>4
    <2>6. \A s, t \in Slots :
            slot'[s].pl = slot'[t].pl /\ slot'[s].pl # NoBuf => s = t
        BY <1>1 DEF BufferOwnedOnce
    <2>7. /\ \A q, r \in Runners :
                rbuf'[q] = rbuf'[r] /\ rbuf'[q] # NoBuf => q = r
          /\ \A s \in Slots, r \in Runners : slot'[s].pl = rbuf'[r] =>
                slot'[s].pl = NoBuf
        BY <1>1, <2>2 DEF BufferOwnedOnce
    <2>8. QED BY <2>1, <2>3, <2>5, <2>6, <2>7 DEF BufferOwnedOnce
<1>3. BytesRight'
    BY DEF BytesRight, NoneArrive
<1>4. QED BY <1>2, <1>3

\* pl_put on the stack of recycled buffers: no buffer is on it twice.
LEMMA PutOnce ==
    ASSUME TypeOK, IsInjective(plFree), NEW b \in Bufs \cup {NoBuf},
           b \notin ToSet(plFree)
    PROVE  IsInjective(Put(b)) /\ ToSet(Put(b)) \subseteq Bufs
           /\ \A c \in ToSet(Put(b)) : c = b \/ c \in ToSet(plFree)
<1>1. /\ plFree \in Seq(Bufs)
      /\ ToSet(plFree) \subseteq Bufs
    BY ElementOfSeq, LenProperties DEF TypeOK, ToSet
<1>2. CASE Put(b) = plFree
    BY <1>1, <1>2
<1>3. CASE b # NoBuf /\ Put(b) = Append(plFree, b)
    <2>1. b \in Bufs
        BY <1>3
    <2>2. /\ Len(plFree) \in Nat
          /\ DOMAIN plFree = 1..Len(plFree)
          /\ DOMAIN Put(b) = 1..(Len(plFree) + 1)
          /\ \A k \in DOMAIN plFree : Put(b)[k] = plFree[k]
          /\ Put(b)[Len(plFree) + 1] = b
        BY <1>1, <1>3, <2>1, AppendFacts
    <2>3. \A k \in DOMAIN Put(b) :
            k \in DOMAIN plFree \/ k = Len(plFree) + 1
        BY <2>2
    <2>4. \A c \in ToSet(Put(b)) : c = b \/ c \in ToSet(plFree)
        BY <2>2, <2>3 DEF ToSet
    <2>5. ASSUME NEW j \in DOMAIN Put(b), NEW k \in DOMAIN Put(b),
                 Put(b)[j] = Put(b)[k]
          PROVE  j = k
        <3>1. \A i \in DOMAIN plFree : plFree[i] # b
            BY DEF ToSet
        <3>2. QED BY <2>2, <2>3, <2>5, <3>1 DEF IsInjective
    <2>6. IsInjective(Put(b))
        BY <2>5 DEF IsInjective
    <2>7. QED BY <1>1, <2>1, <2>4, <2>6
<1>4. QED BY <1>2, <1>3 DEF Put

\* pl_get on it: what is left has each buffer once, and not the one taken.
LEMMA PopOnce ==
    ASSUME TypeOK, IsInjective(plFree), plFree # <<>>
    PROVE  /\ IsInjective(PopFree) /\ Last(plFree) \in ToSet(plFree)
           /\ \A c \in ToSet(PopFree) :
                c \in ToSet(plFree) /\ c # Last(plFree)
<1> DEFINE n == Len(plFree)
<1>1. /\ plFree \in Seq(Bufs) /\ n \in Nat \ {0} /\ DOMAIN plFree = 1..n
    BY EmptySeq, LenProperties DEF TypeOK
<1> HIDE DEF n
<1>2. /\ PopFree \in Seq(Bufs) /\ Len(PopFree) = n - 1
      /\ \A k \in 1..(n - 1) : PopFree[k] = plFree[k]
    <2>1. \A k \in 1..(n - 1) : plFree[k] \in Bufs
        BY <1>1, ElementOfSeq DEF n
    <2>2. /\ SubSeq(plFree, 1, n - 1) \in Seq(Bufs)
          /\ Len(SubSeq(plFree, 1, n - 1)) = n - 1
          /\ \A k \in 1..(n - 1) : SubSeq(plFree, 1, n - 1)[k] = plFree[k]
        BY <1>1, <2>1, SubSeqProperties
    <2>3. PopFree = SubSeq(plFree, 1, n - 1)
        BY DEF PopFree, Front, n
    <2>4. QED BY <2>2, <2>3
<1>3. DOMAIN PopFree = 1..(n - 1)
    BY <1>2, LenProperties
<1>4. n \in DOMAIN plFree /\ Last(plFree) = plFree[n]
      /\ \A k \in DOMAIN PopFree : k \in DOMAIN plFree /\ k # n
    BY <1>1, <1>3 DEF Last, n
<1>5. IsInjective(PopFree)
    BY <1>2, <1>3, <1>4 DEF IsInjective
<1>6. ASSUME NEW c \in ToSet(PopFree)
      PROVE  c \in ToSet(plFree) /\ c # Last(plFree)
    <2>1. PICK k \in DOMAIN PopFree : PopFree[k] = c
        BY DEF ToSet
    <2>2. c = plFree[k] /\ k \in DOMAIN plFree /\ k # n
        BY <1>2, <1>3, <1>4, <2>1
    <2>3. QED BY <1>4, <2>2 DEF ToSet, IsInjective
<1>7. Last(plFree) \in ToSet(plFree)
    BY <1>4 DEF ToSet
<1>8. QED BY <1>5, <1>6, <1>7

\* A slot is of one layer.
LEMMA OneLayerEach ==
    ASSUME IInv, NEW s \in Slots, NEW l \in Layers, NEW m \in Layers,
           BelongsTo(s, l), BelongsTo(s, m)
    PROVE  l = m
<1>1. ASSUME NEW p \in Layers, NEW k \in DOMAIN ws[p]
      PROVE  ws[p][k] \in Heap
    <2>1. ws[p] \in Seq(Heap) BY DEF IInv, TypeOK
    <2>2. QED BY <2>1, ElementOfSeq, LenProperties
<1>2. CASE s \in Heap
    <2>1. \A p \in Layers : ~(\E i \in 1..NSlots : s = <<p, i>>)
        BY <1>2, HeapIsNotLru DEF LruSlots
    <2>2. QED BY <2>1 DEF BelongsTo, IInv, WsDistinct
<1>3. CASE s \notin Heap
    BY <1>1, <1>3 DEF BelongsTo
<1>4. QED BY <1>2, <1>3

\* The bytes stay right when every READY slot has them from one that was
\* READY and of its layer.
LEMMA BytesMove ==
    ASSUME BytesRight,
           \A s \in Slots : slot'[s].state = "ready" =>
              \E t \in Slots :
                 /\ slot[t].state = "ready" /\ slot'[s].eid = slot[t].eid
                 /\ content'[slot'[s].pl] = content[slot[t].pl]
                 /\ \A l \in Layers : BelongsTo(s, l)' => BelongsTo(t, l)
    PROVE  BytesRight'
<1>1. ASSUME NEW l \in Layers, NEW s \in Slots,
             BelongsTo(s, l)', slot'[s].state = "ready"
      PROVE  /\ slot'[s].eid \in Experts
             /\ content'[slot'[s].pl] = <<l, slot'[s].eid>>
    <2>1. PICK t \in Slots :
             /\ slot[t].state = "ready" /\ slot'[s].eid = slot[t].eid
             /\ content'[slot'[s].pl] = content[slot[t].pl]
             /\ \A m \in Layers : BelongsTo(s, m)' => BelongsTo(t, m)
        BY <1>1
    <2>2. BelongsTo(t, l)
        BY <1>1, <2>1
    <2>3. QED BY <2>1, <2>2 DEF BytesRight
<1>2. QED BY <1>1 DEF BytesRight

\* pl_get: the buffer a fill takes was nobody's, or only the free list's.
LEMMA GetBufOwns ==
    ASSUME IInv, IInv', BufferOwnedOnce, BytesRight,
           NEW r \in Runners, GetBuf(r)
    PROVE  BufferOwnedOnce' /\ BytesRight' /\ ResidentsStay
<1>1. PICK b \in Bufs :
        /\ rbuf' = [rbuf EXCEPT ![r] = b]
        /\ \A s \in Slots : slot[s].pl # b
        /\ \A q \in Runners : rbuf[q] # b
        /\ \A c \in ToSet(plFree') : c \in ToSet(plFree) /\ c # b
        /\ IsInjective(plFree')
    <2>1. CASE plFree # <<>>
        <3>1. Last(plFree) \in Bufs /\ rbuf' = [rbuf EXCEPT ![r] = Last(plFree)]
              /\ plFree' = PopFree
            BY <2>1, PopFreeFacts DEF GetBuf, IInv
        <3>2. /\ IsInjective(PopFree) /\ Last(plFree) \in ToSet(plFree)
              /\ \A c \in ToSet(PopFree) :
                    c \in ToSet(plFree) /\ c # Last(plFree)
            BY <2>1, PopOnce DEF IInv, BufferOwnedOnce
        <3>3. QED BY <3>1, <3>2 DEF BufferOwnedOnce
    <2>2. CASE plFree = <<>>
        <3>1. PICK b \in FreshBufs : rbuf' = [rbuf EXCEPT ![r] = b]
            BY <2>2 DEF GetBuf
        <3>2. plFree' = plFree
            BY <2>2 DEF GetBuf
        <3>3. b \in Bufs /\ b \notin Held
            BY DEF FreshBufs
        <3>4. /\ \A s \in Slots : slot[s].pl # b
              /\ \A q \in Runners : rbuf[q] # b
              /\ b \notin ToSet(plFree)
            BY <3>3 DEF Held
        <3>5. \A c \in ToSet(plFree') : c \in ToSet(plFree) /\ c # b
            BY <3>2, <3>4
        <3>6. IsInjective(plFree')
            BY <3>2 DEF BufferOwnedOnce
        <3>7. QED BY <3>1, <3>3, <3>4, <3>5, <3>6
    <2>3. QED BY <2>1, <2>2
<1>2. rbuf'[r] = b /\ \A q \in Runners : q # r => rbuf'[q] = rbuf[q]
    BY <1>1 DEF IInv, TypeOK
<1>3. slot' = slot /\ ws' = ws /\ content' = [content EXCEPT ![b] = Junk]
    BY <1>2 DEF GetBuf
<1>4. BufferOwnedOnce'
    <2>1. PayloadIffReady'
        BY DEF IInv
    <2>2. \A s, t \in Slots :
            slot'[s].pl = slot'[t].pl /\ slot'[s].pl # NoBuf => s = t
        BY <1>3 DEF BufferOwnedOnce
    <2>3. \A p, q \in Runners :
            rbuf'[p] = rbuf'[q] /\ rbuf'[p] # NoBuf => p = q
        BY <1>1, <1>2 DEF BufferOwnedOnce
    <2>4. \A s \in Slots, q \in Runners : slot'[s].pl = rbuf'[q] =>
            slot'[s].pl = NoBuf
        BY <1>1, <1>2, <1>3 DEF BufferOwnedOnce
    <2>5. \A c \in ToSet(plFree') :
            /\ \A s \in Slots : slot'[s].pl # c
            /\ \A q \in Runners : rbuf'[q] # c
        BY <1>1, <1>2, <1>3 DEF BufferOwnedOnce
    <2>6. QED BY <1>1, <2>1, <2>2, <2>3, <2>4, <2>5 DEF BufferOwnedOnce
<1>5. BytesRight'
    <2>1. \A s \in Slots : slot[s].pl # b =>
            content'[slot[s].pl] = content[slot[s].pl]
        BY <1>3 DEF IInv, TypeOK
    <2>2. QED BY <1>1, <1>3, <2>1, BytesMove DEF BelongsTo
<1>6. QED BY <1>3, <1>4, <1>5, UntouchedStay

\* The claim of a fill that read its bytes: its buffer becomes the payload.
LEMMA ReadOkOwns ==
    ASSUME IInv, IInv', BufferOwnedOnce, BytesRight,
           NEW r \in Runners, ReadOk(r)
    PROVE  BufferOwnedOnce' /\ BytesRight' /\ ResidentsStay
<1>1. PICK j \in Job, b \in Bufs : j = rjob[r] /\ b = rbuf[r]
    BY DEF IInv, ReadOk, RunnersHold
<1>2. j.slot \in Slots /\ slot[j.slot] \in Slot /\ j.layer \in Layers
      /\ j.eid \in Experts
    BY DEF IInv, Job, TypeOK
<1>3. Targets(j) /\ Claims(j)
    <2>1. r \in Running
        BY DEF ReadOk, Running
    <2>2. QED BY <1>1, <2>1 DEF IInv, JobOwnsSlot, JobsTarget, Targets, Claims
<1> DEFINE t == j.slot
<1>4. /\ slot[t].state = "loading" /\ slot[t].eid = j.eid
      /\ t \in Slots /\ BelongsTo(t, j.layer)
    BY <1>2, <1>3 DEF Targets, BelongsTo
<1>5. /\ slot'[t].pl = b /\ slot'[t].eid = j.eid
      /\ \A s \in Slots : s # t => slot'[s] = slot[s]
    <2>1. slot' = [slot EXCEPT ![t].pl = b, ![t].state = "ready",
                               ![t].hot = FALSE]
        BY <1>1, <1>3 DEF ReadOk
    <2>2. slot[t] \in Slot /\ slot \in [Slots -> Slot] /\ t \in Slots
        BY <1>2 DEF IInv, TypeOK
    <2> HIDE DEF t
    <2>3. slot'[t] = [slot[t] EXCEPT !.pl = b, !.state = "ready",
                                     !.hot = FALSE]
        BY <2>1, <2>2
    <2>4. QED BY <1>4, <2>1, <2>2, <2>3 DEF Slot
<1>6. /\ rbuf'[r] = NoBuf /\ \A q \in Runners : q # r => rbuf'[q] = rbuf[q]
      /\ plFree' = plFree /\ ws' = ws
      /\ content' = [content EXCEPT ![b] = <<j.layer, j.eid>>]
    BY <1>1, <1>3 DEF IInv, TypeOK, ReadOk
<1> HIDE DEF t
<1>7. /\ \A s \in Slots : slot[s].pl # b
      /\ \A c \in ToSet(plFree) : c # b
      /\ \A q \in Runners : q # r => rbuf[q] # b
    BY <1>1, ConstAssumption DEF BufferOwnedOnce
<1>8. BufferOwnedOnce'
    <2>1. PayloadIffReady'
        BY DEF IInv
    <2>2. ASSUME NEW s \in Slots, NEW u \in Slots,
                 slot'[s].pl = slot'[u].pl, slot'[s].pl # NoBuf
          PROVE  s = u
        BY <1>4, <1>5, <1>7, <2>2 DEF BufferOwnedOnce
    <2>3. \A p, q \in Runners :
            rbuf'[p] = rbuf'[q] /\ rbuf'[p] # NoBuf => p = q
        BY <1>6 DEF BufferOwnedOnce
    <2>4. ASSUME NEW s \in Slots, NEW q \in Runners, slot'[s].pl = rbuf'[q]
          PROVE  slot'[s].pl = NoBuf
        BY <1>4, <1>5, <1>6, <1>7, <2>4 DEF BufferOwnedOnce
    <2>5. NoBuf \notin ToSet(plFree)
        <3>1. plFree \in Seq(Bufs) BY DEF IInv, TypeOK
        <3>2. QED BY <3>1, ElementOfSeq, LenProperties, ConstAssumption
                  DEF ToSet
    <2>6. \A c \in ToSet(plFree') :
            /\ \A s \in Slots : slot'[s].pl # c
            /\ \A q \in Runners : rbuf'[q] # c
        BY <1>4, <1>5, <1>6, <1>7, <2>5 DEF BufferOwnedOnce
    <2>7. IsInjective(plFree')
        BY <1>6 DEF BufferOwnedOnce
    <2>8. QED BY <2>1, <2>2, <2>3, <2>4, <2>6, <2>7 DEF BufferOwnedOnce
<1>9. \A s \in Slots, l \in Layers : BelongsTo(s, l)' <=> BelongsTo(s, l)
    BY <1>6 DEF BelongsTo
<1>10. BytesRight'
    <2>1. /\ content'[b] = <<j.layer, j.eid>>
          /\ \A s \in Slots : slot[s].pl # b =>
                content'[slot[s].pl] = content[slot[s].pl]
        BY <1>6 DEF IInv, TypeOK
    <2>2. ASSUME NEW l \in Layers, NEW s \in Slots,
                 BelongsTo(s, l), slot'[s].state = "ready"
          PROVE  /\ slot'[s].eid \in Experts
                 /\ content'[slot'[s].pl] = <<l, slot'[s].eid>>
        <3>1. CASE s = t
            <4>1. l = j.layer
                BY <1>2, <1>4, <2>2, <3>1, OneLayerEach
            <4>2. QED BY <1>2, <1>5, <2>1, <3>1, <4>1
        <3>2. CASE s # t
            BY <1>5, <1>7, <2>1, <2>2, <3>2 DEF BytesRight
        <3>3. QED BY <3>1, <3>2
    <2>3. QED BY <1>9, <2>2 DEF BytesRight
<1>11. ResidentsStay
    BY <1>4, <1>5, <1>9 DEF ResidentsStay
<1>12. QED BY <1>8, <1>10, <1>11

\* A failed pread: the buffer goes back to the free list.
LEMMA ReadFailOwns ==
    ASSUME IInv, IInv', BufferOwnedOnce, BytesRight,
           NEW r \in Runners, ReadFail(r)
    PROVE  BufferOwnedOnce' /\ BytesRight' /\ ResidentsStay
<1>1. PICK j \in Job, b \in Bufs : j = rjob[r] /\ b = rbuf[r]
    BY DEF IInv, ReadFail, RunnersHold
<1>2. j.slot \in Slots /\ slot[j.slot] \in Slot
    BY DEF IInv, Job, TypeOK
<1>3. slot[j.slot].state = "loading" /\ slot[j.slot].pl = NoBuf
    <2>1. r \in Running
        BY DEF ReadFail, Running
    <2>2. QED BY <1>1, <1>2, <2>1
              DEF IInv, JobOwnsSlot, JobsTarget, Targets, PayloadIffReady
<1> DEFINE t == j.slot
<1>4. /\ slot'[t].pl = NoBuf /\ slot'[t].state = "empty"
      /\ \A s \in Slots : s # t => slot'[s] = slot[s]
    <2>1. slot' = [slot EXCEPT ![t].state = "empty", ![t].hot = FALSE,
                               ![t].eid = NoEid]
        BY <1>1 DEF ReadFail
    <2>2. slot[t] \in Slot /\ slot \in [Slots -> Slot] /\ t \in Slots
          /\ slot[t].pl = NoBuf
        BY <1>2, <1>3 DEF IInv, TypeOK
    <2> HIDE DEF t
    <2>3. slot'[t] = [slot[t] EXCEPT !.state = "empty", !.hot = FALSE,
                                     !.eid = NoEid]
        BY <2>1, <2>2
    <2>4. QED BY <2>1, <2>2, <2>3 DEF Slot
<1>5. /\ t \in Slots /\ slot[t].state = "loading" /\ slot[t].pl = NoBuf
    BY <1>2, <1>3
<1> HIDE DEF t
<1>6. /\ rbuf'[r] = NoBuf /\ \A q \in Runners : q # r => rbuf'[q] = rbuf[q]
      /\ plFree' = Put(b) /\ ws' = ws /\ content' = content
    BY <1>1 DEF IInv, TypeOK, ReadFail
<1>7. \A s \in Slots : slot'[s].pl = slot[s].pl
    BY <1>4, <1>5
<1>8. /\ \A s \in Slots : slot[s].pl # b
      /\ b \notin ToSet(plFree) /\ b # NoBuf
      /\ \A q \in Runners : q # r => rbuf[q] # b
    BY <1>1, ConstAssumption DEF BufferOwnedOnce
<1>9. /\ IsInjective(plFree') /\ ToSet(plFree') \subseteq Bufs
      /\ \A c \in ToSet(plFree') : c = b \/ c \in ToSet(plFree)
    <2>1. /\ IsInjective(Put(b)) /\ ToSet(Put(b)) \subseteq Bufs
          /\ \A c \in ToSet(Put(b)) : c = b \/ c \in ToSet(plFree)
        BY <1>8, PutOnce DEF IInv, BufferOwnedOnce
    <2>2. QED BY <1>6, <2>1
<1>10. BufferOwnedOnce'
    <2>1. PayloadIffReady'
        BY DEF IInv
    <2>2. \A s, u \in Slots :
            slot'[s].pl = slot'[u].pl /\ slot'[s].pl # NoBuf => s = u
        BY <1>7 DEF BufferOwnedOnce
    <2>3. \A p, q \in Runners :
            rbuf'[p] = rbuf'[q] /\ rbuf'[p] # NoBuf => p = q
        BY <1>6 DEF BufferOwnedOnce
    <2>4. \A s \in Slots, q \in Runners : slot'[s].pl = rbuf'[q] =>
            slot'[s].pl = NoBuf
        BY <1>6, <1>7 DEF BufferOwnedOnce
    <2>5. ASSUME NEW c \in ToSet(plFree')
          PROVE  /\ \A s \in Slots : slot'[s].pl # c
                 /\ \A q \in Runners : rbuf'[q] # c
        <3>1. c # NoBuf
            BY <1>9, ConstAssumption
        <3>2. QED BY <1>6, <1>7, <1>8, <1>9, <3>1 DEF BufferOwnedOnce
    <2>6. QED BY <1>9, <2>1, <2>2, <2>3, <2>4, <2>5 DEF BufferOwnedOnce
<1>11. \A s \in Slots, l \in Layers : BelongsTo(s, l)' <=> BelongsTo(s, l)
    BY <1>6 DEF BelongsTo
<1>12. BytesRight' /\ ResidentsStay
    BY <1>4, <1>5, <1>6, <1>11 DEF BytesRight, ResidentsStay
<1>13. QED BY <1>10, <1>12

\* The guard frees payloads of READY slots; the bytes behind the others stay.
LEMMA RssGuardOwns ==
    ASSUME IInv, IInv', BufferOwnedOnce, BytesRight, RssGuard
    PROVE  BufferOwnedOnce' /\ BytesRight'
<1>1. PICK D \in SUBSET LiveLru :
        /\ slot' = [s \in Slots |->
                      IF s \in D THEN [slot[s] EXCEPT !.pl = NoBuf,
                                                      !.state = "empty"]
                      ELSE slot[s]]
        /\ content' = Trash({slot[s].pl : s \in D})
    BY DEF RssGuard
<1>2. \A s \in D : s \in Slots
    BY DEF LiveLru, Slots
<1>3. \A s \in Slots :
        /\ s \in D => slot'[s].pl = NoBuf /\ slot'[s].state = "empty"
        /\ s \notin D => slot'[s] = slot[s]
    <2>1. ASSUME NEW s \in Slots, s \in D
          PROVE  slot'[s].pl = NoBuf /\ slot'[s].state = "empty"
        <3>1. slot[s] \in Slot
            BY DEF IInv, TypeOK
        <3>2. slot'[s] = [slot[s] EXCEPT !.pl = NoBuf, !.state = "empty"]
            BY <1>1, <2>1
        <3>3. QED BY <3>1, <3>2 DEF Slot
    <2>2. ASSUME NEW s \in Slots, s \notin D
          PROVE  slot'[s] = slot[s]
        BY <1>1, <2>2
    <2>3. QED BY <2>1, <2>2
<1>4. ws' = ws /\ rbuf' = rbuf /\ plFree' = plFree
    BY DEF RssGuard, runVars
<1>5. \A s \in Slots : slot'[s].pl # NoBuf => slot'[s].pl = slot[s].pl
    BY <1>3
<1>6. NoBuf \notin ToSet(plFree)
    <2>1. plFree \in Seq(Bufs) BY DEF IInv, TypeOK
    <2>2. QED BY <2>1, ElementOfSeq, LenProperties, ConstAssumption DEF ToSet
<1>7. BufferOwnedOnce'
    <2>1. PayloadIffReady'
        BY DEF IInv
    <2>2. \A s, u \in Slots :
            slot'[s].pl = slot'[u].pl /\ slot'[s].pl # NoBuf => s = u
        BY <1>5 DEF BufferOwnedOnce
    <2>3. \A p, q \in Runners :
            rbuf'[p] = rbuf'[q] /\ rbuf'[p] # NoBuf => p = q
        BY <1>4 DEF BufferOwnedOnce
    <2>4. \A s \in Slots, q \in Runners : slot'[s].pl = rbuf'[q] =>
            slot'[s].pl = NoBuf
        BY <1>4, <1>5 DEF BufferOwnedOnce
    <2>5. \A c \in ToSet(plFree') :
            /\ \A s \in Slots : slot'[s].pl # c
            /\ \A q \in Runners : rbuf'[q] # c
        BY <1>4, <1>5, <1>6 DEF BufferOwnedOnce
    <2>6. IsInjective(plFree')
        BY <1>4 DEF BufferOwnedOnce
    <2>7. QED BY <2>1, <2>2, <2>3, <2>4, <2>5, <2>6 DEF BufferOwnedOnce
<1>8. BytesRight'
    <2>1. ASSUME NEW s \in Slots, slot'[s].state = "ready"
          PROVE  slot'[s] = slot[s] /\ content'[slot[s].pl] = content[slot[s].pl]
        <3>1. s \notin D /\ slot'[s] = slot[s]
            BY <1>3, <2>1
        <3>2. slot[s].pl \in Bufs
            BY <2>1, <3>1 DEF IInv, TypeOK, PayloadIffReady, Slot
        <3>3. \A u \in D : slot[u].pl # slot[s].pl
            BY <1>2, <3>1, <3>2, ConstAssumption DEF BufferOwnedOnce
        <3>4. QED BY <1>1, <3>1, <3>2, <3>3 DEF Trash
    <2>2. QED BY <1>4, <2>1, BytesMove DEF BelongsTo
<1>9. QED BY <1>7, <1>8

\* close frees everything.
LEMMA JoinOwns ==
    ASSUME IInv, IInv', BufferOwnedOnce, Join
    PROVE  BufferOwnedOnce' /\ BytesRight'
<1>1. /\ \A s \in Slots : slot'[s].pl = NoBuf /\ slot'[s].state = "empty"
      /\ plFree' = <<>> /\ rbuf' = rbuf
    BY DEF Join, Blank, runVars
<1>2. ToSet(plFree') = {} /\ IsInjective(plFree')
    BY <1>1, EmptySeq DEF ToSet, IsInjective
<1>3. BufferOwnedOnce'
    BY <1>1, <1>2 DEF BufferOwnedOnce, IInv
<1>4. BytesRight'
    BY <1>1 DEF BytesRight
<1>5. QED BY <1>3, <1>4

\* The victim of a promotion is of the layer promoted.
LEMMA VictimOfLayer ==
    ASSUME NEW l \in Layers, Victim(l) # NoSlot
    PROVE  \E i \in 1..NSlots : Victim(l) = <<l, i>>
<1> DEFINE cand == {i \in 1..NSlots : slot[<<l, i>>].state # "loading"}
           unused == {i \in cand : slot[<<l, i>>].eid = NoEid}
           coldest == {i \in cand : \A j \in cand :
                            slot[<<l, i>>].last <= slot[<<l, j>>].last}
<1>1. cand \subseteq Nat
    BY ConstAssumption
<1>2. CASE unused # {}
    <2>1. First(unused) \in unused
        BY <1>1, <1>2, FirstIn
    <2>2. QED BY <1>2, <2>1 DEF Victim
<1>3. CASE unused = {} /\ coldest # {}
    <2>1. First(coldest) \in coldest
        BY <1>1, <1>3, FirstIn
    <2>2. QED BY <1>3, <2>1 DEF Victim
<1>4. CASE unused = {} /\ coldest = {}
    BY <1>4 DEF Victim
<1>5. QED BY <1>2, <1>3, <1>4

\* Taking an entry off a working set adds none.
LEMMA WsShrinksOnly ==
    ASSUME IInv, NEW l \in Layers, NEW k \in DOMAIN ws[l],
           ws' = [ws EXCEPT ![l] = RemoveAt(@, k)]
    PROVE  \A t \in Slots, m \in Layers : BelongsTo(t, m)' => BelongsTo(t, m)
<1>1. ws[l] \in Seq(Heap) /\ k \in 1..Len(ws[l])
    BY LenProperties DEF IInv, TypeOK
<1>2. ws'[l] = RemoveAt(ws[l], k) /\ \A m \in Layers : m # l =>
            ws'[m] = ws[m]
    BY DEF IInv, TypeOK
<1> DEFINE n == Len(ws[l])
<1>3. /\ n \in Nat /\ DOMAIN ws[l] = 1..n /\ DOMAIN ws'[l] = 1..(n - 1)
      /\ \A i \in 1..(n - 1) :
            ws'[l][i] = IF i < k THEN ws[l][i] ELSE ws[l][i + 1]
    BY <1>1, <1>2, RemoveFacts
<1> HIDE DEF n
<1>4. ASSUME NEW i \in DOMAIN ws'[l]
      PROVE  \E j \in DOMAIN ws[l] : ws[l][j] = ws'[l][i]
    <2>1. i \in 1..(n - 1) /\ i \in 1..n /\ i + 1 \in 1..n
        BY <1>3
    <2>2. QED BY <1>3, <2>1
<1>5. ASSUME NEW t \in Slots, NEW m \in Layers, BelongsTo(t, m)'
      PROVE  BelongsTo(t, m)
    <2>1. CASE m = l
        BY <1>4, <1>5, <2>1 DEF BelongsTo
    <2>2. CASE m # l
        BY <1>2, <1>5, <2>2 DEF BelongsTo
    <2>3. QED BY <2>1, <2>2
<1>6. QED BY <1>5

\* Buffers when payload p leaves slot f, to slot v when there is one, and
\* the payload old that was freed for it is recycled.
LEMMA RecycleOwns ==
    ASSUME IInv, IInv', BufferOwnedOnce, NEW f \in Slots, NEW v \in Slots,
           \A u \in Slots : u # v /\ u # f => slot'[u].pl = slot[u].pl,
           slot'[f].pl = NoBuf,
           \/ v = f /\ plFree' = Put(slot[f].pl)
           \/ v # f /\ slot'[v].pl = slot[f].pl /\ plFree' = Put(slot[v].pl),
           rbuf' = rbuf
    PROVE  BufferOwnedOnce'
<1> DEFINE b == slot[v].pl
<1>1. /\ plFree' = Put(b) /\ b \in Bufs \cup {NoBuf} /\ b \notin ToSet(plFree)
      /\ \A q \in Runners : rbuf[q] = b => b = NoBuf
    <2>1. slot[v] \in Slot
        BY DEF IInv, TypeOK
    <2>2. QED BY <2>1 DEF Slot, BufferOwnedOnce
<1>2. /\ IsInjective(plFree') /\ ToSet(plFree') \subseteq Bufs
      /\ \A c \in ToSet(plFree') : c = b \/ c \in ToSet(plFree)
    <2>1. TypeOK /\ IsInjective(plFree)
        BY DEF IInv, BufferOwnedOnce
    <2> HIDE DEF b
    <2>2. QED BY <1>1, <2>1, PutOnce
<1>3. \A u \in Slots : slot'[u].pl # NoBuf =>
        /\ u # f
        /\ u = v => slot'[u].pl = slot[f].pl
        /\ u # v => slot'[u].pl = slot[u].pl
    OBVIOUS
<1>4. \A u \in Slots : slot'[u].pl # NoBuf => slot'[u].pl # b
    BY <1>3 DEF BufferOwnedOnce
<1> HIDE DEF b
<1>5. \A s, u \in Slots :
        slot'[s].pl = slot'[u].pl /\ slot'[s].pl # NoBuf => s = u
    BY <1>3 DEF BufferOwnedOnce
<1>6. \A p, q \in Runners :
        rbuf'[p] = rbuf'[q] /\ rbuf'[p] # NoBuf => p = q
    BY DEF BufferOwnedOnce
<1>7. \A s \in Slots, q \in Runners : slot'[s].pl = rbuf'[q] =>
        slot'[s].pl = NoBuf
    BY <1>3 DEF BufferOwnedOnce
<1>8. ASSUME NEW c \in ToSet(plFree')
      PROVE  /\ \A s \in Slots : slot'[s].pl # c
             /\ \A q \in Runners : rbuf'[q] # c
    <2>1. c # NoBuf
        BY <1>2, ConstAssumption
    <2>2. CASE c = b
        BY <1>1, <1>4, <2>1, <2>2
    <2>3. CASE c \in ToSet(plFree)
        BY <1>3, <2>1, <2>3 DEF BufferOwnedOnce
    <2>4. QED BY <1>2, <2>2, <2>3
<1>9. PayloadIffReady'
    BY DEF IInv
<1>10. QED BY <1>2, <1>5, <1>6, <1>7, <1>8, <1>9 DEF BufferOwnedOnce

\* What one iteration of the promotion loop does to the slots.
LEMMA PromoteMoves ==
    ASSUME IInv, Promote
    PROVE  \/ slot' = slot /\ ws' = ws /\ UNCHANGED bufVars
           \/ \E l \in Layers, s \in Heap :
                /\ slot[s].state = "ready" /\ BelongsTo(s, l)
                /\ \A t \in Slots, m \in Layers :
                        BelongsTo(t, m)' => BelongsTo(t, m)
                /\ slot'[s] = Blank
                /\ \/ /\ \A t \in Slots : t # s => slot'[t] = slot[t]
                      /\ plFree' = Put(slot[s].pl)
                      /\ content' = Trash({slot[s].pl})
                   \/ \E v \in LruSlots :
                        /\ BelongsTo(v, l) /\ slot[v].last <= slot[s].last
                        /\ slot'[v].eid = slot[s].eid
                        /\ slot'[v].pl = slot[s].pl
                        /\ slot'[v].last = slot[s].last
                        /\ \A t \in Slots : t # s /\ t # v =>
                                slot'[t] = slot[t]
                        /\ plFree' = Put(slot[v].pl)
                        /\ content' = Trash({slot[v].pl})
<1>1. PICK l \in Layers, k \in Nat \ {0} : l = creq.layer /\ k = creq.idx
    BY DEF Promote, IInv, RequestValid, TypeOK
<1>2. k \in DOMAIN ws[l]
    BY <1>1, LenProperties DEF Promote, IInv, TypeOK
<1>3. PICK s \in Heap : s = ws[l][k]
    <2>1. ws[l] \in Seq(Heap) BY DEF IInv, TypeOK
    <2>2. QED BY <1>2, <2>1, ElementOfSeq, LenProperties
<1>4. s \in Slots /\ BelongsTo(s, l)
    BY <1>2, <1>3, HeapIsNotLru DEF BelongsTo
<1>5. CASE slot[s].state # "ready"
    BY <1>1, <1>3, <1>5 DEF Promote
<1>6. CASE slot[s].state = "ready"
    <2>1. ws' = [ws EXCEPT ![l] = RemoveAt(@, k)]
        BY <1>1, <1>3, <1>6 DEF Promote
    <2>2. \A t \in Slots, m \in Layers : BelongsTo(t, m)' => BelongsTo(t, m)
        BY <1>2, <2>1, WsShrinksOnly
    <2>3. CASE ~Installs(s, Victim(l))
        <3>1. /\ slot' = [slot EXCEPT ![s] = Blank]
              /\ plFree' = Put(slot[s].pl)
              /\ content' = Trash({slot[s].pl})
            BY <1>1, <1>3, <1>6, <2>3 DEF Promote
        <3>2. /\ slot'[s] = Blank
              /\ \A t \in Slots : t # s => slot'[t] = slot[t]
            BY <1>4, <3>1 DEF IInv, TypeOK
        <3>3. QED BY <1>4, <1>6, <2>2, <3>1, <3>2
    <2>4. CASE Installs(s, Victim(l))
        <3>1. PICK v \in LruSlots : v = Victim(l)
            BY <2>4, VictimFacts DEF Installs
        <3>2. /\ v \in Slots /\ v # s /\ BelongsTo(v, l)
              /\ slot[v].last <= slot[s].last
            <4>1. \E i \in 1..NSlots : v = <<l, i>>
                BY <2>4, <3>1, VictimOfLayer DEF Installs
            <4>2. QED BY <2>4, <3>1, <4>1, HeapIsNotLru
                      DEF Installs, Slots, BelongsTo
        <3> DEFINE r == [eid |-> slot[s].eid, pl |-> slot[s].pl,
                         last |-> slot[s].last, state |-> "ready",
                         gen |-> slot[v].gen, hot |-> FALSE]
        <3>3. /\ r.eid = slot[s].eid /\ r.pl = slot[s].pl
              /\ r.last = slot[s].last
            OBVIOUS
        <3>4. /\ slot' = [slot EXCEPT ![v] = r, ![s] = Blank]
              /\ plFree' = Put(slot[v].pl)
              /\ content' = Trash({slot[v].pl})
            BY <1>1, <1>3, <1>6, <2>4, <3>1, <3>2
               DEF Promote, IInv, TypeOK
        <3> HIDE DEF r
        <3>5. /\ slot'[v] = r /\ slot'[s] = Blank
              /\ \A t \in Slots : t # v /\ t # s => slot'[t] = slot[t]
            BY <1>4, <3>2, <3>4 DEF IInv, TypeOK
        <3>6. \E u \in LruSlots :
                /\ BelongsTo(u, l) /\ slot[u].last <= slot[s].last
                /\ slot'[u].eid = slot[s].eid
                /\ slot'[u].pl = slot[s].pl
                /\ slot'[u].last = slot[s].last
                /\ \A t \in Slots : t # s /\ t # u => slot'[t] = slot[t]
                /\ plFree' = Put(slot[u].pl)
                /\ content' = Trash({slot[u].pl})
            BY <3>2, <3>3, <3>4, <3>5
        <3>7. QED BY <1>4, <1>6, <2>2, <3>5, <3>6
    <2>5. QED BY <2>3, <2>4
<1>7. QED BY <1>5, <1>6

\* One iteration of the promotion loop.
LEMMA PromoteOwns ==
    ASSUME IInv, IInv', BufferOwnedOnce, BytesRight, Promote
    PROVE  BufferOwnedOnce' /\ BytesRight'
<1>1. rbuf' = rbuf
    BY DEF Promote, runVars
<1>2. CASE slot' = slot /\ ws' = ws /\ UNCHANGED bufVars
    <2>1. NoneArrive
        BY <1>1, <1>2, UntouchedStay DEF bufVars
    <2>2. QED BY <2>1, NoneArriveKeeps
<1>3. ASSUME NEW l \in Layers, NEW s \in Heap,
             slot[s].state = "ready", BelongsTo(s, l),
             \A t \in Slots, m \in Layers :
                BelongsTo(t, m)' => BelongsTo(t, m),
             slot'[s] = Blank
      PROVE  /\ s \in Slots /\ slot'[s].pl = NoBuf
             /\ slot'[s].state = "empty" /\ slot[s].pl # NoBuf
    BY <1>3, HeapIsNotLru DEF Blank, IInv, PayloadIffReady
<1>4. ASSUME NEW l \in Layers, NEW s \in Heap,
             slot[s].state = "ready", BelongsTo(s, l),
             \A t \in Slots, m \in Layers :
                BelongsTo(t, m)' => BelongsTo(t, m),
             slot'[s] = Blank,
             \A t \in Slots : t # s => slot'[t] = slot[t],
             plFree' = Put(slot[s].pl),
             content' = Trash({slot[s].pl})
      PROVE  BufferOwnedOnce' /\ BytesRight'
    <2>1. /\ s \in Slots /\ slot'[s].pl = NoBuf
          /\ slot'[s].state = "empty" /\ slot[s].pl # NoBuf
        BY <1>3, <1>4
    <2>2. BufferOwnedOnce'
        BY <1>1, <1>4, <2>1, RecycleOwns
    <2>3. ASSUME NEW t \in Slots, slot'[t].state = "ready"
          PROVE  t # s /\ content'[slot[t].pl] = content[slot[t].pl]
        <3>1. t # s /\ slot'[t] = slot[t]
            BY <1>4, <2>1, <2>3
        <3>2. slot[t].pl \in Bufs /\ slot[t].pl # slot[s].pl
            BY <2>1, <2>3, <3>1 DEF IInv, TypeOK, PayloadIffReady, Slot,
                                    BufferOwnedOnce
        <3>3. QED BY <1>4, <3>1, <3>2 DEF Trash
    <2>4. BytesRight'
        BY <1>4, <2>3, BytesMove
    <2>5. QED BY <2>2, <2>4
<1>5. ASSUME NEW l \in Layers, NEW s \in Heap,
             slot[s].state = "ready", BelongsTo(s, l),
             \A t \in Slots, m \in Layers :
                BelongsTo(t, m)' => BelongsTo(t, m),
             slot'[s] = Blank, NEW v \in LruSlots, BelongsTo(v, l),
             slot'[v].eid = slot[s].eid, slot'[v].pl = slot[s].pl,
             \A t \in Slots : t # s /\ t # v => slot'[t] = slot[t],
             plFree' = Put(slot[v].pl),
             content' = Trash({slot[v].pl})
      PROVE  BufferOwnedOnce' /\ BytesRight'
    <2>1. /\ s \in Slots /\ slot'[s].pl = NoBuf
          /\ slot'[s].state = "empty" /\ slot[s].pl # NoBuf
        BY <1>3, <1>5
    <2>2. v \in Slots /\ v # s
        BY HeapIsNotLru DEF Slots
    <2>3. BufferOwnedOnce'
        BY <1>1, <1>5, <2>1, <2>2, RecycleOwns
    <2>4. \A t \in Slots : slot[t].state = "ready" /\ t # v =>
            content'[slot[t].pl] = content[slot[t].pl]
        <3>1. ASSUME NEW t \in Slots, slot[t].state = "ready", t # v
              PROVE  slot[t].pl \in Bufs /\ slot[t].pl # slot[v].pl
            BY <2>2, <3>1 DEF IInv, TypeOK, PayloadIffReady, Slot,
                              BufferOwnedOnce
        <3>2. QED BY <1>5, <3>1 DEF Trash
    <2>5. \A m \in Layers : BelongsTo(v, m)' => BelongsTo(s, m)
        BY <1>5, <2>2, OneLayerEach
    <2>6. ASSUME NEW u \in Slots, slot'[u].state = "ready"
          PROVE  \E t \in Slots :
                    /\ slot[t].state = "ready" /\ slot'[u].eid = slot[t].eid
                    /\ content'[slot'[u].pl] = content[slot[t].pl]
                    /\ \A m \in Layers : BelongsTo(u, m)' => BelongsTo(t, m)
        <3>1. CASE u = v
            BY <1>5, <2>1, <2>2, <2>4, <2>5, <3>1
        <3>2. CASE u # v
            BY <1>5, <2>1, <2>4, <2>6, <3>2
        <3>3. QED BY <3>1, <3>2
    <2>7. BytesRight'
        BY <2>6, BytesMove
    <2>8. QED BY <2>3, <2>7
<1>6. QED BY <1>2, <1>4, <1>5, PromoteMoves

-----------------------------------------------------------------------------
(* Every step.                                                             *)

\* The actions of the cache by what they do to the payloads.
LEMMA StepShapes ==
    ASSUME IInv, [Next]_vars
    PROVE  \/ ResidentsStay /\ NoneArrive
           \/ \E r \in Runners : GetBuf(r) \/ ReadOk(r) \/ ReadFail(r)
           \/ Promote \/ RssGuard \/ Join
<1> DEFINE Quiet == ResidentsStay /\ NoneArrive
           Moves == \/ \E r \in Runners :
                            GetBuf(r) \/ ReadOk(r) \/ ReadFail(r)
                    \/ Promote \/ RssGuard \/ Join
<1>1. /\ slot' = slot /\ ws' = ws /\ rbuf' = rbuf /\ plFree' = plFree
      /\ content' = content
      => Quiet
    BY UntouchedStay
<1>2. ASSUME NEW r \in Runners, RunnerStep(r)
      PROVE  Quiet \/ Moves
    BY <1>2, AllocFailStays DEF RunnerStep
<1> HIDE DEF Quiet
<1>3. CASE ClientCall
    <2>1. Compute \in Callers /\ Pilot \in Callers
        BY DEF Callers
    <2>2. ASSUME NEW l \in Layers, NEW e \in Experts,
                 Hint(l, e) \/ HintDemand(l, e)
          PROVE  Quiet
        BY <2>1, <2>2, HintStays DEF Hint, HintDemand, Quiet
    <2>3. ASSUME NEW l \in Layers, LayerEnd(l)
          PROVE  Quiet
        BY <2>3, <1>1 DEF LayerEnd, runVars, bufVars
    <2>4. Close => Quiet
        BY <1>1 DEF Close, bufVars
    <2>5. QED BY <1>3, <2>2, <2>3, <2>4, ResolveStays
              DEF ClientCall, Quiet
<1>4. CASE ComputeStep
    <2>1. PromoteDone => Quiet
        BY <1>1 DEF PromoteDone, runVars, bufVars
    <2>2. QED BY <1>4, <2>1, WaitReadyStays DEF ComputeStep, Quiet
<1>5. ASSUME NEW w \in Workers, WorkerStep(w)
      PROVE  Quiet \/ Moves
    <2>1. w \in Runners
        BY DEF Runners
    <2>2. Sleep(w) \/ Exit(w) \/ Pop(w) \/ Retire(w) => Quiet
        BY <1>1 DEF Sleep, Exit, Pop, Retire, bufVars
    <2>3. QED BY <1>2, <1>5, <2>1, <2>2 DEF WorkerStep
<1>6. ASSUME NEW c \in Callers, RunnerStep(c)
      PROVE  Quiet \/ Moves
    BY <1>2, <1>6 DEF Runners
<1>7. Spurious \/ Closed \/ UNCHANGED vars => Quiet
    BY <1>1 DEF Spurious, Closed, vars, bufVars
<1>8. QED BY <1>3, <1>4, <1>5, <1>6, <1>7 DEF Next, Quiet

\* Every step keeps the owners of the buffers and the bytes behind them.
LEMMA StepOwns ==
    ASSUME IInv, BufferOwnedOnce, BytesRight, [Next]_vars
    PROVE  BufferOwnedOnce' /\ BytesRight'
<1>1. IInv'
    BY StepIInv
<1>2. QED BY <1>1, StepShapes, NoneArriveKeeps, GetBufOwns, ReadOkOwns,
             ReadFailOwns, PromoteOwns, RssGuardOwns, JoinOwns

\* In the cache apus_gcache_open leaves no slot has a payload.
LEMMA InitOwns == Init => BufferOwnedOnce /\ BytesRight
<1> SUFFICES ASSUME Init PROVE BufferOwnedOnce /\ BytesRight
    OBVIOUS
<1>1. /\ \A s \in Slots : slot[s].pl = NoBuf /\ slot[s].state = "empty"
      /\ \A r \in Runners : rbuf[r] = NoBuf
      /\ ToSet(plFree) = {} /\ IsInjective(plFree)
    BY EmptySeq DEF Init, Blank, ToSet, IsInjective
<1>2. QED BY <1>1 DEF BufferOwnedOnce, BytesRight, PayloadIffReady

\* A payload buffer is owned by one slot, one running fill or one place of
\* the free list: apus_gcache never frees a buffer twice, never lets two
\* fills write the same bytes, and never recycles a payload a slot still
\* has.
THEOREM BuffersOwned == Spec => []BufferOwnedOnce
<1> DEFINE I == IInv /\ BufferOwnedOnce /\ BytesRight
<1>1. Init => I
    BY InitIInv, InitOwns
<1>2. I /\ [Next]_vars => I'
    BY StepIInv, StepOwns
<1>3. I => BufferOwnedOnce
    OBVIOUS
<1> HIDE DEF I
<1>4. QED BY <1>1, <1>2, <1>3, PTL DEF Spec

\* The payload of an LRU slot that a resolve used is only ever replaced by
\* one used at least as late: no speculative fill evicts it.
LEMMA StepNeverEvicts ==
    ASSUME IInv, BufferOwnedOnce, BytesRight, [Next]_vars, NEW s \in LruSlots,
           slot[s].pl # NoBuf, slot'[s].pl \notin {NoBuf, slot[s].pl}
    PROVE  slot'[s].last >= slot[s].last
<1>1. s \in Slots /\ s \notin Heap
    BY HeapIsNotLru DEF Slots
<1>2. IInv'
    BY StepIInv
<1>3. ~NoneArrive
    <2>1. slot'[s].state = "ready"
        BY <1>1, <1>2 DEF IInv, PayloadIffReady
    <2>2. QED BY <1>1, <2>1 DEF NoneArrive
<1>4. ASSUME NEW r \in Runners, GetBuf(r) \/ ReadOk(r) \/ ReadFail(r)
      PROVE  FALSE
    <2>1. CASE GetBuf(r)
        BY <2>1 DEF GetBuf
    <2>2. CASE ReadOk(r) \/ ReadFail(r)
        <3>1. r \in Running /\ rjob[r] \in Job
            BY <2>2 DEF ReadOk, ReadFail, Running, IInv, RunnersHold
        <3>2. PICK k \in DOMAIN ws[rjob[r].layer] :
                ws[rjob[r].layer][k] = rjob[r].slot
            BY <3>1 DEF IInv, JobOwnsSlot, JobsTarget, Targets
        <3>3. rjob[r].slot \in Heap
            <4>1. ws[rjob[r].layer] \in Seq(Heap)
                BY <3>1 DEF IInv, TypeOK, Job
            <4>2. QED BY <3>2, <4>1, ElementOfSeq, LenProperties
        <3>4. PICK t \in Heap : t = rjob[r].slot
            BY <3>3
        <3>5. slot'[s] = slot[s]
            BY <1>1, <2>2, <3>4 DEF ReadOk, ReadFail, IInv, TypeOK
        <3>6. QED BY <3>5
    <2>3. QED BY <1>4, <2>1, <2>2
<1>5. CASE Promote
    <2>1. slot' # slot
        OBVIOUS
    <2>2. PICK l \in Layers, t \in Heap :
            /\ slot'[t] = Blank
            /\ \/ \A u \in Slots : u # t => slot'[u] = slot[u]
               \/ \E v \in LruSlots :
                    /\ BelongsTo(v, l) /\ slot[v].last <= slot[t].last
                    /\ slot'[v].last = slot[t].last
                    /\ \A u \in Slots : u # t /\ u # v => slot'[u] = slot[u]
        BY <1>5, <2>1, PromoteMoves
    <2>3. s # t
        BY <1>1
    <2>4. PICK v \in LruSlots :
            /\ slot[v].last <= slot[t].last
            /\ slot'[v].last = slot[t].last
            /\ \A u \in Slots : u # t /\ u # v => slot'[u] = slot[u]
        BY <1>1, <2>2, <2>3
    <2>5. s = v
        BY <1>1, <2>3, <2>4
    <2>6. slot[s].last \in Nat /\ slot[t].last \in Nat
        BY <1>1, HeapIsNotLru DEF IInv, TypeOK, Slot
    <2>7. QED BY <2>4, <2>5, <2>6
<1>6. CASE RssGuard
    <2>1. slot'[s].pl = NoBuf \/ slot'[s] = slot[s]
        <3>1. PICK D \in SUBSET LiveLru :
                slot' = [u \in Slots |->
                            IF u \in D THEN [slot[u] EXCEPT !.pl = NoBuf,
                                                            !.state = "empty"]
                            ELSE slot[u]]
            BY <1>6 DEF RssGuard
        <3>2. slot[s] \in Slot
            BY <1>1 DEF IInv, TypeOK
        <3>3. QED BY <1>1, <3>1, <3>2 DEF Slot
    <2>2. QED BY <2>1
<1>7. CASE Join
    BY <1>1, <1>7 DEF Join, Blank
<1>8. QED BY <1>3, <1>4, <1>5, <1>6, <1>7, StepShapes

\* Speculation never evicts a payload a resolve used.
THEOREM SpeculationNeverEvicts == Spec => SpecNeverEvicts
<1> DEFINE I == IInv /\ BufferOwnedOnce /\ BytesRight
           A == \A s \in LruSlots :
                    /\ slot[s].pl # NoBuf /\ slot[s].last > 0
                    /\ slot'[s].pl \notin {NoBuf, slot[s].pl}
                    => slot'[s].last >= slot[s].last
<1>1. Init => I
    BY InitIInv, InitOwns
<1>2. I /\ [Next]_vars => I'
    BY StepIInv, StepOwns
<1>3. I /\ [Next]_vars => [A]_vars
    BY StepNeverEvicts
<1>4. SpecNeverEvicts <=> [][A]_vars
    BY DEF SpecNeverEvicts
<1> HIDE DEF I, A
<1>5. QED BY <1>1, <1>2, <1>3, <1>4, PTL DEF Spec

-----------------------------------------------------------------------------
(* The reader: the compute thread and the views it holds.                  *)

\* A lookup finds a slot of its layer.
LEMMA LookupOfLayer ==
    ASSUME TypeOK, NEW l \in Layers, NEW e \in Experts,
           Lookup(l, e) # NoSlot
    PROVE  BelongsTo(Lookup(l, e), l)
<1>1. CASE WsPos(l, e) # {}
    <2>1. WsPos(l, e) \subseteq Nat
        BY LenProperties DEF TypeOK, WsPos
    <2>2. First(WsPos(l, e)) \in WsPos(l, e)
        BY <1>1, <2>1, FirstIn
    <2>3. QED BY <1>1, <2>2 DEF Lookup, WsPos, BelongsTo
<1>2. CASE WsPos(l, e) = {}
    <2>1. LruPos(l, e) # {} /\ LruPos(l, e) \subseteq Nat
        BY <1>2 DEF Lookup, LruPos
    <2>2. First(LruPos(l, e)) \in LruPos(l, e)
        BY <2>1, FirstIn
    <2>3. Lookup(l, e) = <<l, First(LruPos(l, e))>>
        BY <1>2 DEF Lookup
    <2>4. QED BY <2>2, <2>3 DEF LruPos, BelongsTo
<1>3. QED BY <1>1, <1>2

\* What a step is to the reader: nothing, an ask, an answer, an error or
\* the end of a layer.
Unseen ==
    /\ views' = views
    /\ cpc' \in Waiting <=> cpc \in Waiting
    /\ cpc \in Waiting => creq'.layer = creq.layer /\ creq'.eid = creq.eid
    /\ cpc' \in Moving => cpc \in Moving \/ views = {}
Asks(l, e) ==
    /\ cpc = "free" /\ cpc' \in Waiting
    /\ creq'.layer = l /\ creq'.eid = e
    /\ views' = views
    /\ OneLayer => \A v \in views : v.layer = l
Answered(l, e) ==
    /\ \/ cpc = "free" /\ (OneLayer => \A v \in views : v.layer = l)
       \/ cpc \in Waiting /\ creq.layer = l /\ creq.eid = e
    /\ cpc' = "free"
    /\ \E s \in Slots :
        /\ slot[s].state = "ready" /\ slot[s].eid = e /\ BelongsTo(s, l)
        /\ views' = views \cup {[layer |-> l, eid |-> e, pl |-> slot[s].pl]}
Errs == cpc' = "free" /\ views' = {}
Ends(l) ==
    /\ cpc = "free" /\ cpc' = "promote"
    /\ OneLayer => \A v \in views : v.layer = l
    /\ views' = {v \in views : v.layer # l}

\* A call of resolve, to the reader.
LEMMA ResolveSeen ==
    ASSUME IInv, NEW l \in Layers, NEW e \in Experts, Resolve(l, e)
    PROVE  Asks(l, e) \/ Answered(l, e) \/ Errs
<1> DEFINE s == Lookup(l, e)
<1>1. cpc = "free" /\ (OneLayer => \A v \in views : v.layer = l)
    BY DEF Resolve, ComputeFree
<1>2. ASSUME NEW t, NEW pc \in Waiting, Block(l, e, t, pc)
      PROVE  Asks(l, e)
    BY <1>1, <1>2 DEF Block, Asks
<1>3. AfterSubmit \in Waiting /\ "blocked" \in Waiting
    BY DEF AfterSubmit, Waiting
<1>4. CASE ResolveHit(l, e)
    <2>1. s # NoSlot /\ slot[s].state = "ready" /\ Deliver(l, e, s)
        BY <1>4 DEF ResolveHit
    <2>2. s \in Slots /\ slot[s].eid = e /\ BelongsTo(s, l)
        BY <2>1, LookupFacts, LookupOfLayer DEF IInv
    <2> HIDE DEF s
    <2>3. QED BY <1>1, <2>1, <2>2 DEF Deliver, Answered
<1>5. CASE ResolveJoin(l, e)
    <2>1. Block(l, e, s, "blocked")
        BY <1>5 DEF ResolveJoin
    <2> HIDE DEF s
    <2>2. QED BY <1>2, <1>3, <2>1
<1>6. CASE s # NoSlot /\ Resubmit(l, e, s)
    <2>1. Block(l, e, s, AfterSubmit)
        BY <1>6 DEF Resubmit
    <2> HIDE DEF s
    <2>2. QED BY <1>2, <1>3, <2>1
<1>7. CASE ResolveMiss(l, e)
    <2>1. Block(l, e, NewSlot, AfterSubmit) \/ Fail
        BY <1>7 DEF ResolveMiss
    <2>2. QED BY <1>2, <1>3, <2>1 DEF Fail, Errs
<1>8. QED BY <1>4, <1>5, <1>6, <1>7 DEF Resolve

\* A turn of wait_ready's loop, to the reader.
LEMMA WaitReadySeen ==
    ASSUME IInv, BytesRight, WaitReady
    PROVE  Unseen \/ Errs \/ \E l \in Layers, e \in Experts : Answered(l, e)
<1>1. PICK l \in Layers, e \in Experts, s \in Slots \cup {NoSlot} :
        l = creq.layer /\ e = creq.eid /\ s = creq.slot
    BY DEF WaitReady, RequestValid, IInv, TypeOK
<1>2. cpc \in Waiting
    BY DEF WaitReady, Waiting
<1>3. /\ slot[s].eid \in {e, NoEid}
      /\ \E k \in DOMAIN ws[l] : ws[l][k] = s
    BY <1>1 DEF WaitReady, IInv, RequestValid
<1>4. s \in Slots
    <2>1. ws[l] \in Seq(Heap) BY DEF IInv, TypeOK
    <2>2. QED BY <1>3, <2>1, ElementOfSeq, LenProperties, HeapIsNotLru
<1>5. ASSUME NEW pc \in Waiting, Block(l, e, s, pc)
      PROVE  Unseen
    <2>1. pc \notin Moving
        BY DEF Waiting, Moving
    <2>2. QED BY <1>1, <1>2, <1>5, <2>1 DEF Block, Unseen
<1>6. CASE slot[s].state = "ready" /\ Deliver(l, e, s)
    <2>1. BelongsTo(s, l)
        BY <1>3 DEF BelongsTo
    <2>2. slot[s].eid = e
        <3>1. slot[s].eid \in Nat
            BY <1>4, <1>6, <2>1, ConstAssumption DEF BytesRight
        <3>2. QED BY <1>3, <3>1 DEF NoEid
    <2>3. Answered(l, e)
        BY <1>1, <1>2, <1>4, <1>6, <2>1, <2>2 DEF Deliver, Answered
    <2>4. QED BY <2>3
<1>7. CASE Fail
    BY <1>7 DEF Fail, Errs
<1>8. CASE Resubmit(l, e, s)
    <2>1. AfterSubmit \in Waiting /\ Block(l, e, s, AfterSubmit)
        BY <1>8 DEF Resubmit, AfterSubmit, Waiting
    <2>2. QED BY <1>5, <2>1
<1>9. CASE Block(l, e, s, "blocked")
    BY <1>5, <1>9 DEF Waiting
<1>10. QED BY <1>1, <1>6, <1>7, <1>8, <1>9 DEF WaitReady

\* Every step, to the reader.
LEMMA StepSeen ==
    ASSUME IInv, BytesRight, [Next]_vars
    PROVE  \/ Unseen \/ Errs
           \/ \E l \in Layers, e \in Experts : Asks(l, e) \/ Answered(l, e)
           \/ \E l \in Layers : Ends(l)
<1> DEFINE Seen == \/ Unseen \/ Errs
                   \/ \E l \in Layers, e \in Experts :
                            Asks(l, e) \/ Answered(l, e)
                   \/ \E l \in Layers : Ends(l)
<1>1. views' = views /\ cpc' = cpc /\ creq' = creq => Unseen
    BY DEF Unseen
<1>2. views' = views /\ cpc' = WakeCompute /\ creq' = creq => Unseen
    BY DEF Unseen, WakeCompute, Waiting, Moving
<1>3. ASSUME NEW r \in Runners, RunnerStep(r)
      PROVE  Unseen
    BY <1>1, <1>2, <1>3
       DEF RunnerStep, GetBuf, AllocFail, ReadOk, ReadFail
<1>4. CASE ClientCall
    <2>1. ASSUME NEW l \in Layers, NEW e \in Experts,
                 Hint(l, e) \/ HintDemand(l, e)
          PROVE  Unseen
        BY <1>1, <2>1 DEF Hint, HintDemand, HintBody
    <2>2. ASSUME NEW l \in Layers, LayerEnd(l)
          PROVE  Ends(l)
        BY <2>2 DEF LayerEnd, ComputeFree, Ends
    <2>3. Close => Unseen
        BY DEF Close, ComputeFree, Unseen, Waiting, Moving
    <2>4. QED BY <1>4, <2>1, <2>2, <2>3, ResolveSeen DEF ClientCall
<1>5. CASE ComputeStep
    <2>1. Promote => Unseen
        BY DEF Promote, Unseen, Waiting, Moving
    <2>2. PromoteDone \/ RssGuard \/ Join => Unseen
        BY DEF PromoteDone, RssGuard, GuardTurn, Join, Unseen, Waiting,
               Moving
    <2>3. QED BY <1>5, <2>1, <2>2, WaitReadySeen DEF ComputeStep
<1>6. ASSUME NEW w \in Workers, WorkerStep(w)
      PROVE  Unseen
    <2>1. w \in Runners
        BY DEF Runners
    <2>2. Sleep(w) \/ Exit(w) \/ Pop(w) \/ Retire(w) => Unseen
        BY <1>1 DEF Sleep, Exit, Pop, Retire
    <2>3. QED BY <1>3, <1>6, <2>1, <2>2 DEF WorkerStep
<1>7. ASSUME NEW c \in Callers, RunnerStep(c)
      PROVE  Unseen
    BY <1>3, <1>7 DEF Runners
<1>8. Spurious => Unseen
    BY DEF Spurious, Unseen, Waiting, Moving
<1>9. Closed \/ UNCHANGED vars => Unseen
    BY <1>1 DEF Closed, vars
<1>10. QED BY <1>4, <1>5, <1>6, <1>7, <1>8, <1>9 DEF Next

\* Payloads of READY slots only move or go while the compute thread is in
\* layer_end or close.
LEMMA ResidentsStayMeanwhile ==
    ASSUME IInv, [Next]_vars, cpc \notin Moving
    PROVE  ResidentsStay
<1>1. ~(Promote \/ RssGuard \/ Join)
    BY DEF Promote, RssGuard, GuardTurn, Join, Moving
<1>2. ASSUME NEW r \in Runners, GetBuf(r)
      PROVE  ResidentsStay
    BY <1>2, UntouchedStay DEF GetBuf
<1>3. ASSUME NEW r \in Runners, ReadOk(r) \/ ReadFail(r)
      PROVE  ResidentsStay
    <2>1. r \in Running /\ rjob[r] \in Job
        BY <1>3 DEF ReadOk, ReadFail, Running, IInv, RunnersHold
    <2>2. PICK t \in Slots : t = rjob[r].slot /\ slot[t].state = "loading"
        BY <2>1 DEF IInv, JobOwnsSlot, JobsTarget, Targets, Job
    <2>3. \A s \in Slots : s # t => slot'[s] = slot[s]
        BY <1>3, <2>2 DEF ReadOk, ReadFail, IInv, TypeOK
    <2>4. ws' = ws
        BY <1>3 DEF ReadOk, ReadFail
    <2>5. QED BY <2>2, <2>3, <2>4 DEF ResidentsStay, BelongsTo
<1>4. QED BY <1>1, <1>2, <1>3, StepShapes

\* The views of a reader that holds those of one layer at a time are backed
\* by READY slots throughout.
LEMMA StepViews ==
    ASSUME IInv, BytesRight, ViewsBacked, ViewsOfOneLayer, OneLayer,
           [Next]_vars
    PROVE  ViewsBacked' /\ ViewsOfOneLayer'
<1>1. views \in SUBSET [layer : Layers, eid : Experts, pl : Bufs]
    BY DEF IInv, TypeOK
<1>2. cpc \in Moving => views = {}
    BY DEF ViewsOfOneLayer
<1>3. cpc \notin Moving => ResidentsStay
    BY ResidentsStayMeanwhile
<1>4. \A v \in views : \E s \in Slots : Backs(s, v)'
    <2>1. ASSUME NEW v \in views, NEW s \in Slots, Backs(s, v)
          PROVE  Backs(s, v)'
        <3>1. v.layer \in Layers /\ ResidentsStay
            BY <1>1, <1>2, <1>3
        <3>2. QED BY <2>1, <3>1 DEF Backs, ResidentsStay
    <2>2. QED BY <2>1 DEF ViewsBacked
<1>5. CASE Unseen
    BY <1>2, <1>4, <1>5 DEF Unseen, ViewsBacked, ViewsOfOneLayer
<1>6. ASSUME NEW l \in Layers, NEW e \in Experts, Asks(l, e)
      PROVE  ViewsBacked' /\ ViewsOfOneLayer'
    <2>1. cpc' \notin Moving
        BY <1>6 DEF Asks, Waiting, Moving
    <2>2. QED BY <1>4, <1>6, <2>1 DEF Asks, ViewsBacked, ViewsOfOneLayer
<1>7. ASSUME NEW l \in Layers, NEW e \in Experts, Answered(l, e)
      PROVE  ViewsBacked' /\ ViewsOfOneLayer'
    <2>1. PICK s \in Slots :
            /\ slot[s].state = "ready" /\ slot[s].eid = e /\ BelongsTo(s, l)
            /\ views' = views \cup
                    {[layer |-> l, eid |-> e, pl |-> slot[s].pl]}
        BY <1>7 DEF Answered
    <2>2. cpc' \notin Moving /\ cpc' \notin Waiting /\ cpc \notin Moving
        BY <1>7 DEF Answered, Waiting, Moving
    <2>3. \A v \in views : v.layer = l
        BY <1>7 DEF Answered, ViewsOfOneLayer
    <2>4. ViewsOfOneLayer'
        BY <2>1, <2>2, <2>3 DEF ViewsOfOneLayer
    <2>5. PICK v : v = [layer |-> l, eid |-> e, pl |-> slot[s].pl]
        OBVIOUS
    <2>6. Backs(s, v)'
        BY <1>3, <2>1, <2>2, <2>5 DEF ResidentsStay, Backs
    <2>7. ViewsBacked'
        BY <1>4, <2>1, <2>5, <2>6 DEF ViewsBacked
    <2>8. QED BY <2>4, <2>7
<1>8. CASE Errs
    BY <1>8 DEF Errs, ViewsBacked, ViewsOfOneLayer, Waiting
<1>9. ASSUME NEW l \in Layers, Ends(l)
      PROVE  ViewsBacked' /\ ViewsOfOneLayer'
    BY <1>9 DEF Ends, ViewsBacked, ViewsOfOneLayer, Waiting
<1>10. QED BY <1>5, <1>6, <1>7, <1>8, <1>9, StepSeen

\* Nothing is read yet when the cache is open.
LEMMA InitViews == Init => ViewsBacked /\ ViewsOfOneLayer
BY DEF Init, ViewsBacked, ViewsOfOneLayer, Waiting, Moving

\* The whole invariant of a reader of one layer at a time.
ReaderIInv == IInv /\ ReaderInv

LEMMA ReaderInductive ==
    /\ Init => ReaderIInv
    /\ ReaderIInv /\ [Next]_vars => ReaderIInv'
<1>1. Init => ReaderIInv
    BY InitIInv, InitOwns, InitViews DEF ReaderIInv, ReaderInv
<1>2. ReaderIInv /\ [Next]_vars => ReaderIInv'
    BY StepIInv, StepOwns, StepViews DEF ReaderIInv, ReaderInv
<1>3. QED BY <1>1, <1>2

\* The bytes behind a view stay the weights of its expert until the
\* layer_end that ends it.
THEOREM ViewsHold ==
    ASSUME OneLayer
    PROVE  Spec => []ViewsStable
<1>1. ReaderIInv => ViewsStable
    <2>1. SUFFICES ASSUME ReaderIInv, NEW v \in views
                   PROVE  /\ content[v.pl] = <<v.layer, v.eid>>
                          /\ \E s \in Slots : slot[s].pl = v.pl
                                              /\ slot[s].state = "ready"
        BY DEF ViewsStable
    <2>2. PICK s \in Slots : Backs(s, v)
        BY <2>1 DEF ReaderIInv, ReaderInv, ViewsBacked
    <2>3. v.layer \in Layers
        BY <2>1 DEF ReaderIInv, IInv, TypeOK
    <2>4. QED BY <2>1, <2>2, <2>3 DEF Backs, ReaderIInv, ReaderInv, BytesRight
<1>2. QED BY <1>1, ReaderInductive, PTL DEF Spec

-----------------------------------------------------------------------------
(* The cache implements the expert store.                                  *)

\* The answers the reader holds are the experts of its views, with their
\* own bytes.
LEMMA AnswersAreRight ==
    ASSUME ReaderIInv, OneLayer
    PROVE  Answers = {Store!Answer(v.layer, v.eid) : v \in views}
<1>1. ASSUME NEW v \in views
      PROVE  content[v.pl] = <<v.layer, v.eid>>
    <2>1. PICK s \in Slots : Backs(s, v)
        BY DEF ReaderIInv, ReaderInv, ViewsBacked
    <2>2. v.layer \in Layers
        BY DEF ReaderIInv, IInv, TypeOK
    <2>3. QED BY <2>1, <2>2 DEF Backs, ReaderIInv, ReaderInv, BytesRight
<1>2. QED BY <1>1 DEF Answers, Store!Answer

\* Every step of the cache is one of the store, or none.
LEMMA StepIsTheStores ==
    ASSUME ReaderIInv, [Next]_vars, OneLayer,
           MaxReadFaults + MaxAllocFaults > 0
    PROVE  [Store!Next]_(Store!vars)
<1>1. ReaderIInv'
    BY ReaderInductive
<1>2. /\ Answers = {Store!Answer(v.layer, v.eid) : v \in views}
      /\ Answers' = {Store!Answer(v.layer, v.eid) : v \in views'}
    <2>1. (Answers = {Store!Answer(v.layer, v.eid) : v \in views})'
        BY <1>1, AnswersAreRight, PTL
    <2>2. QED BY <2>1, AnswersAreRight
<1>3. /\ \A l \in Layers, e \in Experts : <<l, e>> # <<>>
      /\ "free" \notin Waiting
    BY DEF Waiting
<1>4. Asked = IF cpc \in Waiting THEN <<creq.layer, creq.eid>> ELSE <<>>
    BY DEF Asked, Waiting
<1>5. Asked' = IF cpc' \in Waiting THEN <<creq'.layer, creq'.eid>> ELSE <<>>
    BY DEF Asked, Waiting
<1>6. CASE Unseen
    <2>1. Answers' = Answers
        BY <1>2, <1>6 DEF Unseen
    <2>2. Asked' = Asked
        BY <1>4, <1>5, <1>6 DEF Unseen
    <2>3. QED BY <2>1, <2>2 DEF Store!vars
<1>7. ASSUME NEW l \in Layers, NEW e \in Experts, Asks(l, e)
      PROVE  Store!Ask(l, e)
    <2>1. Answers' = Answers
        BY <1>2, <1>7 DEF Asks
    <2>2. Asked = <<>> /\ Asked' = <<l, e>>
        BY <1>3, <1>4, <1>5, <1>7 DEF Asks
    <2>3. QED BY <2>1, <2>2 DEF Store!Ask
<1>8. ASSUME NEW l \in Layers, NEW e \in Experts, Answered(l, e)
      PROVE  Store!Serve(l, e)
    <2>1. PICK v : v.layer = l /\ v.eid = e /\ views' = views \cup {v}
        BY <1>8 DEF Answered
    <2>2. Answers' = Answers \cup {Store!Answer(l, e)}
        <3>1. Answers' = {Store!Answer(w.layer, w.eid) : w \in views}
                         \cup {Store!Answer(v.layer, v.eid)}
            BY <1>2, <2>1
        <3>2. QED BY <1>2, <2>1, <3>1
    <2>3. Asked \in {<<>>, <<l, e>>} /\ Asked' = <<>>
        BY <1>3, <1>4, <1>5, <1>8 DEF Answered
    <2>4. QED BY <2>2, <2>3 DEF Store!Serve
<1>9. CASE Errs
    <2>1. Answers' = {}
        BY <1>2, <1>9 DEF Errs
    <2>2. Asked' = <<>>
        BY <1>3, <1>5, <1>9 DEF Errs
    <2>3. QED BY <2>1, <2>2 DEF Store!Next, Store!Fail
<1>10. ASSUME NEW l \in Layers, Ends(l)
       PROVE  Store!Release(l)
    <2>1. \A v \in views : Store!Answer(v.layer, v.eid).ask[1] = v.layer
        BY DEF Store!Answer
    <2>2. views' = {v \in views : v.layer # l}
        BY <1>10 DEF Ends
    <2>3. Answers' = {h \in Answers : h.ask[1] # l}
        <3> HIDE DEF Store!Answer
        <3>1. QED BY <1>2, <2>1, <2>2
    <2>4. Asked = <<>> /\ Asked' = <<>>
        BY <1>3, <1>4, <1>5, <1>10 DEF Ends, Waiting
    <2>5. QED BY <2>3, <2>4 DEF Store!Release
<1>11. QED BY <1>6, <1>7, <1>8, <1>9, <1>10, StepSeen
           DEF Store!Next, ReaderIInv, ReaderInv

\* A resolve always returns the real weights, or an error when a read or an
\* allocation may fail: the cache, seen by its reader, is the expert store.
THEOREM CacheIsAStore ==
    ASSUME OneLayer, MaxReadFaults + MaxAllocFaults > 0
    PROVE  Spec => RefinesStore
<1>1. Init => Store!Init
    BY DEF Init, Store!Init, Asked, Answers
<1>2. ReaderIInv /\ [Next]_vars => [Store!Next]_(Store!vars)
    BY StepIsTheStores
<1>3. RefinesStore <=> Store!Spec
    BY DEF RefinesStore
<1>4. QED BY <1>1, <1>2, <1>3, ReaderInductive, PTL DEF Spec, Store!Spec
-----------------------------------------------------------------------------
(***************************************************************************)
(* No expert is loaded twice.                                              *)
(***************************************************************************)

\* Slot s of layer l has expert e, or is about to: an entry of the working
\* set, or an LRU slot with its payload.
Copy(l, s, e) ==
    BelongsTo(s, l) /\ slot[s].eid = e /\ (s \in Heap \/ slot[s].pl # NoBuf)
OneCopy(l, e) ==
    \A s, t \in Slots : Copy(l, s, e) /\ Copy(l, t, e) => s = t

\* An expert has one working-set entry at most, ...
OneEntry ==
    \A l \in Layers, e \in Experts, s, t \in Heap :
        Copy(l, s, e) /\ Copy(l, t, e) => s = t

\* ... and a step gives it no second copy unless its one copy is hidden.
CopyStep ==
    /\ OneEntry'
    /\ \A l \in Layers, e \in Experts :
          OneCopy(l, e) /\ ~Hidden(l, e) => OneCopy(l, e)'

\* A step that gives no slot an expert, and leaves the LRU slots theirs.
NoneNamed ==
    /\ \A s \in Slots, l \in Layers : BelongsTo(s, l)' => BelongsTo(s, l)
    /\ \A s \in Slots : slot'[s].eid \in {slot[s].eid, NoEid}
    /\ \A s \in LruSlots : slot'[s].eid = slot[s].eid /\ slot'[s].pl = slot[s].pl

\* A lookup for expert e of layer l that misses: no entry has the expert, and
\* no LRU slot either unless it is hidden.
NoneFound(l, e) ==
    /\ \A s \in Heap : ~Copy(l, s, e)
    /\ ~Hidden(l, e) => \A s \in Slots : ~Copy(l, s, e)

\* A step that adds an entry for expert e, which was not found.
EntryAdded(l, e) ==
    /\ NoneFound(l, e)
    /\ \E n \in Heap :
          /\ slot'[n].eid = e /\ \A m \in Layers : BelongsTo(n, m)' => m = l
          /\ \A s \in Slots : s # n =>
                /\ slot'[s].eid = slot[s].eid /\ slot'[s].pl = slot[s].pl
                /\ \A m \in Layers : BelongsTo(s, m)' => BelongsTo(s, m)

\* The id of an empty slot, -1, is no expert's.
LEMMA NoEidIsNone == \A e \in Experts : e # NoEid
BY ConstAssumption DEF NoEid

\* Fewer copies are no more copies.
LEMMA FewerKeeps ==
    ASSUME OneEntry,
           \A l \in Layers, e \in Experts, s \in Slots : Copy(l, s, e)' => Copy(l, s, e)
    PROVE  CopyStep
<1>1. \A s \in Heap : s \in Slots
    BY HeapIsNotLru DEF Slots
<1>2. OneEntry'
    BY <1>1 DEF OneEntry
<1>3. \A l \in Layers, e \in Experts : OneCopy(l, e) => OneCopy(l, e)'
    BY DEF OneCopy
<1>4. QED
    BY <1>2, <1>3 DEF CopyStep

\* Without a new name there is no new copy.
LEMMA NoneNamedKeeps ==
    ASSUME OneEntry, NoneNamed
    PROVE  CopyStep
<1>1. ASSUME NEW l \in Layers, NEW e \in Experts, NEW s \in Slots, Copy(l, s, e)'
      PROVE  Copy(l, s, e)
    <2>1. slot[s].eid = e
        BY <1>1, NoEidIsNone DEF Copy, NoneNamed
    <2>2. s \in Heap \/ s \in LruSlots
        BY DEF Slots
    <2>3. QED
        BY <1>1, <2>1, <2>2 DEF Copy, NoneNamed
<1>2. QED
    BY <1>1, FewerKeeps

\* A new entry is the only one of an expert that had none, and its only copy
\* when it had no hidden one.
LEMMA EntryAddedKeeps ==
    ASSUME OneEntry, NEW l \in Layers, NEW e \in Experts, EntryAdded(l, e)
    PROVE  CopyStep
<1>1. PICK n \in Heap :
          /\ slot'[n].eid = e /\ \A m \in Layers : BelongsTo(n, m)' => m = l
          /\ \A s \in Slots : s # n =>
                /\ slot'[s].eid = slot[s].eid /\ slot'[s].pl = slot[s].pl
                /\ \A m \in Layers : BelongsTo(s, m)' => BelongsTo(s, m)
    BY DEF EntryAdded
<1>2. ASSUME NEW m \in Layers, NEW d \in Experts, NEW s \in Slots, s # n, Copy(m, s, d)'
      PROVE  Copy(m, s, d)
    BY <1>1, <1>2 DEF Copy
<1>3. ASSUME NEW m \in Layers, NEW d \in Experts, Copy(m, n, d)'
      PROVE  m = l /\ d = e
    BY <1>1, <1>3 DEF Copy
<1>4. ASSUME NEW m \in Layers, NEW d \in Experts, NEW s \in Slots, NEW t \in Slots,
             Copy(m, s, d)', Copy(m, t, d)',
             \A u, v \in {s, t} : Copy(m, u, d) /\ Copy(m, v, d) => u = v,
             (m = l /\ d = e) => \A u \in {s, t} : ~Copy(m, u, d)
      PROVE  s = t
    <2>1. CASE s # n /\ t # n
        BY <1>2, <1>4, <2>1
    <2>2. CASE s = n /\ t # n
        BY <1>2, <1>3, <1>4, <2>2
    <2>3. CASE s # n /\ t = n
        BY <1>2, <1>3, <1>4, <2>3
    <2>4. QED
        BY <2>1, <2>2, <2>3
<1>5. OneEntry'
    <2>1. SUFFICES ASSUME NEW m \in Layers, NEW d \in Experts, NEW s \in Heap, NEW t \in Heap,
                          Copy(m, s, d)', Copy(m, t, d)'
                   PROVE  s = t
        BY DEF OneEntry
    <2>2. s \in Slots /\ t \in Slots
        BY HeapIsNotLru DEF Slots
    <2>3. \A u, v \in {s, t} : Copy(m, u, d) /\ Copy(m, v, d) => u = v
        BY DEF OneEntry
    <2>4. (m = l /\ d = e) => \A u \in {s, t} : ~Copy(m, u, d)
        BY DEF EntryAdded, NoneFound
    <2>5. QED
        BY <1>4, <2>1, <2>2, <2>3, <2>4
<1>6. ASSUME NEW m \in Layers, NEW d \in Experts, OneCopy(m, d), ~Hidden(m, d)
      PROVE  OneCopy(m, d)'
    <2>1. SUFFICES ASSUME NEW s \in Slots, NEW t \in Slots, Copy(m, s, d)', Copy(m, t, d)'
                   PROVE  s = t
        BY DEF OneCopy
    <2>2. \A u, v \in {s, t} : Copy(m, u, d) /\ Copy(m, v, d) => u = v
        BY <1>6 DEF OneCopy
    <2>3. (m = l /\ d = e) => \A u \in {s, t} : ~Copy(m, u, d)
        BY <1>6 DEF EntryAdded, NoneFound
    <2>4. QED
        BY <1>4, <2>1, <2>2, <2>3
<1>7. QED
    BY <1>5, <1>6 DEF CopyStep

\* A lookup misses only what has no copy, or a hidden one.
LEMMA MissIsNone ==
    ASSUME IInv, NEW l \in Layers, NEW e \in Experts, Lookup(l, e) = NoSlot
    PROVE  NoneFound(l, e)
<1>1. ws[l] \in Seq(Heap) /\ NoSlot \notin Slots
    BY ConstAssumption DEF IInv, TypeOK
<1>2. WsPos(l, e) = {}
    <2>1. SUFFICES ASSUME WsPos(l, e) # {}
                   PROVE  FALSE
        OBVIOUS
    <2>2. First(WsPos(l, e)) \in WsPos(l, e)
        <3>1. WsPos(l, e) \subseteq Nat
            BY <1>1, LenProperties DEF WsPos
        <3>2. QED
            BY <2>1, <3>1, FirstIn
    <2>3. ws[l][First(WsPos(l, e))] \in Heap
        BY <1>1, <2>2, ElementOfSeq, LenProperties DEF WsPos
    <2>4. QED
        BY <1>1, <2>1, <2>3, HeapIsNotLru DEF Lookup
<1>3. ASSUME NEW s \in Heap, Copy(l, s, e)
      PROVE  FALSE
    <2>1. \E k \in DOMAIN ws[l] : ws[l][k] = s
        BY <1>3, HeapIsNotLru DEF Copy, BelongsTo, LruSlots
    <2>2. QED
        BY <1>2, <1>3, <2>1 DEF WsPos, Copy
<1>4. ASSUME NEW s \in LruSlots, Copy(l, s, e)
      PROVE  Hidden(l, e)
    <2>1. s \notin Heap /\ slot[s].pl # NoBuf /\ slot[s].eid = e
        BY <1>4, HeapIsNotLru DEF Copy
    <2>2. PICK i \in 1..NSlots : s = <<l, i>>
        <3>1. \A k \in DOMAIN ws[l] : ws[l][k] \in Heap
            BY <1>1, ElementOfSeq, LenProperties
        <3>2. QED
            BY <1>4, <2>1, <3>1 DEF Copy, BelongsTo
    <2>3. i \in LruPos(l, e) /\ i \in LivePos(l, e) /\ LruPos(l, e) \subseteq 1..NSlots
        BY <2>1, <2>2 DEF LruPos, LivePos
    <2> DEFINE f == First(LruPos(l, e))
    <2>4. f \in 1..NSlots
        <3>1. f \in LruPos(l, e)
            BY <2>3, FirstIn, ConstAssumption
        <3>2. QED
            BY <2>3, <3>1
    <2>5. slot[<<l, f>>].pl = NoBuf
        BY <1>1, <1>2, <2>3, <2>4 DEF Lookup, LruSlots, Slots
    <2>6. QED
        BY <2>3, <2>5 DEF Hidden, LivePos
<1>5. QED
    BY <1>3, <1>4 DEF NoneFound, Slots

-----------------------------------------------------------------------------
\* Nothing of a slot but what no copy depends on.
LEMMA SlotChanges ==
    ASSUME IInv, NEW s \in Slots, NEW r \in Slot, slot' = [slot EXCEPT ![s] = r], ws' = ws,
           r.eid \in {slot[s].eid, NoEid},
           s \in Heap \/ (r.eid = slot[s].eid /\ r.pl = slot[s].pl)
    PROVE  NoneNamed
<1>1. slot'[s] = r /\ \A t \in Slots : t # s => slot'[t] = slot[t]
    BY DEF IInv, TypeOK
<1>2. \A t \in Slots, l \in Layers : BelongsTo(t, l)' => BelongsTo(t, l)
    BY DEF BelongsTo
<1>3. \A t \in LruSlots : t \in Slots /\ t \notin Heap
    BY HeapIsNotLru DEF Slots
<1>4. QED
    BY <1>1, <1>2, <1>3 DEF NoneNamed

\* A step that touches neither slots nor working sets gives nothing a name.
LEMMA NothingChanges ==
    ASSUME slot' = slot, ws' = ws
    PROVE  NoneNamed
BY DEF NoneNamed, BelongsTo, Slots

\* Submit makes an entry LOADING and leaves it its expert.
LEMMA SubmitNames ==
    ASSUME IInv, NEW c \in Callers, NEW l \in Layers, NEW e \in Experts, NEW s \in Heap,
           NEW r \in Slot, r.eid = slot[s].eid, Submit(c, l, e, s, r), ws' = ws
    PROVE  NoneNamed
<1> DEFINE q == [r EXCEPT !.state = "loading", !.gen = gen]
<1>1. q \in Slot /\ q.eid = slot[s].eid /\ s \in Slots
    <2>1. gen \in Nat BY DEF IInv, TypeOK
    <2>2. QED BY <2>1, HeapIsNotLru DEF Slot, State
<1>2. slot' = [slot EXCEPT ![s] = q]
    BY DEF Submit
<1> HIDE DEF q
<1>3. QED
    BY <1>1, <1>2, SlotChanges

\* ws_add with the fill of the new entry.
LEMMA NewAdds ==
    ASSUME IInv, NEW c \in Callers, NEW l \in Layers, NEW e \in Experts, NEW hot \in BOOLEAN,
           FreeHeap # {}, ws' = [ws EXCEPT ![l] = Append(@, NewSlot)],
           Submit(c, l, e, NewSlot, NewEntry(e, hot)), NoneFound(l, e)
    PROVE  EntryAdded(l, e)
<1> DEFINE q == [NewEntry(e, hot) EXCEPT !.state = "loading", !.gen = gen]
<1>1. q.eid = e
    BY DEF NewEntry, Blank
<1>2. slot' = [slot EXCEPT ![NewSlot] = q]
    BY DEF Submit
<1>3. PICK n : n = NewSlot
    OBVIOUS
<1>4. n \in Heap /\ ~InWs(n) /\ n \in Slots
    BY <1>3, NewSlotFacts, HeapIsNotLru
<1> HIDE DEF q
<1>5. slot'[n].eid = e /\ \A s \in Slots : s # n => slot'[s] = slot[s]
    BY <1>1, <1>2, <1>3, <1>4 DEF IInv, TypeOK
<1>6. \A s \in Slots, m \in Layers : s # n => (BelongsTo(s, m)' <=> BelongsTo(s, m))
    BY <1>3, WsGrowsByOne
<1>7. \A m \in Layers : BelongsTo(n, m)' => m = l
    <2>1. SUFFICES ASSUME NEW m \in Layers, m # l, BelongsTo(n, m)'
                   PROVE  FALSE
        OBVIOUS
    <2>2. ws'[m] = ws[m]
        BY <2>1 DEF IInv, TypeOK
    <2>3. n \notin LruSlots
        BY <1>4, HeapIsNotLru
    <2>4. QED
        BY <1>4, <2>1, <2>2, <2>3 DEF BelongsTo, InWs, LruSlots
<1>8. QED
    BY <1>4, <1>5, <1>6, <1>7 DEF EntryAdded

\* A boost is about the hot flag only.
LEMMA BoostNames ==
    ASSUME IInv, NEW s \in Slots, slot' = [slot EXCEPT ![s].hot = TRUE], ws' = ws
    PROVE  NoneNamed
<1> DEFINE r == [slot[s] EXCEPT !.hot = TRUE]
<1>1. slot[s] \in Slot
    BY DEF IInv, TypeOK
<1>2. r \in Slot /\ r.eid = slot[s].eid /\ r.pl = slot[s].pl
    BY <1>1, SlotUpdates DEF Slot
<1>3. slot' = [slot EXCEPT ![s] = r]
    OBVIOUS
<1> HIDE DEF r
<1>4. QED
    BY <1>2, <1>3, SlotChanges

\* A hint adds an entry when a lookup found none, and only then.
LEMMA HintNames ==
    ASSUME IInv, NEW c \in Callers, NEW l \in Layers, NEW e \in Experts,
           NEW demand \in BOOLEAN, HintBody(c, l, e, demand)
    PROVE  NoneNamed \/ EntryAdded(l, e)
<1>1. CASE HintNew(c, l, e, demand)
    BY <1>1, MissIsNone, NewAdds DEF HintNew
<1>2. CASE HintAgain(c, l, e, demand)
    <2> DEFINE s == Lookup(l, e)
               r == [slot[s] EXCEPT !.hot = demand \/ @]
    <2>1. /\ s # NoSlot /\ slot[s].state = "empty" /\ ws' = ws
          /\ Submit(c, l, e, s, r)
        BY <1>2 DEF HintAgain, Idle
    <2>2. s \in Heap
        BY <2>1, IdleIsInWs
    <2>3. r \in Slot /\ r.eid = slot[s].eid
        <3>1. slot[s] \in Slot
            BY <2>2, HeapIsNotLru DEF IInv, TypeOK
        <3> HIDE DEF s
        <3>2. QED BY <3>1 DEF Slot
    <2> HIDE DEF s, r
    <2>4. QED
        BY <2>1, <2>2, <2>3, SubmitNames
<1>3. CASE HintBoost(l, e, demand)
    <2> DEFINE s == Lookup(l, e)
    <2>1. s \in Slots /\ slot' = [slot EXCEPT ![s].hot = TRUE] /\ ws' = ws
        BY <1>3, LookupFacts DEF HintBoost, IInv
    <2> HIDE DEF s
    <2>2. QED
        BY <2>1, BoostNames
<1>4. CASE HintNothing(l, e, demand)
    BY <1>4, NothingChanges DEF HintNothing
<1>5. QED
    BY <1>1, <1>2, <1>3, <1>4 DEF HintBody

\* A delivery is about the time of last use only.
LEMMA DeliverNames ==
    ASSUME IInv, NEW l \in Layers, NEW e \in Experts, NEW s \in Slots, Deliver(l, e, s)
    PROVE  NoneNamed
<1> DEFINE r == [slot[s] EXCEPT !.last = clock + 1]
<1>1. slot[s] \in Slot /\ clock + 1 \in Nat
    BY DEF IInv, TypeOK
<1>2. r \in Slot /\ r.eid = slot[s].eid /\ r.pl = slot[s].pl
    BY <1>1, SlotUpdates DEF Slot
<1>3. slot' = [slot EXCEPT ![s] = r] /\ ws' = ws
    BY DEF Deliver
<1> HIDE DEF r
<1>4. QED
    BY <1>2, <1>3, SlotChanges

\* A demand that finds a failed fill queues the entry again, under its name.
LEMMA ResubmitNames ==
    ASSUME IInv, NEW l \in Layers, NEW e \in Experts, NEW s \in Heap, Resubmit(l, e, s)
    PROVE  NoneNamed
<1> DEFINE r == [slot[s] EXCEPT !.hot = TRUE]
<1>0. slot[s] \in Slot
    BY HeapIsNotLru DEF IInv, TypeOK
<1>1. r \in Slot /\ r.eid = slot[s].eid /\ Compute \in Callers
    BY <1>0, SlotUpdates DEF Callers, Slot
<1>2. ws' = ws /\ Submit(Compute, l, e, s, r)
    BY DEF Resubmit
<1> HIDE DEF r
<1>3. QED
    BY <1>1, <1>2, SubmitNames

\* A resolve adds an entry when a lookup found none, and only then.
LEMMA ResolveNames ==
    ASSUME IInv, NEW l \in Layers, NEW e \in Experts, Resolve(l, e)
    PROVE  NoneNamed \/ EntryAdded(l, e)
<1> DEFINE s == Lookup(l, e)
<1>1. s # NoSlot => s \in Slots
    BY LookupFacts DEF IInv
<1>2. s # NoSlot /\ slot[s].state # "ready" => s \in Heap
    BY IdleIsInWs
<1>3. CASE ResolveHit(l, e)
    <2>1. s # NoSlot /\ Deliver(l, e, s)
        BY <1>3 DEF ResolveHit
    <2> HIDE DEF s
    <2>2. QED BY <1>1, <2>1, DeliverNames
<1>4. CASE ResolveJoin(l, e)
    <2>1. s \in Slots /\ slot' = [slot EXCEPT ![s].hot = TRUE] /\ ws' = ws
        BY <1>1, <1>4 DEF ResolveJoin
    <2> HIDE DEF s
    <2>2. QED BY <2>1, BoostNames
<1>5. CASE s # NoSlot /\ Resubmit(l, e, s)
    <2>1. slot[s].state # "ready"
        BY <1>5 DEF Resubmit, Idle
    <2> HIDE DEF s
    <2>2. QED BY <1>2, <1>5, <2>1, ResubmitNames
<1>6. CASE ResolveMiss(l, e)
    <2>1. CASE Fail
        BY <2>1, NothingChanges DEF Fail
    <2>2. CASE /\ FreeHeap # {}
               /\ ws' = [ws EXCEPT ![l] = Append(@, NewSlot)]
               /\ Submit(Compute, l, e, NewSlot, NewEntry(e, TRUE))
        BY <1>6, <2>2, MissIsNone, NewAdds DEF ResolveMiss, Callers
    <2>3. QED BY <1>6, <2>1, <2>2 DEF ResolveMiss
<1>7. QED BY <1>3, <1>4, <1>5, <1>6 DEF Resolve

\* A waiter takes what arrived, fails or queues its own entry again.
LEMMA WaitReadyNames ==
    ASSUME IInv, WaitReady
    PROVE  NoneNamed
<1>1. PICK l \in Layers, e \in Experts, s \in Slots \cup {NoSlot} :
        l = creq.layer /\ e = creq.eid /\ s = creq.slot
    BY DEF WaitReady, RequestValid, IInv, TypeOK
<1>2. s \in Heap /\ s \in Slots
    <2>1. ws[l] \in Seq(Heap) BY DEF IInv, TypeOK
    <2>2. \E k \in DOMAIN ws[l] : ws[l][k] = s
        BY <1>1 DEF WaitReady, IInv, RequestValid
    <2>3. QED BY <2>1, <2>2, ElementOfSeq, LenProperties, HeapIsNotLru
<1>3. CASE Deliver(l, e, s)
    BY <1>2, <1>3, DeliverNames
<1>4. CASE Fail
    BY <1>4, NothingChanges DEF Fail
<1>5. CASE Resubmit(l, e, s)
    BY <1>2, <1>5, ResubmitNames
<1>6. CASE UNCHANGED <<slot, ws>>
    BY <1>6, NothingChanges
<1>7. QED BY <1>1, <1>3, <1>4, <1>5, <1>6 DEF WaitReady

\* A fill that ends, well or not, leaves the slot its expert or takes it away.
LEMMA FillNames ==
    ASSUME IInv, NEW r \in Runners, RunnerStep(r)
    PROVE  NoneNamed
<1>1. CASE GetBuf(r)
    BY <1>1, NothingChanges DEF GetBuf
<1>2. CASE AllocFail(r) \/ ReadOk(r) \/ ReadFail(r)
    <2>1. PICK j \in Job : j = rjob[r] /\ r \in Running
        BY <1>2 DEF IInv, AllocFail, ReadOk, ReadFail, RunnersHold, Running
    <2>2. j.slot \in Heap
        <3>1. ws[j.layer] \in Seq(Heap)
            BY DEF IInv, TypeOK, Job
        <3>2. \E k \in DOMAIN ws[j.layer] : ws[j.layer][k] = j.slot
            BY <2>1 DEF IInv, JobOwnsSlot, JobsTarget, Targets
        <3>3. QED
            BY <3>1, <3>2, ElementOfSeq, LenProperties
    <2>3. PICK s \in Heap : s = j.slot
        BY <2>2
    <2>4. s \in Slots /\ s \notin LruSlots
        BY HeapIsNotLru
    <2>5. /\ ws' = ws /\ slot'[s].eid \in {slot[s].eid, NoEid}
          /\ \A t \in Slots : t # s => slot'[t] = slot[t]
        <3>1. CASE AllocFail(r)
            BY <2>1, <2>3, <2>4, <3>1 DEF AllocFail, Drop, IInv, TypeOK, Slot
        <3>2. CASE ReadOk(r)
            <4>1. PICK b \in Bufs : b = rbuf[r]
                BY <3>2 DEF IInv, ReadOk, RunnersHold
            <4>2. Claims(j)
                BY <2>1 DEF IInv, JobOwnsSlot, JobsTarget, Targets, Claims
            <4>3. /\ slot' = [slot EXCEPT ![s].pl = b, ![s].state = "ready",
                                          ![s].hot = FALSE]
                  /\ ws' = ws
                BY <2>1, <2>3, <3>2, <4>1, <4>2 DEF ReadOk
            <4>4. slot[s] \in Slot /\ slot \in [Slots -> Slot]
                BY <2>4 DEF IInv, TypeOK
            <4>5. slot'[s] = [slot[s] EXCEPT !.pl = b, !.state = "ready",
                                             !.hot = FALSE]
                BY <2>4, <4>3, <4>4
            <4>6. QED
                BY <2>4, <4>3, <4>4, <4>5 DEF Slot
        <3>3. CASE ReadFail(r)
            BY <2>1, <2>3, <2>4, <3>3 DEF ReadFail, IInv, TypeOK, Slot
        <3>4. QED
            BY <1>2, <3>1, <3>2, <3>3
    <2>6. \A t \in Slots, l \in Layers : BelongsTo(t, l)' => BelongsTo(t, l)
        BY <2>4, <2>5 DEF BelongsTo, LruSlots
    <2>7. \A t \in LruSlots : t \in Slots /\ t # s
        BY <2>4 DEF Slots
    <2>8. QED
        BY <2>5, <2>6, <2>7 DEF NoneNamed
<1>3. QED
    BY <1>1, <1>2 DEF RunnerStep

\* An entry that is promoted is a copy in its new place and none in its old.
LEMMA PromoteNames ==
    ASSUME IInv, OneEntry, Promote
    PROVE  CopyStep
<1>1. CASE slot' = slot /\ ws' = ws
    BY <1>1, NothingChanges, NoneNamedKeeps
<1>2. ASSUME NEW l \in Layers, NEW s \in Heap, BelongsTo(s, l), slot[s].state = "ready",
             \A t \in Slots, m \in Layers : BelongsTo(t, m)' => BelongsTo(t, m),
             slot'[s] = Blank, \A t \in Slots : t # s => slot'[t] = slot[t]
      PROVE  CopyStep
    <2>1. slot'[s].eid = NoEid /\ \A t \in LruSlots : t \in Slots /\ t # s
        BY <1>2, HeapIsNotLru DEF Blank, Slots
    <2>2. \A t \in Slots : slot'[t].eid \in {slot[t].eid, NoEid}
        BY <1>2, <2>1
    <2>3. NoneNamed
        BY <1>2, <2>1, <2>2 DEF NoneNamed
    <2>4. QED
        BY <2>3, NoneNamedKeeps
<1>3. ASSUME NEW l \in Layers, NEW s \in Heap, BelongsTo(s, l), slot[s].state = "ready",
             \A t \in Slots, m \in Layers : BelongsTo(t, m)' => BelongsTo(t, m),
             slot'[s] = Blank, NEW v \in LruSlots, BelongsTo(v, l),
             slot'[v].eid = slot[s].eid, slot'[v].pl = slot[s].pl,
             \A t \in Slots : t # s /\ t # v => slot'[t] = slot[t]
      PROVE  CopyStep
    <2>1. s \in Slots /\ v \in Slots /\ v \notin Heap /\ slot[s].pl # NoBuf
        BY <1>3, HeapIsNotLru DEF Slots, IInv, PayloadIffReady
    <2> DEFINE Before(t) == IF t = v THEN s ELSE t
    <2>2. ASSUME NEW m \in Layers, NEW e \in Experts, NEW t \in Slots, Copy(m, t, e)'
          PROVE  Copy(m, Before(t), e) /\ t # s
        <3>1. t # s
            BY <1>3, <2>2, NoEidIsNone DEF Copy, Blank
        <3>2. CASE t = v
            <4>1. BelongsTo(v, m) /\ slot[s].eid = e
                BY <1>3, <2>1, <2>2, <3>2 DEF Copy
            <4>2. m = l
                BY <1>3, <2>1, <4>1, OneLayerEach
            <4>3. QED
                BY <1>3, <3>1, <3>2, <4>1, <4>2 DEF Copy
        <3>3. CASE t # v
            BY <1>3, <2>2, <3>1, <3>3 DEF Copy
        <3>4. QED
            BY <3>2, <3>3
    <2>3. \A t \in Slots : Before(t) \in Slots
        BY <2>1
    <2>4. ASSUME NEW m \in Layers, NEW e \in Experts, OneCopy(m, e)
          PROVE  OneCopy(m, e)'
        <3>1. SUFFICES ASSUME NEW t \in Slots, NEW u \in Slots, Copy(m, t, e)', Copy(m, u, e)'
                       PROVE  t = u
            BY DEF OneCopy
        <3>2. /\ Copy(m, Before(t), e) /\ Copy(m, Before(u), e) /\ t # s /\ u # s
              /\ Before(t) \in Slots /\ Before(u) \in Slots
            BY <2>2, <2>3, <3>1
        <3>3. Before(t) = Before(u)
            BY <2>4, <3>2 DEF OneCopy
        <3>4. QED
            BY <3>2, <3>3
    <2>5. OneEntry'
        <3>1. SUFFICES ASSUME NEW m \in Layers, NEW e \in Experts, NEW t \in Heap, NEW u \in Heap,
                              Copy(m, t, e)', Copy(m, u, e)'
                       PROVE  t = u
            BY DEF OneEntry
        <3>2. t \in Slots /\ u \in Slots /\ t # v /\ u # v
            BY <2>1 DEF Slots
        <3>3. Copy(m, t, e) /\ Copy(m, u, e)
            BY <2>2, <3>1, <3>2
        <3>4. QED
            BY <3>3 DEF OneEntry
    <2> HIDE DEF Before
    <2>6. QED
        BY <2>4, <2>5 DEF CopyStep
<1>4. QED
    BY <1>1, <1>2, <1>3, PromoteMoves

\* The guard takes payloads away and gives none.
LEMMA GuardNames ==
    ASSUME IInv, OneEntry, RssGuard
    PROVE  CopyStep
<1>1. PICK D \in SUBSET LiveLru :
        slot' = [s \in Slots |->
                    IF s \in D THEN [slot[s] EXCEPT !.pl = NoBuf, !.state = "empty"]
                    ELSE slot[s]]
    BY DEF RssGuard
<1>2. ws' = ws
    BY DEF RssGuard
<1>3. \A s \in Slots : slot[s] \in Slot
    BY DEF IInv, TypeOK
<1>4. \A s \in Slots : slot'[s].eid = slot[s].eid /\ (slot'[s].pl # NoBuf => slot'[s].pl = slot[s].pl)
    BY <1>1, <1>3 DEF Slot
<1>5. ASSUME NEW l \in Layers, NEW e \in Experts, NEW s \in Slots, Copy(l, s, e)'
      PROVE  Copy(l, s, e)
    BY <1>2, <1>4, <1>5 DEF Copy, BelongsTo
<1>6. QED
    BY <1>5, FewerKeeps

\* Close frees every slot.
LEMMA JoinNames ==
    ASSUME OneEntry, Join
    PROVE  CopyStep
<1>1. \A s \in Slots : slot'[s] = Blank
    BY DEF Join
<1>2. \A s \in Slots : slot'[s].eid = NoEid
    BY <1>1 DEF Blank
<1>3. \A l \in Layers, e \in Experts, s \in Slots : ~Copy(l, s, e)'
    BY <1>2, NoEidIsNone DEF Copy
<1>4. QED
    BY <1>3, FewerKeeps

\* Every step keeps the copies apart.
LEMMA CopyNext ==
    ASSUME IInv, OneEntry, [Next]_vars
    PROVE  CopyStep
<1>1. slot' = slot /\ ws' = ws => CopyStep
    BY NothingChanges, NoneNamedKeeps
<1>2. CASE ClientCall
    <2>1. ASSUME NEW l \in Layers, NEW e \in Experts, Hint(l, e) \/ HintDemand(l, e)
          PROVE  CopyStep
        <3>1. NoneNamed \/ EntryAdded(l, e)
            BY <2>1, HintNames DEF Hint, HintDemand, Callers
        <3>2. QED
            BY <3>1, NoneNamedKeeps, EntryAddedKeeps
    <2>2. ASSUME NEW l \in Layers, NEW e \in Experts, Resolve(l, e)
          PROVE  CopyStep
        <3>1. NoneNamed \/ EntryAdded(l, e)
            BY <2>2, ResolveNames
        <3>2. QED
            BY <3>1, NoneNamedKeeps, EntryAddedKeeps
    <2>3. ASSUME NEW l \in Layers, LayerEnd(l)
          PROVE  CopyStep
        BY <1>1, <2>3 DEF LayerEnd
    <2>4. CASE Close
        BY <1>1, <2>4 DEF Close
    <2>5. QED
        BY <1>2, <2>1, <2>2, <2>3, <2>4 DEF ClientCall
<1>3. CASE ComputeStep
    <2>1. PromoteDone => CopyStep
        BY <1>1 DEF PromoteDone
    <2>2. WaitReady => CopyStep
        BY WaitReadyNames, NoneNamedKeeps
    <2>3. QED
        BY <1>3, <2>1, <2>2, PromoteNames, GuardNames, JoinNames DEF ComputeStep
<1>4. ASSUME NEW r \in Runners, RunnerStep(r)
      PROVE  CopyStep
    BY <1>4, FillNames, NoneNamedKeeps
<1>5. ASSUME NEW w \in Workers, WorkerStep(w)
      PROVE  CopyStep
    <2>1. w \in Runners
        BY DEF Runners
    <2>2. Sleep(w) \/ Exit(w) \/ Pop(w) \/ Retire(w) => CopyStep
        BY <1>1 DEF Sleep, Exit, Pop, Retire
    <2>3. QED
        BY <1>4, <1>5, <2>1, <2>2 DEF WorkerStep
<1>6. ASSUME NEW c \in Callers, RunnerStep(c)
      PROVE  CopyStep
    BY <1>4, <1>6 DEF Runners
<1>7. Spurious \/ Closed \/ UNCHANGED vars => CopyStep
    BY <1>1 DEF Spurious, Closed, vars
<1>8. QED
    BY <1>2, <1>3, <1>5, <1>6, <1>7 DEF Next

\* Slots without an expert are no copies.
LEMMA BlankHasNone ==
    ASSUME \A s \in Slots : slot[s] = Blank
    PROVE  OneEntry
<1>1. \A s \in Slots : slot[s].eid = NoEid
    BY DEF Blank
<1>2. \A s \in Heap : s \in Slots
    BY HeapIsNotLru DEF Slots
<1>3. QED
    BY <1>1, <1>2, NoEidIsNone DEF OneEntry, Copy

\* The slots of Copies are those Copy names.
LEMMA CopiesAre ==
    ASSUME IInv, NEW l \in Layers, NEW e \in Experts, NEW s
    PROVE  s \in Copies(l, e) <=> s \in Slots /\ Copy(l, s, e)
<1>1. \A k \in DOMAIN ws[l] : ws[l][k] \in Heap
    <2>1. ws[l] \in Seq(Heap)
        BY DEF IInv, TypeOK
    <2>2. QED
        BY <2>1, ElementOfSeq, LenProperties
<1>2. \A k \in WsPos(l, e) : ws[l][k] \in Heap /\ k \in DOMAIN ws[l] /\ slot[ws[l][k]].eid = e
    BY <1>1 DEF WsPos
<1>3. \A i \in LivePos(l, e) : /\ i \in 1..NSlots /\ <<l, i>> \in LruSlots
                               /\ slot[<<l, i>>].eid = e /\ slot[<<l, i>>].pl # NoBuf
    BY DEF LivePos, LruPos, LruSlots
<1>4. ASSUME s \in Copies(l, e)
      PROVE  s \in Slots /\ Copy(l, s, e)
    <2>1. CASE \E k \in WsPos(l, e) : s = ws[l][k]
        <3>1. PICK k \in WsPos(l, e) : s = ws[l][k]
            BY <2>1
        <3>2. s \in Heap /\ k \in DOMAIN ws[l] /\ slot[s].eid = e
            BY <1>2, <3>1
        <3>3. QED
            BY <3>1, <3>2 DEF Copy, BelongsTo, Slots
    <2>2. CASE \E i \in LivePos(l, e) : s = <<l, i>>
        BY <1>3, <2>2 DEF Copy, BelongsTo, Slots
    <2>3. QED
        BY <1>4, <2>1, <2>2 DEF Copies
<1>5. ASSUME s \in Slots, Copy(l, s, e)
      PROVE  s \in Copies(l, e)
    <2>1. CASE s \in Heap
        BY <1>5, <2>1, HeapIsNotLru DEF Copies, Copy, BelongsTo, WsPos, LruSlots
    <2>2. CASE s \notin Heap
        <3>1. PICK i \in 1..NSlots : s = <<l, i>>
            BY <1>1, <1>5, <2>2 DEF Copy, BelongsTo
        <3>2. i \in LivePos(l, e)
            BY <1>5, <2>2, <3>1 DEF Copy, LivePos, LruPos
        <3>3. QED
            BY <3>1, <3>2 DEF Copies
    <2>3. QED
        BY <2>1, <2>2
<1>6. QED
    BY <1>4, <1>5

\* One copy by the slots is one copy by Copies.
LEMMA SingleIsOneCopy ==
    ASSUME IInv, NEW l \in Layers, NEW e \in Experts
    PROVE  Single(Copies(l, e)) <=> OneCopy(l, e)
BY CopiesAre DEF Single, OneCopy

\* One entry by the slots is one place in the working set.
LEMMA SingleEntry ==
    ASSUME IInv, OneEntry, NEW l \in Layers, NEW e \in Experts
    PROVE  Single(WsPos(l, e))
<1>1. ws[l] \in Seq(Heap)
    BY DEF IInv, TypeOK
<1>2. \A k \in WsPos(l, e) : ws[l][k] \in Heap /\ k \in DOMAIN ws[l] /\ Copy(l, ws[l][k], e)
    <2>1. \A k \in DOMAIN ws[l] : ws[l][k] \in Heap
        BY <1>1, ElementOfSeq, LenProperties
    <2>2. QED
        BY <2>1 DEF WsPos, Copy, BelongsTo
<1>3. QED
    BY <1>2 DEF Single, OneEntry, IInv, WsDistinct

\* No expert has two working-set entries, and one with a single copy gets
\* another only while that copy is hidden behind a slot the guard emptied:
\* apus_gcache_hint and resolve load nothing a lookup could have found.
THEOREM NothingIsLoadedTwice == Spec => NoDuplicateLoad
<1>1. Init => IInv /\ OneEntry
    <2>1. Init => \A s \in Slots : slot[s] = Blank
        BY DEF Init
    <2>2. QED
        BY <2>1, InitIInv, BlankHasNone
<1>2. (IInv /\ OneEntry) /\ [Next]_vars => (IInv /\ OneEntry)'
    BY StepIInv, CopyNext DEF CopyStep
<1> DEFINE Seen == \A l \in Layers, e \in Experts :
                      /\ Single(WsPos(l, e))
                      /\ Single(Copies(l, e)) <=> OneCopy(l, e)
           Step == \A l \in Layers, e \in Experts :
                      /\ Single(WsPos(l, e)')
                      /\ Single(Copies(l, e)) /\ ~Hidden(l, e) => Single(Copies(l, e)')
<1>3. IInv /\ OneEntry => Seen
    BY SingleIsOneCopy, SingleEntry
<1>4. IInv /\ OneEntry /\ [Next]_vars => CopyStep
    BY CopyNext
<1>5. Seen /\ Seen' /\ CopyStep => Step
    BY DEF CopyStep, Single
<1> HIDE DEF Seen, Step
<1>6. Spec => [][Step]_vars
    BY <1>1, <1>2, <1>3, <1>4, <1>5, PTL DEF Spec
<1>7. QED
    BY <1>6 DEF NoDuplicateLoad, Step
=============================================================================
