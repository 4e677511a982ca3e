-------------------------------- MODULE Pool --------------------------------
(***************************************************************************)
(* The fork/join pool of c/pool.h.  The caller (lane 0) writes the block   *)
(* bounds of the lanes without the mutex, publishes a generation under it, *)
(* computes its own block, and waits until the worker lanes of this        *)
(* generation have reported.  A worker that the generation does not use    *)
(* may wake up late, in the middle of the next call.                       *)
(*                                                                         *)
(* A step is one critical section of p->mu, one write of a lane's bounds   *)
(* outside it, or one run of fn over a block.                              *)
(***************************************************************************)
EXTENDS Integers, FiniteSets

CONSTANTS
    NThreads,       \* p->nthreads, lanes with the caller
    MaxRows,        \* bound: rows of a call
    MaxCalls,       \* bound: calls of apus_pool_run
    SpuriousWakes   \* condition waits may return without a signal

ASSUME PoolAssumption ==
    /\ NThreads \in Nat \ {0}
    /\ MaxRows \in Nat /\ MaxCalls \in Nat
    /\ SpuriousWakes \in BOOLEAN

Lanes   == 0 .. NThreads - 1
Workers == 1 .. NThreads - 1
Rows    == 0 .. MaxRows - 1
Block   == [lo : Nat, hi : Nat]

VARIABLES
    gen, started, nlane, pending, ctx,  \* the shared fields, under p->mu
    block,      \* p->lo and p->hi
    mpc, n, T, lane,  \* the caller: where, rows, lanes used, loop counter
    wpc, seen, mine, wctx,  \* a worker: where, and its copies of the fields
    calls,      \* calls so far; names the job of the current one
    work        \* how often fn has computed each row of the current call

shared == <<gen, started, nlane, pending, ctx>>
caller == <<mpc, n, T, lane>>
worker == <<wpc, seen, mine, wctx>>
vars   == <<shared, block, caller, worker, calls, work>>

TypeOK ==
    /\ gen \in Nat /\ started \in BOOLEAN /\ nlane \in Nat
    /\ pending \in Int /\ ctx \in Nat
    /\ block \in [Lanes -> Block]
    /\ mpc \in {"idle", "split", "publish", "lane0", "check", "asleep"}
    /\ n \in Nat /\ T \in Nat /\ lane \in Nat
    /\ wpc \in [Workers -> {"unborn", "check", "asleep", "run", "report"}]
    /\ seen \in [Workers -> Nat] /\ mine \in [Workers -> Block]
    /\ wctx \in [Workers -> Nat]
    /\ calls \in Nat /\ work \in [Rows -> Nat]

Init ==
    /\ gen = 0 /\ started = FALSE /\ nlane = 0 /\ pending = 0 /\ ctx = 0
    /\ block = [i \in Lanes |-> [lo |-> 0, hi |-> 0]]
    /\ mpc = "idle" /\ n = 0 /\ T = NThreads /\ lane = 0
    /\ wpc = [w \in Workers |-> "unborn"]
    /\ seen = [w \in Workers |-> 0]
    /\ mine = [w \in Workers |-> [lo |-> 0, hi |-> 0]]
    /\ wctx = [w \in Workers |-> 0]
    /\ calls = 0 /\ work = [r \in Rows |-> 0]

-----------------------------------------------------------------------------
(* The caller.                                                             *)

Computed(from, to) ==
    [r \in Rows |-> IF from <= r /\ r < to THEN work[r] + 1 ELSE work[r]]

\* One row, or one lane: no dispatch at all.
RunInline(rows) ==
    /\ mpc = "idle" /\ calls < MaxCalls
    /\ NThreads <= 1 \/ rows < 2
    /\ calls' = calls + 1
    /\ n' = rows
    /\ work' = [r \in Rows |-> IF r < rows THEN 1 ELSE 0]
    /\ UNCHANGED <<shared, block, mpc, T, lane, worker>>

Run(rows) ==
    /\ mpc = "idle" /\ calls < MaxCalls
    /\ NThreads > 1 /\ rows >= 2
    /\ calls' = calls + 1
    /\ n' = rows
    /\ T' = IF NThreads > rows THEN rows ELSE NThreads
    /\ lane' = 0
    /\ work' = [r \in Rows |-> 0]
    /\ mpc' = "split"
    /\ UNCHANGED <<shared, block, worker>>

\* The balanced partition: the first n % T lanes get one row more.
\* Regression: the remainder is dropped.
CountNoRemainder(i) == n \div T
Count(i) == (n \div T) + (IF i < n % T THEN 1 ELSE 0)

Pos == IF lane = 0 THEN 0 ELSE block[lane - 1].hi

Split ==
    /\ mpc = "split" /\ lane < T
    /\ block' = [block EXCEPT ![lane] =
                    [lo |-> Pos, hi |-> Pos + Count(lane)]]
    /\ lane' = lane + 1
    /\ mpc' = IF lane + 1 = T THEN "publish" ELSE "split"
    /\ UNCHANGED <<shared, n, T, worker, calls, work>>

\* A broadcast of cv_work.  Regression: a signal.
WakeOne(pc) ==
    IF \E w \in Workers : pc[w] = "asleep"
    THEN [pc EXCEPT ![CHOOSE w \in Workers : pc[w] = "asleep"] = "check"]
    ELSE pc
WakeAll(pc) ==
    [w \in Workers |-> IF pc[w] = "asleep" THEN "check" ELSE pc[w]]

\* The lanes to wait for.
Owed == T - 1

Spawned == IF started THEN wpc ELSE [w \in Workers |-> "check"]

Publish ==
    /\ mpc = "publish"
    /\ started' = TRUE
    /\ ctx' = calls
    /\ nlane' = T
    /\ pending' = Owed
    /\ gen' = gen + 1
    /\ wpc' = WakeAll(Spawned)
    /\ mpc' = "lane0"
    /\ UNCHANGED <<block, n, T, lane, seen, mine, wctx, calls, work>>

Lane0 ==
    /\ mpc = "lane0"
    /\ work' = Computed(block[0].lo, block[0].hi)
    /\ mpc' = "check"
    /\ UNCHANGED <<shared, block, n, T, lane, worker, calls>>

Await ==
    /\ mpc = "check"
    /\ mpc' = IF pending # 0 THEN "asleep" ELSE "idle"
    /\ UNCHANGED <<shared, block, n, T, lane, worker, calls, work>>

-----------------------------------------------------------------------------
(* The workers.                                                            *)

Doze(w) ==
    /\ wpc[w] = "check" /\ gen = seen[w]
    /\ wpc' = [wpc EXCEPT ![w] = "asleep"]
    /\ UNCHANGED <<shared, block, caller, seen, mine, wctx, calls, work>>

\* Whether the generation uses the lane.  Regression: off by one.
ActiveTooFar(w) == w <= nlane
Active(w)       == w < nlane

\* A new generation: copy the job and the bounds under the mutex; a lane it
\* does not use goes back to wait (the bounds it read may be half written).
Take(w) ==
    /\ wpc[w] = "check" /\ gen # seen[w]
    /\ seen' = [seen EXCEPT ![w] = gen]
    /\ mine' = [mine EXCEPT ![w] = block[w]]
    /\ wctx' = [wctx EXCEPT ![w] = ctx]
    /\ wpc' = [wpc EXCEPT ![w] = IF Active(w) THEN "run" ELSE "check"]
    /\ UNCHANGED <<shared, block, caller, calls, work>>

Compute(w) ==
    /\ wpc[w] = "run"
    /\ work' = Computed(mine[w].lo, mine[w].hi)
    /\ wpc' = [wpc EXCEPT ![w] = "report"]
    /\ UNCHANGED <<shared, block, caller, seen, mine, wctx, calls>>

\* The lane that brings pending to 0 signals.  Regression: one lane early.
LastLaneEarly == pending - 1 = 1
LastLane      == pending - 1 = 0

Report(w) ==
    /\ wpc[w] = "report"
    /\ pending' = pending - 1
    /\ mpc' = IF LastLane /\ mpc = "asleep" THEN "check" ELSE mpc
    /\ wpc' = [wpc EXCEPT ![w] = "check"]
    /\ UNCHANGED <<gen, started, nlane, ctx, block, n, T, lane, seen, mine,
                   wctx, calls, work>>

Spurious ==
    /\ SpuriousWakes
    /\ \/ mpc = "asleep" /\ mpc' = "check" /\ UNCHANGED wpc
       \/ /\ \E w \in Workers :
                wpc[w] = "asleep" /\ wpc' = [wpc EXCEPT ![w] = "check"]
          /\ UNCHANGED mpc
    /\ UNCHANGED <<shared, block, n, T, lane, seen, mine, wctx, calls, work>>

-----------------------------------------------------------------------------
CallerStep == Split \/ Publish \/ Lane0 \/ Await
WorkerStep(w) == Doze(w) \/ Take(w) \/ Compute(w) \/ Report(w)

Next ==
    \/ \E rows \in 0 .. MaxRows : RunInline(rows) \/ Run(rows)
    \/ CallerStep
    \/ \E w \in Workers : WorkerStep(w)
    \/ Spurious

Spec == Init /\ [][Next]_vars

\* Every thread that can run does; nothing makes the caller call again.
FairSpec ==
    /\ Spec
    /\ WF_vars(CallerStep)
    /\ \A w \in Workers : WF_vars(WorkerStep(w))

-----------------------------------------------------------------------------
(* Correctness.                                                            *)

\* A lane inside fn, which reads and writes through the caller's ctx.
Inside(w) == wpc[w] = "run"

\* apus_pool_run returns with every row of [0, n) computed exactly once and
\* no lane still inside fn: ctx lives on the caller's stack.
ReturnsDone ==
    mpc = "idle" =>
        /\ \A r \in Rows : work[r] = (IF r < n THEN 1 ELSE 0)
        /\ \A w \in Workers : ~Inside(w)

\* No lane computes for an earlier call than the one in progress, and two
\* lanes inside fn never share a row, nor one with lane 0: kernels write
\* their rows without locks.
LanesApart ==
    /\ \A w \in Workers : Inside(w) => wctx[w] = calls
    /\ \A v, w \in Workers : Inside(v) /\ Inside(w) /\ v # w =>
          mine[v].hi <= mine[w].lo \/ mine[w].hi <= mine[v].lo
    /\ \A w \in Workers : Inside(w) /\ mpc = "lane0" =>
          block[0].hi <= mine[w].lo

\* pending counts exactly the lanes of the generation that have not
\* reported, a late worker of an earlier generation never among them.
Owing ==
    {w \in Workers : w < nlane /\ (seen[w] # gen \/ wpc[w] \in {"run", "report"})}
PendingExact == pending = Cardinality(Owing)

\* What makes the three inductive.  With no call dispatched nothing is owed;
\* ...
Dispatched == mpc \in {"lane0", "check", "asleep"}
Quiet      == ~Dispatched => pending = 0

\* ... a lane inside fn, or about to report, has the current job and its own
\* block; ...
Insiders ==
    \A w \in Workers :
        /\ seen[w] <= gen
        /\ wpc[w] \in {"run", "report"} =>
              /\ seen[w] = gen /\ w < nlane
              /\ wctx[w] = ctx /\ mine[w] = block[w]

\* ... the call in progress is the one the shared fields describe; ...
Current ==
    /\ n <= MaxRows
    /\ mpc # "idle" => T \in 2 .. NThreads /\ lane <= T
    /\ mpc = "split" => lane < T
    /\ mpc \notin {"idle", "split"} => lane = T
    /\ Dispatched => ctx = calls /\ nlane = T

\* ... the blocks written so far lie one after the other from row 0 up to
\* Pos, which ends at n; ...
InBlock(i, r) == block[i].lo <= r /\ r < block[i].hi
Written == 0 .. lane - 1
Tiled ==
    mpc # "idle" =>
        /\ Pos = lane * (n \div T) + (IF lane < n % T THEN lane ELSE n % T)
        /\ \A i \in Written : block[i].hi <= Pos
        /\ \A i, j \in Written : i < j => block[i].hi <= block[j].lo
        /\ \A r \in 0 .. Pos - 1 : \E i \in Written : InBlock(i, r)

\* ... and a row is computed once its lane has run.
Ran(i) == IF i = 0 THEN mpc # "lane0"
          ELSE seen[i] = gen /\ wpc[i] # "run"
Worked ==
    /\ mpc \in {"split", "publish"} => \A r \in Rows : work[r] = 0
    /\ Dispatched => \A r \in Rows :
          work[r] = (IF \E i \in 0 .. T - 1 : Ran(i) /\ InBlock(i, r)
                     THEN 1 ELSE 0)
    /\ mpc = "idle" => \A r \in Rows :
          work[r] = (IF r < n THEN 1 ELSE 0)

PoolInv ==
    /\ TypeOK /\ PendingExact /\ Quiet /\ Insiders /\ Current /\ Tiled
    /\ Worked

\* The call returns: neither the dispatch nor the report is lost.
RunReturns == mpc # "idle" ~> mpc = "idle"
=============================================================================
