----------------------------- MODULE PoolProofs -----------------------------
(***************************************************************************)
(* apus_pool_run is correct for every number of lanes, rows and calls:     *)
(* PoolInv is inductive, and it implies what Pool states.                  *)
(***************************************************************************)
EXTENDS Pool, FiniteSetTheorems, TLAPS

USE PoolAssumption DEF PoolAssumption

-----------------------------------------------------------------------------
(* Arithmetic of the partition.                                            *)

\* The quotient and the remainder put the dividend together again.
LEMMA DivMod ==
    ASSUME NEW a \in Nat, NEW b \in Nat \ {0}
    PROVE  /\ a \div b \in Nat /\ a % b \in Nat
           /\ a % b < b
           /\ a = b * (a \div b) + (a % b)
  OBVIOUS

\* Adding one lane's share.
LEMMA OneMore ==
    ASSUME NEW a \in Nat, NEW b \in Nat
    PROVE  /\ (a + 1) * b = a * b + b
           /\ a * b \in Nat
  OBVIOUS

-----------------------------------------------------------------------------
(* The lanes that owe a report.                                            *)

\* They are a finite set of lanes.
LEMMA OwingFinite == IsFiniteSet(Owing) /\ Owing \subseteq Workers
  <1>1. IsFiniteSet(Workers)
    BY FS_Interval DEF Workers
  <1> QED BY <1>1, FS_Subset DEF Owing

\* Nothing pending means that nobody owes.
LEMMA NothingOwed ==
    ASSUME PendingExact, pending = 0
    PROVE  Owing = {}
  BY OwingFinite, FS_EmptySet DEF PendingExact

\* A lane inside fn owes, so a call is dispatched.
LEMMA InsideIsDispatched ==
    ASSUME PoolInv, NEW w \in Workers, wpc[w] \in {"run", "report"}
    PROVE  Dispatched /\ w \in Owing /\ ctx = calls /\ nlane = T /\ lane = T
  <1>1. w \in Owing
    BY DEF PoolInv, Insiders, Owing
  <1>2. pending # 0
    BY <1>1, NothingOwed DEF PoolInv
  <1>3. Dispatched
    BY <1>2 DEF PoolInv, Quiet
  <1> QED BY <1>1, <1>3 DEF PoolInv, Current, Dispatched

-----------------------------------------------------------------------------
(* The initial state.                                                      *)

\* Nothing is dispatched, owed or computed at the start.
LEMMA InitPoolInv == Init => PoolInv
  <1> SUFFICES ASSUME Init PROVE PoolInv
    OBVIOUS
  <1>1. TypeOK
    <2>1. [lo |-> 0, hi |-> 0] \in Block
      BY DEF Block
    <2>2. block \in [Lanes -> Block] /\ mine \in [Workers -> Block]
      BY <2>1 DEF Init
    <2>3. /\ wpc \in [Workers ->
                    {"unborn", "check", "asleep", "run", "report"}]
          /\ seen \in [Workers -> Nat] /\ wctx \in [Workers -> Nat]
          /\ work \in [Rows -> Nat]
      BY DEF Init
    <2>4. started \in BOOLEAN
      BY DEF Init
    <2> QED BY <2>2, <2>3, <2>4 DEF Init, TypeOK
  <1>2. PendingExact
    <2>1. Owing = {}
      BY DEF Init, Owing, Workers
    <2> QED BY <2>1, FS_EmptySet DEF PendingExact, Init
  <1>3. Quiet /\ Insiders /\ Current /\ Tiled
    BY DEF Init, Quiet, Insiders, Current, Tiled, Dispatched, Workers
  <1>4. Worked
    BY DEF Init, Worked, Dispatched, Rows
  <1> QED BY <1>1, <1>2, <1>3, <1>4 DEF PoolInv

-----------------------------------------------------------------------------
(* The caller's steps.                                                     *)

\* A call on one row or one lane leaves the pool alone.
LEMMA RunInlineKeeps ==
    ASSUME PoolInv, NEW rows \in 0 .. MaxRows, RunInline(rows)
    PROVE  PoolInv'
  <1> USE DEF RunInline, shared, worker
  <1>1. TypeOK'
    BY DEF PoolInv, TypeOK, Rows
  <1>2. PendingExact'
    <2>1. Owing' = Owing
      BY DEF Owing
    <2> QED BY <2>1 DEF PoolInv, PendingExact
  <1>3. Quiet' /\ Insiders' /\ Current' /\ Tiled'
    BY DEF PoolInv, Quiet, Insiders, Current, Tiled, Dispatched
  <1>4. Worked'
    BY DEF Worked, Dispatched
  <1> QED BY <1>1, <1>2, <1>3, <1>4 DEF PoolInv

\* A call starts with no row computed and no block written.
LEMMA RunKeeps ==
    ASSUME PoolInv, NEW rows \in 0 .. MaxRows, Run(rows)
    PROVE  PoolInv'
  <1> USE DEF Run, shared, worker
  <1>0. rows \in Nat /\ rows >= 2 /\ T' \in 2 .. NThreads /\ T' \in Nat \ {0}
    OBVIOUS
  <1>1. TypeOK'
    BY <1>0 DEF PoolInv, TypeOK, Rows
  <1>2. PendingExact'
    <2>1. Owing' = Owing
      BY DEF Owing
    <2> QED BY <2>1 DEF PoolInv, PendingExact
  <1>3. Quiet' /\ Insiders'
    BY DEF PoolInv, Quiet, Insiders, Dispatched
  <1>4. Current'
    BY <1>0 DEF Current, Dispatched
  <1>5. Tiled'
    <2>1. /\ n' \div T' \in Nat /\ n' % T' \in Nat
      BY <1>0, DivMod
    <2>2. Written' = {} /\ Pos' = 0
      BY DEF Written, Pos
    <2>3. 0 * (n' \div T') = 0
      BY <2>1
    <2>4. 0 .. 0 - 1 = {}
      OBVIOUS
    <2> QED BY <2>1, <2>2, <2>3, <2>4 DEF Tiled
  <1>6. Worked'
    BY DEF Worked, Dispatched
  <1> QED BY <1>1, <1>2, <1>3, <1>4, <1>5, <1>6 DEF PoolInv

\* The block written next starts where the last one ends.
LEMMA SplitKeeps ==
    ASSUME PoolInv, Split
    PROVE  PoolInv'
  <1> USE DEF Split, shared, worker
  <1> DEFINE q == n \div T
             m == n % T
             c == Count(lane)
  <1>0. /\ T \in 2 .. NThreads /\ T \in Nat \ {0} /\ lane \in Nat
        /\ lane \in Lanes /\ n \in Nat /\ n' = n /\ T' = T
        /\ block \in [Lanes -> Block]
    BY DEF PoolInv, Current, TypeOK, Lanes
  <1>1. q \in Nat /\ m \in Nat /\ m < T
    BY <1>0, DivMod
  <1>2. c = q + (IF lane < m THEN 1 ELSE 0) /\ c \in Nat
    BY <1>1 DEF Count
  <1>3. Pos \in Nat
    <2>1. CASE lane = 0
      BY <2>1 DEF Pos
    <2>2. CASE lane # 0
      <3>1. lane - 1 \in Lanes
        BY <1>0, <2>2 DEF Lanes
      <3> QED BY <3>1, <1>0, <2>2 DEF Pos, Block
    <2> QED BY <2>1, <2>2
  <1>4. /\ block'[lane] = [lo |-> Pos, hi |-> Pos + c]
        /\ \A i \in Written : block'[i] = block[i]
        /\ Pos' = Pos + c
        /\ Written' = Written \cup {lane}
    <2>1. \A i \in Written : i \in Lanes /\ i # lane
      BY <1>0 DEF Written, Lanes
    <2>2. Pos' = block'[lane].hi
      BY <1>0 DEF Pos
    <2>3. Written' = Written \cup {lane}
      BY <1>0 DEF Written
    <2> QED BY <1>0, <2>1, <2>2, <2>3
  <1>5. TypeOK'
    BY <1>0, <1>2, <1>3 DEF PoolInv, TypeOK, Block
  <1>6. Quiet' /\ pending = 0 /\ Owing = {}
    BY NothingOwed DEF PoolInv, Quiet, Dispatched
  <1>7. PendingExact'
    <2>1. Owing' = Owing
      BY DEF Owing
    <2> QED BY <2>1 DEF PoolInv, PendingExact
  <1>8. Insiders'
    BY <1>6 DEF PoolInv, Insiders, Owing
  <1>9. Current'
    BY <1>0 DEF PoolInv, Current, Dispatched
  <1>10. Tiled'
    <2>1. Pos' = lane' * q + (IF lane' < m THEN lane' ELSE m)
      <3>1. Pos = lane * q + (IF lane < m THEN lane ELSE m)
        BY DEF PoolInv, Tiled
      <3>2. lane' * q = lane * q + q /\ lane * q \in Nat
        BY <1>0, <1>1, OneMore
      <3> QED BY <1>0, <1>1, <1>2, <1>3, <1>4, <3>1, <3>2
    <2>2. \A i \in Written : block[i].hi <= Pos /\ block[i].hi \in Nat
      <3>1. \A i \in Written : i \in Lanes
        BY <1>0 DEF Written, Lanes
      <3> QED BY <1>0, <3>1 DEF PoolInv, Tiled, Block
    <2>3. \A i \in Written' : block'[i].hi <= Pos'
      BY <1>2, <1>3, <1>4, <2>2
    <2>4. \A i, j \in Written' : i < j => block'[i].hi <= block'[j].lo
      <3>1. \A i \in Written : i < lane
        BY <1>0 DEF Written
      <3>2. \A i, j \in Written : i < j => block[i].hi <= block[j].lo
        BY DEF PoolInv, Tiled
      <3>3. ASSUME NEW i \in Written', NEW j \in Written', i < j
            PROVE  block'[i].hi <= block'[j].lo
        <4>1. i \in Written
          BY <3>1, <3>3, <1>0, <1>4 DEF Written
        <4>2. CASE j = lane
          BY <4>1, <4>2, <1>4, <2>2
        <4>3. CASE j \in Written
          BY <4>1, <4>3, <3>2, <3>3, <1>4
        <4> QED BY <4>2, <4>3, <1>4
      <3> QED BY <3>3
    <2>5. ASSUME NEW r \in 0 .. Pos' - 1
          PROVE  \E i \in Written' : InBlock(i, r)'
      <3>1. CASE r < Pos
        <4>1. r \in 0 .. Pos - 1
          BY <3>1, <1>3, <1>2, <1>4
        <4>2. PICK i \in Written : InBlock(i, r)
          BY <4>1 DEF PoolInv, Tiled
        <4> QED BY <4>2, <1>4 DEF InBlock
      <3>2. CASE r >= Pos
        BY <3>2, <1>2, <1>3, <1>4 DEF InBlock
      <3> QED BY <3>1, <3>2, <1>2, <1>3, <1>4
    <2>6. Pos' = lane' * (n' \div T') + (IF lane' < n' % T' THEN lane' ELSE n' % T')
      BY <2>1, <1>0
    <2> QED BY <2>3, <2>4, <2>5, <2>6 DEF Tiled
  <1>11. Worked'
    BY DEF PoolInv, Worked, Dispatched
  <1> QED BY <1>5, <1>6, <1>7, <1>8, <1>9, <1>10, <1>11 DEF PoolInv

\* The dispatch: every lane of the generation owes a report.
LEMMA PublishKeeps ==
    ASSUME PoolInv, Publish
    PROVE  PoolInv'
  <1> USE DEF Publish
  <1>0. /\ T \in 2 .. NThreads /\ T \in Nat /\ lane = T /\ gen \in Nat
        /\ wpc \in [Workers -> {"unborn", "check", "asleep", "run", "report"}]
        /\ seen \in [Workers -> Nat]
    BY DEF PoolInv, Current, TypeOK
  <1>1. pending = 0 /\ Owing = {}
    BY NothingOwed DEF PoolInv, Quiet, Dispatched
  <1>2. wpc' \in [Workers -> {"unborn", "check", "asleep", "run", "report"}]
    <2>1. Spawned \in [Workers -> {"unborn", "check", "asleep", "run", "report"}]
      BY <1>0 DEF Spawned
    <2> QED BY <2>1 DEF WakeAll
  <1>3. \A w \in Workers : /\ seen'[w] = seen[w] /\ seen[w] < gen'
                           /\ wpc'[w] \in {"run", "report"} =>
                                 wpc[w] \in {"run", "report"}
    <2>1. \A w \in Workers : seen[w] <= gen /\ seen[w] \in Nat
      BY <1>0 DEF PoolInv, Insiders
    <2>2. \A w \in Workers : wpc'[w] \in {"run", "report"} =>
                                 wpc[w] \in {"run", "report"}
      BY <1>0 DEF WakeAll, Spawned
    <2> QED BY <1>0, <2>1, <2>2
  <1>4. TypeOK'
    <2>1. started' \in BOOLEAN
      OBVIOUS
    <2>2. pending' \in Int /\ nlane' \in Nat /\ gen' \in Nat
      BY <1>0 DEF Owed
    <2> QED BY <1>2, <2>1, <2>2 DEF PoolInv, TypeOK
  <1>5. PendingExact'
    <2>1. Owing' = 1 .. T - 1
      BY <1>0, <1>3 DEF Owing, Workers
    <2>2. Cardinality(1 .. T - 1) = T - 1
      BY <1>0, FS_Interval
    <2> QED BY <2>1, <2>2 DEF PendingExact, Owed
  <1>6. Quiet'
    BY DEF Quiet, Dispatched
  <1>7. Insiders'
    <2>1. \A w \in Workers : wpc[w] \notin {"run", "report"}
      BY <1>1 DEF PoolInv, Insiders, Owing
    <2> QED BY <2>1, <1>0, <1>3 DEF Insiders
  <1>8. Current'
    BY DEF PoolInv, Current, Dispatched
  <1>9. Tiled'
    BY DEF PoolInv, Tiled, Pos, Written, InBlock
  <1>10. Worked'
    <2>1. \A i \in 0 .. T' - 1 : ~Ran(i)'
      BY <1>0, <1>3 DEF Ran, Workers
    <2>2. \A r \in Rows : work'[r] = 0
      BY DEF PoolInv, Worked
    <2> QED BY <2>1, <2>2 DEF Worked, Dispatched
  <1> QED BY <1>4, <1>5, <1>6, <1>7, <1>8, <1>9, <1>10 DEF PoolInv

\* What running a block does to the rows.
LEMMA BlockRuns ==
    ASSUME PoolInv, Dispatched, NEW k \in 0 .. T - 1,
           ~Ran(k), work' = Computed(block[k].lo, block[k].hi),
           UNCHANGED <<block, T>>,
           \A i \in 0 .. T - 1 : Ran(i)' <=> Ran(i) \/ i = k
    PROVE  \A r \in Rows :
              work'[r] = (IF \E i \in 0 .. T - 1 : Ran(i)' /\ InBlock(i, r)
                          THEN 1 ELSE 0)
  <1> SUFFICES ASSUME NEW r \in Rows
               PROVE  work'[r] = (IF \E i \in 0 .. T - 1 :
                                        Ran(i)' /\ InBlock(i, r)
                                  THEN 1 ELSE 0)
    OBVIOUS
  <1>0. /\ T \in Nat /\ T \in 2 .. NThreads /\ lane = T
        /\ work \in [Rows -> Nat] /\ block \in [Lanes -> Block]
        /\ r \in Nat
    BY DEF PoolInv, TypeOK, Current, Dispatched, Rows
  <1>1. work[r] = (IF \E i \in 0 .. T - 1 : Ran(i) /\ InBlock(i, r)
                   THEN 1 ELSE 0)
    BY DEF PoolInv, Worked
  <1>2. work'[r] = IF InBlock(k, r) THEN work[r] + 1 ELSE work[r]
    BY DEF Computed, InBlock
  <1>3. ASSUME NEW i \in 0 .. T - 1, i # k, InBlock(k, r)
        PROVE  ~InBlock(i, r)
    <2>1. i \in Written /\ k \in Written /\ i \in Lanes /\ k \in Lanes
      BY <1>0 DEF Written, Lanes
    <2>2. block[i].hi <= block[k].lo \/ block[k].hi <= block[i].lo
      BY <2>1, <1>0, <1>3 DEF PoolInv, Tiled, Dispatched
    <2>3. /\ block[i].lo \in Nat /\ block[i].hi \in Nat
          /\ block[k].lo \in Nat /\ block[k].hi \in Nat
      BY <1>0, <2>1 DEF Block
    <2> QED BY <1>0, <1>3, <2>2, <2>3 DEF InBlock
  <1>4. CASE InBlock(k, r)
    <2>1. work[r] = 0
      BY <1>1, <1>3, <1>4
    <2> QED BY <2>1, <1>2, <1>4
  <1>5. CASE ~InBlock(k, r)
    BY <1>1, <1>2, <1>5
  <1> QED BY <1>4, <1>5

\* Lane 0 computes its block.
LEMMA Lane0Keeps ==
    ASSUME PoolInv, Lane0
    PROVE  PoolInv'
  <1> USE DEF Lane0, shared, worker
  <1>1. TypeOK'
    BY DEF PoolInv, TypeOK, Computed
  <1>2. PendingExact'
    <2>1. Owing' = Owing
      BY DEF Owing
    <2> QED BY <2>1 DEF PoolInv, PendingExact
  <1>3. Quiet' /\ Insiders' /\ Current'
    BY DEF PoolInv, Quiet, Insiders, Current, Dispatched
  <1>4. Tiled'
    BY DEF PoolInv, Tiled, Pos, Written, InBlock
  <1>5. Worked'
    <2>1. Dispatched /\ T \in 2 .. NThreads /\ 0 \in 0 .. T - 1
      BY DEF PoolInv, Current, Dispatched
    <2>2. ~Ran(0) /\ \A i \in 0 .. T - 1 : Ran(i)' <=> Ran(i) \/ i = 0
      BY DEF Ran
    <2>3. \A r \in Rows :
             work'[r] = (IF \E i \in 0 .. T - 1 : Ran(i)' /\ InBlock(i, r)
                         THEN 1 ELSE 0)
      BY <2>1, <2>2, BlockRuns
    <2> QED BY <2>3 DEF Worked, Dispatched, InBlock
  <1> QED BY <1>1, <1>2, <1>3, <1>4, <1>5 DEF PoolInv

\* The caller sleeps, or returns with every lane's block computed.
LEMMA AwaitKeeps ==
    ASSUME PoolInv, Await
    PROVE  PoolInv'
  <1> USE DEF Await, shared, worker
  <1>0. Dispatched /\ T \in 2 .. NThreads /\ T \in Nat \ {0} /\ n \in Nat
        /\ nlane = T /\ lane = T
    BY DEF PoolInv, Current, Dispatched, TypeOK
  <1>1. TypeOK'
    BY DEF PoolInv, TypeOK
  <1>2. PendingExact'
    <2>1. Owing' = Owing
      BY DEF Owing
    <2> QED BY <2>1 DEF PoolInv, PendingExact
  <1>3. Quiet' /\ Insiders' /\ Current'
    BY DEF PoolInv, Quiet, Insiders, Current, Dispatched
  <1>4. Tiled'
    BY DEF PoolInv, Tiled, Pos, Written, InBlock
  <1>5. Worked'
    <2>1. CASE pending # 0
      <3>1. \A i : Ran(i)' <=> Ran(i)
        BY DEF Ran
      <3> QED BY <2>1, <3>1 DEF PoolInv, Worked, Dispatched, InBlock
    <2>2. CASE pending = 0
      <3>1. \A i \in 0 .. T - 1 : Ran(i)
        BY <2>2, <1>0, NothingOwed DEF PoolInv, Owing, Ran, Workers
      <3>2. Pos = n
        <4>1. Pos = T * (n \div T) + (n % T)
          <5>1. n % T < T /\ n % T \in Nat
            BY <1>0, DivMod
          <5>2. Pos = lane * (n \div T)
                      + (IF lane < n % T THEN lane ELSE n % T)
            BY DEF PoolInv, Tiled
          <5> QED BY <5>1, <5>2, <1>0
        <4>2. n = T * (n \div T) + (n % T)
          BY <1>0, DivMod
        <4> QED BY <4>1, <4>2
      <3>3. \A r \in Rows : (\E i \in 0 .. T - 1 : InBlock(i, r)) <=> r < n
        <4>1. ASSUME NEW r \in Rows, r < n
              PROVE  \E i \in 0 .. T - 1 : InBlock(i, r)
          BY <4>1, <3>2, <1>0 DEF PoolInv, Tiled, Written, Rows
        <4>2. ASSUME NEW r \in Rows, NEW i \in 0 .. T - 1, InBlock(i, r)
              PROVE  r < n
          <5>1. i \in Written /\ i \in Lanes /\ r \in Nat
            BY <1>0 DEF Written, Lanes, Rows
          <5>2. block[i].hi \in Nat /\ block[i].hi <= n
            BY <5>1, <3>2 DEF PoolInv, Tiled, TypeOK, Block
          <5> QED BY <5>1, <5>2, <4>2, <1>0 DEF InBlock
        <4> QED BY <4>1, <4>2
      <3>4. \A r \in Rows : work[r] = (IF r < n THEN 1 ELSE 0)
        BY <3>1, <3>3, <1>0 DEF PoolInv, Worked
      <3> QED BY <2>2, <3>4 DEF Worked, Dispatched
    <2> QED BY <2>1, <2>2
  <1> QED BY <1>1, <1>2, <1>3, <1>4, <1>5 DEF PoolInv

-----------------------------------------------------------------------------
(* The workers' steps.                                                     *)

\* A worker that finds nothing new sleeps.
LEMMA DozeKeeps ==
    ASSUME PoolInv, NEW w \in Workers, Doze(w)
    PROVE  PoolInv'
  <1> USE DEF Doze, shared, caller
  <1>0. /\ wpc \in [Workers -> {"unborn", "check", "asleep", "run", "report"}]
        /\ wpc[w] = "check"
        /\ \A v \in Workers : wpc'[v] = IF v = w THEN "asleep" ELSE wpc[v]
    BY DEF PoolInv, TypeOK
  <1>1. TypeOK'
    BY <1>0 DEF PoolInv, TypeOK
  <1>2. PendingExact'
    <2>1. Owing' = Owing
      BY <1>0 DEF Owing
    <2> QED BY <2>1 DEF PoolInv, PendingExact
  <1>3. Quiet' /\ Insiders' /\ Current'
    BY <1>0 DEF PoolInv, Quiet, Insiders, Current, Dispatched
  <1>4. Tiled'
    BY DEF PoolInv, Tiled, Pos, Written, InBlock
  <1>5. Worked'
    <2>1. \A i \in 0 .. T - 1 : T \in 2 .. NThreads => (Ran(i)' <=> Ran(i))
      BY <1>0 DEF Ran, Workers, PoolInv, TypeOK
    <2>2. Dispatched => T \in 2 .. NThreads
      BY DEF PoolInv, Current, Dispatched
    <2> QED BY <2>1, <2>2 DEF PoolInv, Worked, Dispatched, InBlock
  <1> QED BY <1>1, <1>2, <1>3, <1>4, <1>5 DEF PoolInv

\* A worker takes the generation: it still owes its report if the
\* generation uses its lane.
LEMMA TakeKeeps ==
    ASSUME PoolInv, NEW w \in Workers, Take(w)
    PROVE  PoolInv'
  <1> USE DEF Take, shared, caller
  <1>0. /\ wpc \in [Workers -> {"unborn", "check", "asleep", "run", "report"}]
        /\ seen \in [Workers -> Nat] /\ gen \in Nat /\ nlane \in Nat
        /\ mine \in [Workers -> Block] /\ wctx \in [Workers -> Nat]
        /\ ctx \in Nat /\ w \in Lanes /\ block[w] \in Block
        /\ wpc[w] = "check" /\ seen[w] # gen
    BY DEF PoolInv, TypeOK, Workers, Lanes
  <1>00. /\ wpc'[w] = (IF w < nlane THEN "run" ELSE "check")
         /\ seen'[w] = gen /\ mine'[w] = block[w] /\ wctx'[w] = ctx
         /\ \A v \in Workers : v # w =>
               /\ wpc'[v] = wpc[v] /\ seen'[v] = seen[v]
               /\ mine'[v] = mine[v] /\ wctx'[v] = wctx[v]
    BY <1>0 DEF Active
  <1>1. TypeOK'
    BY <1>0 DEF PoolInv, TypeOK, Active
  <1>2. PendingExact'
    <2>1. Owing' = Owing
      <3>1. ASSUME NEW v \in Workers PROVE (v \in Owing)' <=> v \in Owing
        BY <1>0, <1>00, v = w \/ v # w DEF Owing
      <3> QED BY <3>1 DEF Owing
    <2> QED BY <2>1 DEF PoolInv, PendingExact
  <1>3. Quiet' /\ Current'
    BY DEF PoolInv, Quiet, Current, Dispatched
  <1>4. Insiders'
    <2>1. ASSUME NEW v \in Workers
          PROVE  /\ seen'[v] <= gen
                 /\ wpc'[v] \in {"run", "report"} =>
                       /\ seen'[v] = gen /\ v < nlane
                       /\ wctx'[v] = ctx /\ mine'[v] = block[v]
      <3>1. CASE v = w
        BY <3>1, <1>0, <1>00
      <3>2. CASE v # w
        BY <3>2, <1>00 DEF PoolInv, Insiders
      <3> QED BY <3>1, <3>2
    <2> QED BY <2>1 DEF Insiders
  <1>5. Tiled'
    BY DEF PoolInv, Tiled, Pos, Written, InBlock
  <1>6. Worked'
    <2>1. Dispatched => T \in 2 .. NThreads /\ nlane = T
      BY DEF PoolInv, Current, Dispatched
    <2>2. ASSUME Dispatched, NEW i \in 0 .. T - 1
          PROVE  Ran(i)' <=> Ran(i)
      <3>1. CASE i = 0
        BY <3>1 DEF Ran
      <3>2. CASE i = w
        BY <3>2, <2>1, <2>2, <1>0, <1>00 DEF Ran, Workers
      <3>3. CASE i # 0 /\ i # w
        <4>1. i \in Workers
          BY <3>3, <2>1, <2>2 DEF Workers
        <4> QED BY <4>1, <3>3, <1>00 DEF Ran
      <3> QED BY <3>1, <3>2, <3>3
    <2> QED BY <2>2 DEF PoolInv, Worked, Dispatched, InBlock
  <1> QED BY <1>1, <1>2, <1>3, <1>4, <1>5, <1>6 DEF PoolInv

\* A worker computes its block.
LEMMA ComputeKeeps ==
    ASSUME PoolInv, NEW w \in Workers, Compute(w)
    PROVE  PoolInv'
  <1> USE DEF Compute, shared, caller
  <1>0. /\ wpc \in [Workers -> {"unborn", "check", "asleep", "run", "report"}]
        /\ wpc[w] = "run"
        /\ \A v \in Workers : wpc'[v] = IF v = w THEN "report" ELSE wpc[v]
        /\ Dispatched /\ nlane = T /\ T \in 2 .. NThreads
        /\ w < nlane /\ mine[w] = block[w] /\ seen[w] = gen
    BY InsideIsDispatched DEF PoolInv, TypeOK, Insiders, Current, Dispatched
  <1>1. TypeOK'
    BY <1>0 DEF PoolInv, TypeOK, Computed
  <1>2. PendingExact'
    <2>1. Owing' = Owing
      BY <1>0 DEF Owing
    <2> QED BY <2>1 DEF PoolInv, PendingExact
  <1>3. Quiet' /\ Insiders' /\ Current'
    BY <1>0 DEF PoolInv, Quiet, Insiders, Current, Dispatched
  <1>4. Tiled'
    BY DEF PoolInv, Tiled, Pos, Written, InBlock
  <1>5. Worked'
    <2>1. w \in 0 .. T - 1 /\ w # 0
      BY <1>0 DEF Workers
    <2>2. ~Ran(w)
      BY <2>1, <1>0 DEF Ran
    <2>3. \A i \in 0 .. T - 1 : Ran(i)' <=> Ran(i) \/ i = w
      <3>1. \A i \in 0 .. T - 1 : i # 0 => i \in Workers
        BY <1>0 DEF Workers
      <3> QED BY <3>1, <2>1, <1>0 DEF Ran
    <2>4. work' = Computed(block[w].lo, block[w].hi)
      BY <1>0
    <2>5. \A r \in Rows :
             work'[r] = (IF \E i \in 0 .. T - 1 : Ran(i)' /\ InBlock(i, r)
                         THEN 1 ELSE 0)
      BY <2>1, <2>2, <2>3, <2>4, <1>0, BlockRuns
    <2> QED BY <2>5, <1>0 DEF Worked, Dispatched, InBlock
  <1> QED BY <1>1, <1>2, <1>3, <1>4, <1>5 DEF PoolInv

\* A report takes one lane off those that owe.
LEMMA ReportKeeps ==
    ASSUME PoolInv, NEW w \in Workers, Report(w)
    PROVE  PoolInv'
  <1> USE DEF Report
  <1>0. /\ wpc \in [Workers -> {"unborn", "check", "asleep", "run", "report"}]
        /\ wpc[w] = "report"
        /\ \A v \in Workers : wpc'[v] = IF v = w THEN "check" ELSE wpc[v]
        /\ Dispatched /\ nlane = T /\ T \in 2 .. NThreads /\ w \in Owing
        /\ w < nlane /\ seen[w] = gen /\ pending \in Int
    BY InsideIsDispatched DEF PoolInv, TypeOK, Insiders, Current, Dispatched
  <1>1. Dispatched' /\ (mpc' = "lane0" <=> mpc = "lane0")
    BY <1>0 DEF Dispatched
  <1>2. TypeOK'
    <2>1. mpc' \in {"idle", "split", "publish", "lane0", "check", "asleep"}
      BY DEF PoolInv, TypeOK
    <2>2. pending' \in Int
      BY <1>0
    <2> QED BY <1>0, <2>1, <2>2 DEF PoolInv, TypeOK
  <1>3. PendingExact'
    <2>1. Owing' = Owing \ {w}
      BY <1>0 DEF Owing
    <2>2. Cardinality(Owing \ {w}) = Cardinality(Owing) - 1
      BY <1>0, OwingFinite, FS_RemoveElement
    <2> QED BY <2>1, <2>2 DEF PoolInv, PendingExact
  <1>4. Quiet'
    BY <1>1 DEF Quiet
  <1>5. Insiders'
    BY <1>0 DEF PoolInv, Insiders
  <1>6. Current'
    BY <1>0, <1>1 DEF PoolInv, Current, Dispatched
  <1>7. Tiled'
    BY <1>0 DEF PoolInv, Tiled, Pos, Written, InBlock, Dispatched
  <1>8. Worked'
    <2>1. ASSUME NEW i \in 0 .. T - 1
          PROVE  Ran(i)' <=> Ran(i)
      <3>1. CASE i = 0
        BY <3>1, <1>1 DEF Ran
      <3>2. CASE i # 0
        <4>1. i \in Workers
          BY <3>2, <1>0 DEF Workers
        <4> QED BY <4>1, <3>2, <1>0 DEF Ran
      <3> QED BY <3>1, <3>2
    <2> QED BY <2>1, <1>0, <1>1 DEF PoolInv, Worked, Dispatched, InBlock
  <1> QED BY <1>2, <1>3, <1>4, <1>5, <1>6, <1>7, <1>8 DEF PoolInv

\* A spurious wake-up moves a waiter back to its loop.
LEMMA SpuriousKeepsPool ==
    ASSUME PoolInv, Spurious
    PROVE  PoolInv'
  <1> USE DEF Spurious, shared
  <1>0. /\ wpc \in [Workers -> {"unborn", "check", "asleep", "run", "report"}]
        /\ wpc' \in [Workers -> {"unborn", "check", "asleep", "run", "report"}]
        /\ \A v \in Workers : wpc'[v] = wpc[v]
                             \/ (wpc[v] = "asleep" /\ wpc'[v] = "check")
        /\ mpc' = mpc \/ (mpc = "asleep" /\ mpc' = "check")
    <2>1. wpc \in [Workers -> {"unborn", "check", "asleep", "run", "report"}]
      BY DEF PoolInv, TypeOK
    <2>2. CASE mpc = "asleep" /\ mpc' = "check" /\ UNCHANGED wpc
      BY <2>1, <2>2
    <2>3. ASSUME NEW w \in Workers, wpc[w] = "asleep",
                 wpc' = [wpc EXCEPT ![w] = "check"], mpc' = mpc
          PROVE  /\ wpc' \in [Workers ->
                        {"unborn", "check", "asleep", "run", "report"}]
                 /\ \A v \in Workers : wpc'[v] = wpc[v]
                        \/ (wpc[v] = "asleep" /\ wpc'[v] = "check")
      BY <2>1, <2>3
    <2> QED BY <2>1, <2>2, <2>3
  <1>1. TypeOK'
    BY <1>0 DEF PoolInv, TypeOK
  <1>2. PendingExact'
    <2>1. Owing' = Owing
      BY <1>0 DEF Owing
    <2> QED BY <2>1 DEF PoolInv, PendingExact
  <1>3. Quiet' /\ Current'
    BY <1>0 DEF PoolInv, Quiet, Current, Dispatched
  <1>4. Insiders'
    BY <1>0 DEF PoolInv, Insiders
  <1>5. Tiled'
    BY <1>0 DEF PoolInv, Tiled, Pos, Written, InBlock
  <1>6. Worked'
    <2>1. Dispatched => T \in 2 .. NThreads
      BY DEF PoolInv, Current, Dispatched
    <2>2. \A i \in 0 .. T - 1 : T \in 2 .. NThreads => (Ran(i)' <=> Ran(i))
      BY <1>0 DEF Ran, Workers
    <2>3. Dispatched' <=> Dispatched
      BY <1>0 DEF Dispatched
    <2>4. mpc' \in {"idle", "split", "publish"} => mpc' = mpc
      BY <1>0
    <2> QED BY <2>1, <2>2, <2>3, <2>4 DEF PoolInv, Worked, InBlock
  <1> QED BY <1>1, <1>2, <1>3, <1>4, <1>5, <1>6 DEF PoolInv

-----------------------------------------------------------------------------
(* The theorems.                                                           *)

\* Every step of the caller and of the workers keeps the invariant.
LEMMA StepPoolInv == PoolInv /\ [Next]_vars => PoolInv'
  <1> SUFFICES ASSUME PoolInv, [Next]_vars PROVE PoolInv'
    OBVIOUS
  <1>1. CASE \E rows \in 0 .. MaxRows : RunInline(rows) \/ Run(rows)
    BY <1>1, RunInlineKeeps, RunKeeps
  <1>2. CASE CallerStep
    BY <1>2, SplitKeeps, PublishKeeps, Lane0Keeps, AwaitKeeps DEF CallerStep
  <1>3. CASE \E w \in Workers : WorkerStep(w)
    BY <1>3, DozeKeeps, TakeKeeps, ComputeKeeps, ReportKeeps DEF WorkerStep
  <1>4. CASE Spurious
    BY <1>4, SpuriousKeepsPool
  <1>5. CASE UNCHANGED vars
    <2> USE <1>5 DEF vars, shared, caller, worker
    <2>1. TypeOK'
      BY DEF PoolInv, TypeOK
    <2>2. Owing' = Owing
      BY DEF Owing
    <2>3. PendingExact' /\ Quiet' /\ Insiders' /\ Current' /\ Tiled' /\ Worked'
      BY <2>2 DEF PoolInv, PendingExact, Quiet, Insiders, Current, Tiled,
                  Worked, Dispatched, Pos, Written, InBlock, Ran
    <2> QED BY <2>1, <2>3 DEF PoolInv
  <1> QED BY <1>1, <1>2, <1>3, <1>4, <1>5 DEF Next

\* The invariant holds of the pool, whatever the number of lanes and rows.
THEOREM PoolInductive == Spec => []PoolInv
  BY InitPoolInv, StepPoolInv, PTL DEF Spec

\* apus_pool_run returns with every row computed exactly once and no lane
\* still inside fn.
THEOREM RunIsComplete == Spec => []ReturnsDone
  <1>1. PoolInv => ReturnsDone
    <2> SUFFICES ASSUME PoolInv, mpc = "idle" PROVE ReturnsDone
      BY DEF ReturnsDone
    <2>1. \A w \in Workers : ~Inside(w)
      BY InsideIsDispatched DEF Inside, Dispatched
    <2> QED BY <2>1 DEF PoolInv, Worked, ReturnsDone
  <1> QED BY <1>1, PoolInductive, PTL

\* Lanes inside fn work for the call in progress, on rows of their own.
THEOREM LanesNeverCollide == Spec => []LanesApart
  <1>1. PoolInv => LanesApart
    <2> SUFFICES ASSUME PoolInv PROVE LanesApart
      OBVIOUS
    <2>1. ASSUME NEW w \in Workers, Inside(w)
          PROVE  /\ wctx[w] = calls /\ mine[w] = block[w]
                 /\ w \in Written /\ 0 \in Written /\ 0 < w /\ Dispatched
      <3>1. /\ Dispatched /\ ctx = calls /\ nlane = T /\ lane = T
            /\ wctx[w] = ctx /\ mine[w] = block[w] /\ w < nlane
        BY <2>1, InsideIsDispatched DEF PoolInv, Insiders, Inside
      <3>2. T \in Nat /\ w \in Nat /\ 0 < w
        BY DEF PoolInv, TypeOK, Workers
      <3> QED BY <3>1, <3>2 DEF Written
    <2>2. \A i, j \in Written : i < j /\ Dispatched =>
             block[i].hi <= block[j].lo
      BY DEF PoolInv, Tiled, Dispatched
    <2>3. \A v, w \in Workers : v # w => v < w \/ w < v
      BY DEF Workers
    <2> QED BY <2>1, <2>2, <2>3 DEF LanesApart
  <1> QED BY <1>1, PoolInductive, PTL

\* pending is exact, so no report is lost or counted twice.
THEOREM PendingIsExact == Spec => []PendingExact
  BY PoolInductive, PTL DEF PoolInv
=============================================================================
