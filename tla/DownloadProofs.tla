---------------------------- MODULE DownloadProofs ----------------------------
(***************************************************************************)
(* Proofs about the download driver with the converter it calls, for every *)
(* checkpoint, in every layout over any number of shards, for every size   *)
(* of output file and number of kills, at whatever moments they come: what *)
(* the disk holds while a shard is fetched (HoldsNoMore); that the shards  *)
(* of a pending slab stay, until all of it is in the output                *)
(* (PendingIsHeld); and that the driver implements Transfer.               *)
(***************************************************************************)
EXTENDS Download, ConverterProofs

Undone == {s \in Shards : status[s] # "done"}

Shaped ==
    /\ home \in [Tensors -> Shards]
    /\ src \subseteq Shards /\ done \subseteq Shards
    /\ status \in [Shards -> {"pending", "downloaded", "done"}]
    /\ pending \subseteq Slabs /\ \A k \in pending : Members(k) # {}
    /\ verified \subseteq Tensors /\ unverified \subseteq Tensors
    /\ resolved \subseteq Tensors /\ complete \in BOOLEAN
    /\ forgotten \subseteq Tensors
    /\ Filed
    /\ phase \in Groups /\ io \in {"none", "seal", "create"}

\* The converter runs when the driver called it, on the driver's shard.
Working == {"fetch", "fetched", "convert", "verify", "reverify", "mark", "done"}

Control ==
    /\ dpc \notin {"convert", "finalize"} => cpc = "off"
    /\ dpc = "convert" /\ cpc # "off" => job = [shards |-> {dcur}, finish |-> FALSE]
    /\ dpc = "finalize" /\ cpc # "off" => job = [shards |-> {}, finish |-> TRUE]
    /\ cpc \in {"defer", "write", "resolve", "record"} =>
          dpc = "convert" /\ cur = dcur /\ cur \in src \ done
    /\ cpc \in {"seal", "waiting", "publish", "index", "complete"} => dpc = "finalize"
    /\ cpc \in {"publish", "index", "complete"} => pending = {}
    /\ dpc = "convert" /\ cpc = "end" => dcur \in done
    /\ io # "none" => cpc \in {"write", "resolve", "seal"}
    /\ io = "create" => cpc \in {"write", "resolve"}
    /\ io # "none" /\ cpc # "seal" => Todo # {} /\ Readable
    /\ io = "create" => ~open[GroupOf[Upcoming]].is
    /\ dpc = "finalize" => Undone = {}
    /\ dpc \in Working =>
          dcur \in Undone /\ \A s \in Undone : dcur <= s
    /\ dpc \in {"fetched", "verify", "reverify", "mark", "done"} =>
          dpc = "verify" \/ dcur \in src
    /\ dpc \in {"verify", "reverify", "mark", "done"} => dcur \in done

\* At most one shard is on the disk that was not recorded as done, and it is
\* the next one; behind gc, the others are those of pending slabs.
Swept ==
    /\ \A s \in src \cap Undone : \A u \in Undone : s <= u
    /\ dpc \in {"pick", "fetch", "fetched"} => src \ Undone \subseteq Referenced

\* A slab of which some shards are converted, and some not, is pending, or
\* all of it is written (resolved, for a shard that a kill left undone).
\* `resolved` is what the converter resolved on behalf of the shard that it
\* works on.
Deferred ==
    /\ cpc \notin {"resolve", "record", "failed"} => resolved = {}
    /\ \A t \in resolved : /\ SlabOf[t] \in Slabs \ pending
                           /\ ShardsOf(SlabOf[t]) \subseteq done \cup {cur}
                           /\ Members(SlabOf[t]) \subseteq resolved
    /\ \A k \in Slabs :
          ShardsOf(k) \cap done # {} /\ ~(ShardsOf(k) \subseteq done) =>
              k \in pending \/ Members(k) \subseteq Written
    /\ resolved \subseteq Written
    /\ cpc \in {"write", "resolve", "record"} =>
          \A k \in Split(cur) : k \in pending \/ (Members(k) \subseteq resolved)
    /\ PendingIsHeld

\* What is not compared yet, of shards that are recorded as done, waits for
\* its slab, or is owed and its source is there, or a kill made it forgotten.
Compares ==
    /\ \A t \in Tensors : status[home[t]] = "done" =>
          \/ t \in verified \cup unverified \cup resolved \cup forgotten
          \/ SlabOf[t] \in pending
    /\ \A t \in unverified : /\ SlabOf[t] \in Slabs \ pending
                             /\ ShardsOf(SlabOf[t]) \subseteq done
    /\ \A t \in Uncompared \ forgotten : home[t] \in src
    /\ dpc \notin {"convert", "verify", "reverify", "failed"} =>
          unverified \subseteq verified \cup forgotten
    /\ verified \cup unverified \cup forgotten \subseteq Written
    /\ dpc \in {"reverify", "mark", "done"} =>
          \A t \in Tensors : home[t] = dcur => t \in verified \/ SlabOf[t] \in pending

DiskInv == Shaped /\ Control /\ Swept
HeldInv == DiskInv /\ Deferred
MoveInv == HeldInv /\ Compares

----------------------------------------------------------------------------
(***************************************************************************)
(* What the disk holds.                                                    *)
(***************************************************************************)

\* A slab that can be resolved is the first one, when there is any: a
\* pending slab has members, and so a place.
LEMMA FirstReady ==
    ASSUME Shaped, Ready # {}
    PROVE  First \in Ready
<1>1. ASSUME NEW k \in Ready
      PROVE  Place(k) \in Nat
    <2> DEFINE P == {i \in DOMAIN Order : SlabOf[Order[i]] = k}
    <2>1. PICK t \in Tensors : SlabOf[t] = k
        BY DEF Shaped, Filed, Ready, Members
    <2>2. P # {}
        BY <2>1, Places
    <2>3. P \in SUBSET Nat
        BY ConverterAssumption DEF ConverterAssumption
    <2> HIDE DEF P
    <2>4. Min(P) \in Nat
        BY <2>2, <2>3, MinIs
    <2> QED
        BY <2>4 DEF P, Place
<1> DEFINE Ps == {Place(k) : k \in Ready}
<1>2. Ps \in SUBSET Nat /\ Ps # {}
    BY <1>1
<1>3. PICK p \in Ps : \A q \in Ps : p <= q
    <2> HIDE DEF Ps
    <2> QED
        BY <1>2, Least
<1>4. \E k \in Ready : \A j \in Ready : Place(k) <= Place(j)
    BY <1>3
<1>5. QED
    BY <1>4 DEF First

LEMMA DiskInit ==
    ASSUME DownloadInit
    PROVE  DiskInv
<1> USE DEF DownloadInit, Fresh
<1>1. Shaped
    <2>1. NoFile \in [is : BOOLEAN, names : Names] /\ NoFile.names = <<>>
        BY DEF NoFile, Names
    <2>2. [g \in Groups |-> <<>>] \in [Groups -> Seq(Names)]
        OBVIOUS
    <2>3. home \in [Tensors -> Shards]
        BY ConverterAssumption DEF ConverterAssumption
    <2>4. QED
        BY <2>1, <2>2, <2>3 DEF Shaped, Filed, Groups
<1>2. Control
    BY DEF Control, Working
<1>3. Swept
    BY DEF Swept
<1>4. QED
    BY <1>1, <1>2, <1>3 DEF DiskInv

\* The converter only moves while the driver waits for it.
LEMMA StepIsCalled ==
    ASSUME Control, Step
    PROVE  dpc \in {"convert", "finalize"} /\ cpc # "off"
<1>1. cpc # "off"
    BY DEF Control, Step, Load, Validate, NextShard, DeferSlabs, SealHeader,
           SealSave, CreateFile, CreateSave, AppendTensor, Advance,
           ResolveSlab, Resolved, RecordDone, Finalize, PublishManifest,
           PublishIndex, RecordComplete, Sealing, Creating, Copying, Appending
<1>2. QED
    BY <1>1 DEF Control

LEMMA StepKeepsShape ==
    ASSUME Shaped, Control, Step, UNCHANGED record
    PROVE  Shaped'
<1> USE DEF Shaped, Filed, record
<1>1. CASE Load
    BY <1>1 DEF Load, state, Groups
<1>2. CASE Validate
    <2>1. CASE Trusted(phase) /\ open[phase].is /\ Adopted(phase)
        <3>1. Seal(phase)
            BY <1>2, <2>1 DEF Validate
        <3>2. phase \in Groups
            OBVIOUS
        <3>3. QED
            BY <1>2, <3>1, <3>2, SealKeepsShape DEF Validate, Seal, Groups
    <2>2. CASE ~(Trusted(phase) /\ open[phase].is /\ Adopted(phase))
        BY <1>2, <2>2 DEF Validate, state, Groups
    <2>3. QED
        BY <2>1, <2>2
<1>3. CASE NextShard
    BY <1>3 DEF NextShard, state
<1>4. CASE DeferSlabs
    <2>1. \A k \in Split(cur) : k \in Slabs /\ Members(k) # {}
        BY DEF Split, ShardsOf
    <2>2. \A k : Members(k)' = Members(k)
        BY DEF Members
    <2>3. QED
        BY <1>4, <2>1, <2>2 DEF DeferSlabs, Groups
<1>5. CASE SealHeader
    BY <1>5 DEF SealHeader, state
<1>6. CASE SealSave
    <2>1. Stream \in Groups
        BY <1>6, StreamIsOne DEF SealSave, Control
    <2>2. QED
        BY <1>6, <2>1, SealKeepsShape DEF SealSave, Seal
<1>7. CASE CreateFile
    BY <1>7 DEF CreateFile, state
<1>8. CASE CreateSave
    <2>1. Names = Seq(Tensors) /\ <<>> \in Names
        BY DEF Names
    <2>2. QED
        BY <1>8, <2>1 DEF CreateSave
<1>9. CASE AppendTensor
    <2>1. Todo # {} /\ Upcoming \in Tensors /\ Stream \in Groups /\ open[Stream].is
        BY <1>9, NextMissing, StreamIsOne DEF AppendTensor, Copying, Appending
    <2>2. Append(open[Stream].names, Upcoming) \in Names
        BY <2>1 DEF Names
    <2>3. open' = [open EXCEPT ![Stream].names = Append(@, Upcoming)]
        BY <1>9 DEF AppendTensor
    <2>4. QED
        BY <1>9, <2>1, <2>2, <2>3 DEF AppendTensor, process
<1>10. CASE Advance
    BY <1>10 DEF Advance, state, Groups
<1>11. CASE ResolveSlab
    <2>1. Ready # {} => First \in Ready
        BY FirstReady
    <2>2. Members(First) \subseteq Tensors
        BY DEF Members
    <2>3. \A k : Members(k)' = Members(k)
        BY DEF Members
    <2>4. QED
        BY <1>11, <2>1, <2>2, <2>3 DEF ResolveSlab
<1>12. CASE Resolved
    BY <1>12 DEF Resolved, state, process
<1>13. CASE RecordDone
    BY <1>13 DEF RecordDone, Owed, Control
<1>14. CASE Finalize
    BY <1>14 DEF Finalize, state, process
<1>15. CASE PublishManifest
    BY <1>15 DEF PublishManifest, state, process
<1>16. CASE PublishIndex
    BY <1>16 DEF PublishIndex, state, process
<1>17. CASE RecordComplete
    BY <1>17 DEF RecordComplete, process
<1>18. QED
    BY <1>1, <1>2, <1>3, <1>4, <1>5, <1>6, <1>7, <1>8, <1>9, <1>10, <1>11,
       <1>12, <1>13, <1>14, <1>15, <1>16, <1>17 DEF Step

LEMMA StepKeepsControl ==
    ASSUME Shaped, Control, Step, UNCHANGED <<status, driver>>
    PROVE  Control'
<1> USE DEF Control
<1>1. dpc \in {"convert", "finalize"} /\ UNCHANGED <<dpc, dcur>> /\ cpc # "off"
    BY StepIsCalled DEF driver
<1>2. Undone' = Undone
    BY DEF Undone
<1>3. CASE Load
    BY <1>1, <1>2, <1>3 DEF Load, state
<1>4. CASE Validate
    BY <1>1, <1>2, <1>4 DEF Validate, state, Seal
<1>5. CASE NextShard
    <2>1. job.shards \subseteq Shards
        BY <1>1, <1>2, <1>5 DEF NextShard, Working, Undone
    <2>2. Left # {} => Min(Left) \in Left
        BY <2>1, MinIs, ConverterAssumption DEF ConverterAssumption, Left
    <2>3. dpc = "convert" => job.shards = {dcur} /\ ~job.finish
        BY <1>1, <1>5 DEF NextShard
    <2>4. dpc = "finalize" => job.shards = {} /\ job.finish
        BY <1>1, <1>5 DEF NextShard
    <2>5. dpc = "finalize" => Left = {}
        BY <2>4 DEF Left
    <2>6. dpc = "convert" => \/ Left = {} /\ dcur \in done
                             \/ Left = {dcur} /\ dcur \notin done
        BY <2>3 DEF Left
    <2>7. CASE dpc = "convert"
        BY <1>1, <1>2, <1>5, <2>2, <2>3, <2>6, <2>7 DEF NextShard, state
    <2>8. CASE dpc = "finalize"
        BY <1>1, <1>2, <1>5, <2>4, <2>5, <2>8 DEF NextShard, state
    <2>9. QED
        BY <1>1, <2>7, <2>8
<1>6. CASE DeferSlabs
    BY <1>1, <1>2, <1>6 DEF DeferSlabs
<1>7. CASE SealHeader
    <2>1. Todo' = Todo /\ Readable' = Readable
        BY <1>7, TodoFixed DEF SealHeader, state
    <2>2. cpc # "seal" => Todo # {} /\ Readable
        BY <1>7 DEF SealHeader, Sealing, Appending
    <2>3. cpc \in {"write", "resolve", "seal"}
        BY <1>7 DEF SealHeader, Sealing, Appending
    <2>4. QED
        BY <1>1, <1>2, <1>7, <2>1, <2>2, <2>3 DEF SealHeader, state
<1>8. CASE SealSave
    BY <1>1, <1>2, <1>8 DEF SealSave, Seal
<1>9. CASE CreateFile
    <2>1. Todo' = Todo /\ Upcoming' = Upcoming /\ Readable' = Readable
        BY <1>9, TodoFixed DEF CreateFile, state
    <2>2. cpc \in {"write", "resolve"} /\ Todo # {} /\ Readable
        BY <1>9 DEF CreateFile, Creating, Appending
    <2>3. ~open[GroupOf[Upcoming]].is
        BY <1>9, <2>2 DEF CreateFile, Creating, Stream
    <2>4. QED
        BY <1>1, <1>2, <1>9, <2>1, <2>2, <2>3 DEF CreateFile, state
<1>10. CASE CreateSave
    BY <1>1, <1>2, <1>10 DEF CreateSave
<1>11. CASE AppendTensor
    BY <1>1, <1>2, <1>11 DEF AppendTensor, process, Copying, Appending
<1>12. CASE Advance
    BY <1>1, <1>2, <1>12 DEF Advance, state
<1>13. CASE ResolveSlab
    BY <1>1, <1>2, <1>13 DEF ResolveSlab
<1>14. CASE Resolved
    BY <1>1, <1>2, <1>14 DEF Resolved, state, process
<1>15. CASE RecordDone
    BY <1>1, <1>2, <1>15 DEF RecordDone
<1>16. CASE Finalize
    BY <1>1, <1>2, <1>16 DEF Finalize, state, process
<1>17. CASE PublishManifest
    BY <1>1, <1>2, <1>17 DEF PublishManifest, state, process
<1>18. CASE PublishIndex
    BY <1>1, <1>2, <1>18 DEF PublishIndex, state, process
<1>19. CASE RecordComplete
    BY <1>1, <1>2, <1>19 DEF RecordComplete, process
<1>20. QED
    BY <1>3, <1>4, <1>5, <1>6, <1>7, <1>8, <1>9, <1>10, <1>11, <1>12, <1>13,
       <1>14, <1>15, <1>16, <1>17, <1>18, <1>19 DEF Step

LEMMA StepKeepsDisk ==
    ASSUME DiskInv, ConverterStep
    PROVE  DiskInv'
<1>1. Shaped' /\ Control'
    BY StepKeepsShape, StepKeepsControl DEF DiskInv, ConverterStep, driver, record
<1>2. dpc \in {"convert", "finalize"} /\ UNCHANGED <<dpc, status>>
    BY StepIsCalled DEF DiskInv, ConverterStep, driver, record
<1>3. UNCHANGED src
    BY DEF ConverterStep, Step, Load, Validate, NextShard, DeferSlabs,
           SealHeader, SealSave, CreateFile, CreateSave, AppendTensor, Advance,
           ResolveSlab, Resolved, RecordDone, Finalize, PublishManifest,
           PublishIndex, RecordComplete
<1>4. Swept'
    BY <1>2, <1>3 DEF DiskInv, Swept, Undone
<1>5. QED
    BY <1>1, <1>4 DEF DiskInv

\* The driver's own steps.  When it picks a shard, gc has left those of
\* pending slabs, and at most one that is not recorded as done: the first.
LEMMA DriverKeepsDisk ==
    ASSUME DiskInv, DriverStep
    PROVE  DiskInv'
<1> USE DEF DiskInv, Shaped, Filed, Control, Swept, vars, record, state, product, process, history
<1>1. Undone \subseteq Shards /\ Shards \subseteq Nat
    BY ConverterAssumption DEF ConverterAssumption, Undone
<1>2. CASE Run
    <2>1. Undone' = Undone /\ Referenced' = Referenced
        BY <1>2 DEF Run, Undone, Referenced, ShardsOf
    <2>2. QED
        BY <1>2, <2>1 DEF Run, Working
<1>3. CASE Gc
    <2>1. Undone' = Undone /\ Referenced' = Referenced
        BY <1>3 DEF Gc, Undone, Referenced, ShardsOf
    <2>2. src' \subseteq src
        BY <1>3 DEF Gc
    <2>3. dpc' = "pick" => src' \ Undone \subseteq Referenced
        BY <1>3 DEF Gc, Deletable, Undone
    <2>4. cpc = "off" /\ cpc' = "off" /\ io = "none" /\ io' = "none"
        BY <1>3 DEF Gc
    <2>5. Shaped'
        BY <1>3, <2>2 DEF Gc
    <2>6. Control'
        BY <1>3, <2>4 DEF Gc, Working
    <2>7. Swept'
        BY <1>3, <2>1, <2>2, <2>3 DEF Gc
    <2>8. QED
        BY <2>5, <2>6, <2>7
<1>4. CASE Pick
    <2>1. Undone' = Undone /\ Referenced' = Referenced
        BY <1>4 DEF Pick, Undone, Referenced, ShardsOf
    <2>2. Undone # {} => /\ Min(Undone) \in Undone
                         /\ \A s \in Undone : Min(Undone) <= s
        BY <1>1, MinIs
    <2>3. cpc = "off" /\ cpc' = "off" /\ io = "none" /\ io' = "none"
        BY <1>4 DEF Pick
    <2>4. \/ Undone = {} /\ dpc' = "finalize" /\ dcur' = 0
          \/ Undone # {} /\ dpc' = "fetch" /\ dcur' = Min(Undone)
        BY <1>4 DEF Pick, Undone
    <2>5. Shaped'
        BY <1>4 DEF Pick
    <2>6. Control'
        BY <1>4, <2>1, <2>2, <2>3, <2>4 DEF Pick, Working
    <2>7. Swept'
        BY <1>4, <2>1, <2>4 DEF Pick
    <2>8. QED
        BY <2>5, <2>6, <2>7
<1>5. CASE Fetch
    <2>1. Undone' = Undone /\ Referenced' = Referenced
        BY <1>5 DEF Fetch, Working, Undone, Referenced, ShardsOf
    <2>2. dcur \in Undone /\ \A s \in Undone : dcur <= s
        BY <1>5 DEF Fetch, Working
    <2>3. cpc = "off" /\ cpc' = "off" /\ io = "none" /\ io' = "none"
        BY <1>5 DEF Fetch
    <2>4. src \subseteq src' /\ src' \subseteq src \cup {dcur}
        BY <1>5 DEF Fetch
    <2>5. dpc' = "fetched" => dcur \in src'
        BY <1>5 DEF Fetch
    <2>6. Shaped'
        BY <1>1, <1>5, <2>2, <2>4 DEF Fetch
    <2>7. Control'
        BY <1>5, <2>1, <2>2, <2>3, <2>5 DEF Fetch, Working
    <2>8. Swept'
        BY <1>5, <2>1, <2>2, <2>4 DEF Fetch
    <2>9. QED
        BY <2>6, <2>7, <2>8
<1>6. CASE Fetched
    <2>1. Undone' = Undone
        BY <1>6 DEF Fetched, Undone, Working
    <2>2. cpc = "off" /\ cpc' = "off" /\ io = "none" /\ io' = "none"
        BY <1>6 DEF Fetched
    <2>3. Shaped'
        BY <1>6 DEF Fetched
    <2>4. Control'
        BY <1>6, <2>1, <2>2 DEF Fetched, Working
    <2>5. Swept'
        BY <1>6, <2>1 DEF Fetched
    <2>6. QED
        BY <2>3, <2>4, <2>5
<1>7. CASE Call
    <2>1. Undone' = Undone
        BY <1>7 DEF Call, Undone
    <2>2. io = "none" /\ io' = "none" /\ cpc' = "load" /\ UNCHANGED <<dpc, dcur>>
        BY <1>7 DEF Call, driver
    <2>3. Shaped'
        BY <1>7 DEF Call
    <2>4. Control'
        BY <1>7, <2>1, <2>2 DEF Call, Working
    <2>5. Swept'
        BY <1>7, <2>1, <2>2 DEF Call
    <2>6. QED
        BY <2>3, <2>4, <2>5
<1>8. CASE Return
    <2>1. Undone' = Undone
        BY <1>8 DEF Return, Undone
    <2>2. io = "none" /\ io' = "none" /\ cpc' = "off" /\ UNCHANGED dcur
        BY <1>8 DEF Return
    <2>3. Shaped'
        BY <1>8 DEF Return, Groups
    <2>4. Control'
        BY <1>8, <2>1, <2>2 DEF Return, Working
    <2>5. Swept'
        BY <1>8, <2>1, <2>2 DEF Return
    <2>6. QED
        BY <2>3, <2>4, <2>5
<1>9. CASE Verify \/ Reverify
    <2>1. Undone' = Undone
        BY <1>9 DEF Verify, Reverify, Undone
    <2>2. cpc = "off" /\ cpc' = "off" /\ io = "none" /\ io' = "none"
        BY <1>9 DEF Verify, Reverify
    <2>3. verified' \subseteq Tensors
        BY <1>9 DEF Verify, Reverify, Compared
    <2>4. Shaped'
        BY <1>9, <2>3 DEF Verify, Reverify
    <2>5. Control'
        BY <1>9, <2>1, <2>2 DEF Verify, Reverify, Working
    <2>6. Swept'
        BY <1>9, <2>1 DEF Verify, Reverify
    <2>7. QED
        BY <2>4, <2>5, <2>6
<1>10. CASE Mark
    <2>1. Undone' = Undone
        BY <1>10 DEF Mark, Undone
    <2>2. cpc = "off" /\ cpc' = "off" /\ io = "none" /\ io' = "none"
        BY <1>10 DEF Mark
    <2>3. Shaped'
        BY <1>10 DEF Mark
    <2>4. Control'
        BY <1>10, <2>1, <2>2 DEF Mark, Working
    <2>5. Swept'
        BY <1>10, <2>1 DEF Mark
    <2>6. QED
        BY <2>3, <2>4, <2>5
<1>11. CASE Done
    <2>1. Undone' = Undone \ {dcur}
        BY <1>11 DEF Done, Undone, Working
    <2>2. cpc = "off" /\ cpc' = "off" /\ io = "none" /\ io' = "none"
        BY <1>11 DEF Done
    <2>3. src \cap Undone \subseteq {dcur}
        <3>1. dcur \in Undone /\ \A s \in Undone : dcur <= s
            BY <1>11 DEF Done, Working
        <3>2. ASSUME NEW s \in src \cap Undone
              PROVE  s = dcur
            <4>1. s \in Nat /\ dcur \in Nat
                BY <1>1, <3>1
            <4>2. s <= dcur /\ dcur <= s
                BY <3>1
            <4>3. QED
                BY <4>1, <4>2
        <3>3. QED
            BY <3>2
    <2>4. Shaped'
        BY <1>11 DEF Done
    <2>5. Control'
        BY <1>11, <2>2 DEF Done, Working
    <2>6. Swept'
        BY <1>11, <2>1, <2>3 DEF Done
    <2>7. QED
        BY <2>4, <2>5, <2>6
<1>12. QED
    BY <1>2, <1>3, <1>4, <1>5, <1>6, <1>7, <1>8, <1>9, <1>10, <1>11
       DEF DriverStep

LEMMA CrashKeepsDisk ==
    ASSUME DiskInv, DownloadCrash
    PROVE  DiskInv'
<1> USE DEF DownloadCrash, Killed, state
<1>1. Shaped'
    BY DEF DiskInv, Shaped, Filed, Groups, Uncompared
<1>2. Control'
    BY DEF DiskInv, Control, Working
<1>3. Undone' = Undone
    BY DEF Undone
<1>4. Swept'
    BY <1>3 DEF DiskInv, Swept
<1>5. QED
    BY <1>1, <1>2, <1>4 DEF DiskInv

LEMMA DiskNext ==
    ASSUME DiskInv, [DownloadNext]_dvars
    PROVE  DiskInv'
<1>1. CASE DriverStep
    BY <1>1, DriverKeepsDisk
<1>2. CASE ConverterStep
    BY <1>2, StepKeepsDisk
<1>3. CASE DownloadCrash
    BY <1>3, CrashKeepsDisk
<1>4. CASE UNCHANGED dvars
    <2> USE <1>4 DEF dvars, vars, record, driver, state, process
    <2>1. Shaped'
        BY DEF DiskInv, Shaped, Filed
    <2>2. Todo' = Todo /\ Upcoming' = Upcoming /\ Readable' = Readable
        BY TodoFixed
    <2>3. Undone' = Undone /\ Referenced' = Referenced
        BY DEF Undone, Referenced, ShardsOf
    <2>4. Control'
        BY <2>2, <2>3 DEF DiskInv, Control
    <2>5. Swept'
        BY <2>3 DEF DiskInv, Swept
    <2>6. QED
        BY <2>1, <2>4, <2>5 DEF DiskInv
<1>5. QED
    BY <1>1, <1>2, <1>3, <1>4 DEF DownloadNext

\* Where driver and converter are, which shard they work on, and which sources
\* are on the disk, across restarts: the facts every other theorem needs.
THEOREM DiskInvariant == DownloadSpec => []DiskInv
<1>1. DownloadInit => DiskInv
    BY DiskInit
<1>2. DiskInv /\ [DownloadNext]_dvars => DiskInv'
    BY DiskNext
<1>3. QED
    BY <1>1, <1>2, PTL DEF DownloadSpec

\* Whenever the driver fetches a shard, every other source shard on the disk
\* is one that a pending slab has a member in: the peak of the disk is one
\* shard over what the deferred slabs need, whatever kills came before.
THEOREM DiskIsBounded == DownloadSpec => []HoldsNoMore
<1>1. DiskInv => HoldsNoMore
    <2> SUFFICES ASSUME DiskInv, dpc \in {"fetch", "fetched"},
                        NEW s \in src, s # dcur
                 PROVE  s \in Referenced
        BY DEF HoldsNoMore
    <2>1. dcur \in Undone /\ \A u \in Undone : dcur <= u
        BY DEF DiskInv, Control, Working
    <2>2. \A t \in src \cap Undone : t <= dcur
        BY <2>1 DEF DiskInv, Swept
    <2>3. Undone \subseteq Nat
        BY ConverterAssumption DEF ConverterAssumption, Undone
    <2>4. ASSUME s \in Undone
          PROVE  FALSE
        <3>1. s <= dcur /\ dcur <= s
            BY <2>1, <2>2, <2>4
        <3>2. s \in Nat /\ dcur \in Nat
            BY <2>1, <2>3, <2>4
        <3>3. QED
            BY <3>1, <3>2
    <2>5. QED
        BY <2>4 DEF DiskInv, Swept
<1>2. QED
    BY <1>1, DiskInvariant, PTL

----------------------------------------------------------------------------
(***************************************************************************)
(* What is written stays.  Only three steps change what is committed, or   *)
(* look as if they did: one appends, one moves the names of an open file   *)
(* to a sealed one, and one opens an empty file.                           *)
(***************************************************************************)

LEMMA CreateCommitsNothing ==
    ASSUME Shaped, Control, CreateSave
    PROVE  Written' = Written
<1> DEFINE G == GroupOf[Upcoming]
<1>1. Upcoming \in Tensors
    BY NextMissing DEF Control, CreateSave
<1>2. G \in Groups /\ ~open[G].is
    BY <1>1, ConverterAssumption DEF ConverterAssumption, CreateSave, Control
<1>3. open' = [open EXCEPT ![G] = [is |-> TRUE, names |-> <<>>]] /\ UNCHANGED sealed
    BY DEF CreateSave
<1>4. \A h \in Groups : open'[h].names = open[h].names
    <2> HIDE DEF G
    <2>1. open[G].names = <<>>
        BY <1>2 DEF Shaped, Filed
    <2>2. QED
        BY <1>2, <1>3, <2>1 DEF Shaped, Filed
<1>5. QED
    BY <1>3, <1>4 DEF Written, Committed

\* What a step commits, if anything, is a tensor that was not there, and its
\* source is on the disk.
LEMMA StepCommits ==
    ASSUME DiskInv, Step
    PROVE  \/ UNCHANGED Written
           \/ \E t \in Tensors : /\ t \notin Written /\ home[t] \in src
                                /\ Written' = Written \cup {t}
                                /\ UNCHANGED complete
<1> USE DEF DiskInv
<1>1. CASE Validate
    <2>1. CASE Trusted(phase) /\ open[phase].is /\ Adopted(phase)
        <3>1. Seal(phase) /\ phase \in Groups
            BY <1>1, <2>1 DEF Validate, Shaped, Filed
        <3>2. QED
            BY <3>1, SealCommitsNothing DEF Shaped
    <2>2. CASE ~(Trusted(phase) /\ open[phase].is /\ Adopted(phase))
        BY <1>1, <2>2 DEF Validate, state, Written, Committed
    <2>3. QED
        BY <2>1, <2>2
<1>2. CASE SealSave
    <2>1. Stream \in Groups
        BY <1>2, StreamIsOne DEF SealSave, Control
    <2>2. QED
        BY <1>2, <2>1, SealCommitsNothing DEF Shaped, SealSave
<1>3. CASE CreateSave
    BY <1>3, CreateCommitsNothing
<1>4. CASE AppendTensor
    <2>1. /\ cpc \in {"write", "resolve"} /\ Readable /\ Todo # {}
        BY <1>4 DEF AppendTensor, Copying, Appending
    <2>2. Upcoming \in Tensors /\ Missing(Upcoming) /\ Stream \in Groups
        BY <2>1, NextMissing, StreamIsOne
    <2>3. /\ open' = [open EXCEPT ![Stream].names = Append(@, Upcoming)]
          /\ UNCHANGED <<sealed, complete>>
        BY <1>4 DEF AppendTensor
    <2>4. Written' = Written \cup {Upcoming}
        BY <2>2, <2>3, AppendCommitsOne DEF Shaped
    <2>5. Upcoming \notin Written
        BY <2>2 DEF Missing
    <2>6. home[Upcoming] \in src
        <3>1. CASE cpc = "write"
            BY <2>2, <3>1 DEF Missing, Planned, Control
        <3>2. CASE cpc = "resolve"
            BY <2>1, <2>2, <3>2 DEF Missing, Readable, ShardsOf, Members
        <3>3. QED
            BY <2>1, <3>1, <3>2
    <2>7. QED
        BY <2>2, <2>3, <2>4, <2>5, <2>6
<1>5. CASE ~(Validate \/ SealSave \/ CreateSave \/ AppendTensor)
    <2>1. UNCHANGED <<open, sealed>>
        BY <1>5 DEF Step, Load, NextShard, DeferSlabs, SealHeader, CreateFile,
           Advance, ResolveSlab, Resolved, RecordDone, Finalize,
           PublishManifest, PublishIndex, RecordComplete, state
    <2>2. QED
        BY <2>1 DEF Written, Committed
<1>6. QED
    BY <1>1, <1>2, <1>3, <1>4, <1>5

LEMMA WrittenAreTensors ==
    ASSUME Shaped
    PROVE  Written \subseteq Tensors
<1>1. \A g \in Groups : open[g].names \in Seq(Tensors) /\ sealed[g] \in Seq(Seq(Tensors))
    BY DEF Shaped, Filed, Names
<1>2. \A g \in Groups : ToSet(open[g].names) \subseteq Tensors
    BY <1>1 DEF ToSet
<1>3. \A g \in Groups : \A i \in DOMAIN sealed[g] : sealed[g][i] \in Seq(Tensors)
    BY <1>1
<1>4. \A g \in Groups : \A i \in DOMAIN sealed[g] : ToSet(sealed[g][i]) \subseteq Tensors
    BY <1>3 DEF ToSet
<1>5. QED
    BY <1>2, <1>4 DEF Written, Committed

LEMMA WrittenStays ==
    ASSUME DiskInv, [DownloadNext]_dvars
    PROVE  Written \subseteq Written'
<1>1. CASE ConverterStep
    BY <1>1, StepCommits DEF ConverterStep
<1>2. CASE ~ConverterStep
    BY <1>2 DEF DownloadNext, DriverStep, Run, Gc, Pick, Fetch, Fetched, Call,
           Return, Verify, Reverify, Mark, Done, DownloadCrash, Killed,
           dvars, vars, state, Written, Committed
<1>3. QED
    BY <1>1, <1>2

----------------------------------------------------------------------------
(***************************************************************************)
(* The shards of a pending slab stay until all of it is written.           *)
(***************************************************************************)

\* When nothing is left to append of the slab that is resolved, all of its
\* members are written.
LEMMA ResolvedIsWritten ==
    ASSUME cpc = "resolve", Todo = {}
    PROVE  Members(First) \subseteq Written
<1> SUFFICES ASSUME NEW t \in Members(First), t \notin Written PROVE FALSE
    OBVIOUS
<1>1. t \in Tensors /\ Missing(t)
    BY DEF Members, Missing
<1>2. PICK i \in DOMAIN Order : Order[i] = t
    BY <1>1 DEF Tensors, ToSet
<1>3. i \in Todo
    BY <1>1, <1>2 DEF Todo
<1>4. QED
    BY <1>3

LEMMA StepKeepsDeferred ==
    ASSUME HeldInv, Step, Written \subseteq Written'
    PROVE  Deferred'
<1> USE DEF HeldInv, Deferred, PendingIsHeld
<1>1. UNCHANGED <<home, src>>
    BY DEF Step, Load, Validate, NextShard, DeferSlabs,
           SealHeader, SealSave, CreateFile, CreateSave, AppendTensor, Advance,
           ResolveSlab, Resolved, RecordDone, Finalize, PublishManifest,
           PublishIndex, RecordComplete
<1>2. /\ \A k : ShardsOf(k)' = ShardsOf(k) /\ Members(k)' = Members(k)
      /\ \A s : Split(s)' = Split(s)
    BY <1>1, LayoutFixed DEF Members
<1>3. \A k : \A s \in ShardsOf(k) : Members(k) # {}
    BY DEF ShardsOf
<1> DEFINE W == Written
<1> HIDE DEF W
<1>4. W = Written /\ W \subseteq Written'
    BY DEF W
<1>5. CASE DeferSlabs
    <2>1. cur \notin done /\ cpc = "defer" /\ cpc' = "write"
        BY <1>5 DEF DeferSlabs, DiskInv, Control
    <2>2. pending' = pending \cup Split(cur) /\ UNCHANGED <<done, cur, resolved>>
        BY <1>5 DEF DeferSlabs
    <2>3. resolved = {}
        BY <2>1
    <2>4. ASSUME NEW k \in Split(cur)
          PROVE  ShardsOf(k) \cap done \subseteq src \/ Members(k) \subseteq W
        <3>1. k \in Slabs /\ cur \in ShardsOf(k) /\ Members(k) # {}
            BY <1>3 DEF Split
        <3>2. CASE ShardsOf(k) \cap done = {}
            BY <3>2
        <3>3. CASE ShardsOf(k) \cap done # {}
            BY <1>4, <2>1, <3>1, <3>3
        <3>4. QED
            BY <3>2, <3>3
    <2>5. QED
        BY <1>1, <1>2, <1>4, <2>1, <2>2, <2>3, <2>4
<1>6. CASE ResolveSlab
    <2>1. cpc = "resolve" /\ Ready # {} /\ (Readable => Todo = {})
        BY <1>6 DEF ResolveSlab
    <2>2. First \in Ready /\ First \in Slabs /\ ShardsOf(First) \subseteq done \cup {cur}
        BY <2>1, FirstReady DEF DiskInv, Shaped, Filed, Ready
    <2>3. CASE Readable
        <3>1. /\ pending' = pending \ {First} /\ resolved' = resolved \cup Members(First)
              /\ UNCHANGED <<done, cur, cpc>>
            BY <1>6, <2>3 DEF ResolveSlab
        <3>2. \A t \in Members(First) : SlabOf[t] = First
            BY DEF Members
        <3>3. Members(First) \subseteq Written
            BY <2>1, <2>3, ResolvedIsWritten
        <3>4. QED
            BY <1>1, <1>2, <1>4, <2>1, <2>2, <3>1, <3>2, <3>3
    <2>4. CASE ~Readable
        <3>1. cpc' = "failed" /\ UNCHANGED <<done, cur, pending, resolved>>
            BY <1>6, <2>4 DEF ResolveSlab
        <3>2. QED
            BY <1>1, <1>2, <1>4, <2>1, <3>1
    <2>5. QED
        BY <2>3, <2>4
<1>7. CASE RecordDone
    <2>1. /\ done' = done \cup {cur} /\ resolved' = {} /\ cpc = "record" /\ cpc' = "next"
          /\ UNCHANGED pending
        BY <1>7 DEF RecordDone
    <2>2. cur \in src
        BY <2>1 DEF DiskInv, Control
    <2>3. ASSUME NEW k \in Slabs, ShardsOf(k) \cap done' # {}, ~(ShardsOf(k) \subseteq done')
          PROVE  k \in pending \/ Members(k) \subseteq W
        BY <1>3, <1>4, <2>1, <2>3 DEF Split
    <2>4. QED
        BY <1>1, <1>2, <1>4, <2>1, <2>2, <2>3
<1>8. CASE ~(DeferSlabs \/ ResolveSlab \/ RecordDone)
    <2>1. UNCHANGED <<done, pending, resolved>>
        BY <1>8 DEF Step, Load, Validate, Seal, NextShard, SealHeader,
           SealSave, CreateFile, CreateSave, AppendTensor, Advance,
           Resolved, Finalize, PublishManifest, PublishIndex,
           RecordComplete, state, process
    <2>2. cpc' \in {"write", "resolve", "record"} =>
              cpc \in {"write", "resolve", "record"} /\ UNCHANGED cur
        BY <1>8 DEF Step, Load, Validate, NextShard, SealHeader,
           SealSave, CreateFile, CreateSave, AppendTensor, Advance,
           Resolved, Finalize, PublishManifest, PublishIndex,
           RecordComplete, state, process
    <2>3. cpc \in {"resolve", "record"} =>
              cpc' \in {"resolve", "record"} /\ UNCHANGED cur
        BY <1>8 DEF Step, Load, Validate, NextShard, SealHeader,
           SealSave, CreateFile, CreateSave, AppendTensor, Advance,
           Resolved, Finalize, PublishManifest, PublishIndex,
           RecordComplete, state, process
    <2>4. cpc # "failed"
        BY DEF DiskInv, Control, Step, Load, Validate, NextShard, DeferSlabs,
           SealHeader, SealSave, CreateFile, CreateSave, AppendTensor, Advance,
           ResolveSlab, Resolved, RecordDone, Finalize, PublishManifest,
           PublishIndex, RecordComplete, Sealing, Creating, Copying, Appending
    <2>5. QED
        BY <1>1, <1>2, <1>4, <2>1, <2>2, <2>3, <2>4
<1>9. QED
    BY <1>5, <1>6, <1>7, <1>8

LEMMA DriverKeepsDeferred ==
    ASSUME HeldInv, DriverStep
    PROVE  Deferred'
<1> USE DEF HeldInv, Deferred, PendingIsHeld
<1>1. UNCHANGED <<home, done, pending, resolved>> /\ Written' = Written
    BY DEF DriverStep, Run, Gc, Pick, Fetch, Fetched, Call, Return, Verify,
           Reverify, Mark, Done, vars, state, process, Written, Committed
<1>2. /\ \A k : ShardsOf(k)' = ShardsOf(k) /\ Members(k)' = Members(k)
      /\ \A s : Split(s)' = Split(s)
    BY <1>1, LayoutFixed DEF Members
<1>3. /\ cpc \notin {"write", "resolve", "record", "failed"}
      /\ cpc' \notin {"write", "resolve", "record", "failed"}
    BY DEF DriverStep, Run, Gc, Pick, Fetch, Fetched, Call, Return, Verify,
           Reverify, Mark, Done, vars, DiskInv, Control
<1>4. resolved = {}
    BY <1>3
<1>5. CASE Gc
    <2>1. \A s \in src \ src' : s \notin Referenced
        BY <1>5 DEF Gc, Deletable
    <2>2. PendingIsHeld'
        BY <1>1, <1>2, <2>1 DEF Referenced
    <2>3. QED
        BY <1>1, <1>2, <1>3, <1>4, <2>2
<1>6. CASE ~Gc
    <2>1. src \subseteq src'
        BY <1>6 DEF DriverStep, Run, Pick, Fetch, Fetched, Call, Return, Verify,
           Reverify, Mark, Done, vars
    <2>2. QED
        BY <1>1, <1>2, <1>3, <1>4, <2>1
<1>7. QED
    BY <1>5, <1>6

LEMMA HeldNext ==
    ASSUME HeldInv, [DownloadNext]_dvars
    PROVE  HeldInv'
<1>1. DiskInv' /\ Written \subseteq Written'
    BY DiskNext, WrittenStays DEF HeldInv
<1>2. CASE DriverStep
    BY <1>1, <1>2, DriverKeepsDeferred DEF HeldInv
<1>3. CASE ConverterStep
    BY <1>1, <1>3, StepKeepsDeferred DEF HeldInv, ConverterStep
<1>4. CASE DownloadCrash \/ UNCHANGED dvars
    <2>1. UNCHANGED <<home, src, done, pending>> /\ Written' = Written
        BY <1>4 DEF DownloadCrash, Killed, dvars, vars, state, Written, Committed
    <2>2. /\ \A k : ShardsOf(k)' = ShardsOf(k) /\ Members(k)' = Members(k)
          /\ \A s : Split(s)' = Split(s)
        BY <2>1, LayoutFixed DEF Members
    <2>3. CASE DownloadCrash
        <3>1. resolved' = {} /\ cpc' = "off"
            BY <2>3 DEF DownloadCrash, Killed
        <3>2. QED
            BY <1>1, <2>1, <2>2, <3>1 DEF HeldInv, Deferred, PendingIsHeld
    <2>4. CASE UNCHANGED dvars
        <3>1. UNCHANGED <<resolved, cpc, cur>>
            BY <2>4 DEF dvars, vars, process
        <3>2. QED
            BY <1>1, <2>1, <2>2, <3>1 DEF HeldInv, Deferred, PendingIsHeld
    <2>5. QED
        BY <1>4, <2>3, <2>4
<1>5. QED
    BY <1>2, <1>3, <1>4 DEF DownloadNext

\* A slab that was converted in part is pending or written, and the shards
\* that a pending slab waits for are on the disk, or it is written.
THEOREM HeldInvariant == DownloadSpec => []HeldInv
<1>1. DownloadInit => HeldInv
    BY DiskInit DEF HeldInv, Deferred, PendingIsHeld, DownloadInit, Fresh
<1>2. HeldInv /\ [DownloadNext]_dvars => HeldInv'
    BY HeldNext
<1>3. QED
    BY <1>1, <1>2, PTL DEF DownloadSpec

\* No kill, at any moment, costs data: a shard that a pending slab has a
\* member in stays on the disk, across restarts, until every member of the
\* slab is in the output.
THEOREM PendingStaysHeld == DownloadSpec => []PendingIsHeld
<1>1. HeldInv => PendingIsHeld
    BY DEF HeldInv, Deferred
<1>2. QED
    BY <1>1, HeldInvariant, PTL

----------------------------------------------------------------------------
(***************************************************************************)
(* What is recorded as done was compared, or waits for its slab, or is     *)
(* owed, or forgotten by a kill.                                           *)
(***************************************************************************)

LEMMA StepKeepsCompares ==
    ASSUME MoveInv, Step, UNCHANGED <<record, driver>>, Written \subseteq Written'
    PROVE  Compares'
<1> USE DEF MoveInv, HeldInv, DiskInv, Compares, Uncompared
<1>1. UNCHANGED <<home, src, status, verified, forgotten, dpc, dcur>>
    BY DEF record, driver, Step, Load, Validate, NextShard, DeferSlabs,
           SealHeader, SealSave, CreateFile, CreateSave, AppendTensor, Advance,
           ResolveSlab, Resolved, RecordDone, Finalize, PublishManifest,
           PublishIndex, RecordComplete
<1>2. \A k : ShardsOf(k)' = ShardsOf(k)
    BY <1>1, LayoutFixed
<1>3. dpc \in {"convert", "finalize"} /\ dpc' = dpc
    BY <1>1, StepIsCalled
<1>0. ASSUME NEW T, T \subseteq Written PROVE T \subseteq Written'
    BY <1>0
<1>4. CASE DeferSlabs
    <2>1. cur \notin done
        BY <1>4 DEF DeferSlabs, Control
    <2>2. \A k \in Split(cur) : ~(ShardsOf(k) \subseteq done)
        BY <2>1 DEF Split
    <2>3. /\ pending' = pending \cup Split(cur)
          /\ UNCHANGED <<done, unverified, resolved>>
        BY <1>4 DEF DeferSlabs
    <2>4. QED
        BY <1>1, <1>2, <1>3, <1>0, <2>2, <2>3
<1>5. CASE ResolveSlab
    <2>1. cpc = "resolve" /\ Ready # {}
        BY <1>5 DEF ResolveSlab
    <2>2. First \in Ready
        BY <2>1, FirstReady
    <2>3. CASE Readable
        <3>1. /\ pending' = pending \ {First} /\ resolved' = resolved \cup Members(First)
              /\ UNCHANGED <<done, unverified>>
            BY <1>5, <2>3 DEF ResolveSlab
        <3>2. \A t \in Members(First) : home[t] \in src
            BY <2>1, <2>3 DEF Readable, ShardsOf
        <3>3. \A t \in Tensors : SlabOf[t] = First => t \in Members(First)
            BY DEF Members
        <3>4. QED
            BY <1>1, <1>2, <1>3, <1>0, <3>1, <3>2, <3>3
    <2>4. CASE ~Readable
        <3>1. UNCHANGED <<done, unverified, pending, resolved>>
            BY <1>5, <2>4 DEF ResolveSlab
        <3>2. QED
            BY <1>1, <1>2, <1>3, <1>0, <3>1
    <2>5. QED
        BY <2>3, <2>4
<1>6. CASE RecordDone
    <2>1. /\ done' = done \cup {cur} /\ unverified' = unverified \cup resolved
          /\ resolved' = {} /\ UNCHANGED pending /\ cpc = "record"
        BY <1>6 DEF RecordDone, Owed
    <2>2. dpc = "convert"
        BY <2>1 DEF Control
    <2>3. \A t \in resolved : /\ SlabOf[t] \in Slabs \ pending
                             /\ ShardsOf(SlabOf[t]) \subseteq done'
        BY <2>1 DEF Deferred
    <2>4. resolved \subseteq Written'
        BY <1>0 DEF Deferred
    <2>5. QED
        BY <1>1, <1>2, <1>3, <1>0, <2>1, <2>2, <2>3, <2>4
<1>7. CASE ~(DeferSlabs \/ ResolveSlab \/ RecordDone)
    <2>1. UNCHANGED <<done, pending, resolved, unverified>>
        BY <1>7 DEF Step, Load, Validate, Seal, NextShard, SealHeader,
           SealSave, CreateFile, CreateSave, AppendTensor, Advance,
           Resolved, Finalize, PublishManifest, PublishIndex,
           RecordComplete, state, process
    <2>2. QED
        BY <1>1, <1>2, <1>3, <1>0, <2>1
<1>8. QED
    BY <1>4, <1>5, <1>6, <1>7

LEMMA DriverKeepsCompares ==
    ASSUME MoveInv, DriverStep
    PROVE  Compares'
<1> USE DEF MoveInv, HeldInv, DiskInv, Compares, Uncompared
<1>1. UNCHANGED <<home, done, pending, resolved, forgotten>> /\ Written' = Written
    BY DEF DriverStep, Run, Gc, Pick, Fetch, Fetched, Call, Return, Verify,
           Reverify, Mark, Done, vars, record, state, process, Written, Committed
<1>2. \A k : ShardsOf(k)' = ShardsOf(k)
    BY <1>1, LayoutFixed
<1>3. resolved = {}
    BY DEF DriverStep, Run, Gc, Pick, Fetch, Fetched, Call, Return, Verify,
           Reverify, Mark, Done, Control, Deferred
<1>4. CASE Run
    BY <1>1, <1>2, <1>3, <1>4 DEF Run, vars, record, state
<1>5. CASE Gc
    BY <1>1, <1>2, <1>3, <1>5 DEF Gc, record, state
<1>6. CASE Pick
    BY <1>1, <1>2, <1>3, <1>6 DEF Pick, vars, record, state
<1>7. CASE Fetch
    <2>1. \A s \in Shards : status'[s] = "done" => status[s] = "done"
        BY <1>7 DEF Fetch, Shaped, Filed
    <2>2. \A t \in Tensors : home[t] \in Shards
        BY DEF Shaped, Filed
    <2>3. /\ src \subseteq src' /\ UNCHANGED <<verified, unverified, dcur>>
          /\ dpc = "fetch" /\ dpc' \in {"convert", "fetched"}
        BY <1>7 DEF Fetch, state
    <2>4. QED
        BY <1>1, <1>2, <1>3, <2>1, <2>2, <2>3
<1>8. CASE Fetched
    <2>1. \A s \in Shards : status'[s] = "done" => status[s] = "done"
        BY <1>8 DEF Fetched, Shaped, Filed
    <2>2. \A t \in Tensors : home[t] \in Shards
        BY DEF Shaped, Filed
    <2>3. UNCHANGED <<src, verified, unverified, dcur>> /\ dpc = "fetched" /\ dpc' = "convert"
        BY <1>8 DEF Fetched, vars, state
    <2>4. QED
        BY <1>1, <1>2, <1>3, <2>1, <2>2, <2>3
<1>9. CASE Call
    BY <1>1, <1>2, <1>3, <1>9 DEF Call, record, state, driver
<1>10. CASE Return
    BY <1>1, <1>2, <1>3, <1>10 DEF Return, record, state
<1>11. CASE Verify
    <2>1. /\ verified' = verified \cup (Compared({dcur}) \cap Written)
          /\ dpc' = IF dcur \notin src \/ ~(Compared({dcur}) \subseteq Written)
                      THEN "failed"
                      ELSE IF unverified = {} THEN "done" ELSE "reverify"
          /\ UNCHANGED <<src, status, unverified, dcur>> /\ dpc = "verify"
        BY <1>11 DEF Verify, vars, state
    <2>2. dcur \in done
        BY <2>1 DEF Control
    <2>3. dpc' # "failed" => Compared({dcur}) \subseteq verified'
        BY <2>1
    <2>4. \A t \in Tensors : home[t] = dcur =>
              t \in Compared({dcur}) \/ SlabOf[t] \in pending
        BY <2>2 DEF Compared
    <2>5. QED
        BY <1>1, <1>2, <1>3, <2>1, <2>3, <2>4
<1>12. CASE Reverify
    <2>1. /\ verified' = verified \cup (Compared(src) \cap unverified \cap Written)
          /\ dpc' = IF Compared(src) \cap unverified \subseteq Written THEN "mark" ELSE "failed"
          /\ UNCHANGED <<src, status, unverified, dcur>> /\ dpc = "reverify"
        BY <1>12 DEF Reverify, vars, state
    <2>2. ASSUME NEW t \in unverified, t \notin verified, t \notin forgotten
          PROVE  t \in Compared(src)
        <3>1. t \in Tensors /\ home[t] \in ShardsOf(SlabOf[t])
            BY <2>2 DEF Shaped, Filed, ShardsOf, Members
        <3>2. home[t] \in src /\ home[t] \in done /\ SlabOf[t] \notin pending
            BY <2>2, <3>1
        <3>3. QED
            BY <3>1, <3>2 DEF Compared
    <2>3. QED
        BY <1>1, <1>2, <1>3, <2>1, <2>2
<1>13. CASE Mark
    BY <1>1, <1>2, <1>3, <1>13 DEF Mark, record
<1>14. CASE Done
    <2>1. \A s \in Shards : status'[s] = "done" => status[s] = "done" \/ s = dcur
        BY <1>14 DEF Done, Shaped, Filed
    <2>2. \A t \in Tensors : home[t] \in Shards
        BY DEF Shaped, Filed
    <2>3. UNCHANGED <<src, verified, unverified, dcur>> /\ dpc = "done" /\ dpc' = "gc"
        BY <1>14 DEF Done, vars, state
    <2>4. QED
        BY <1>1, <1>2, <1>3, <2>1, <2>2, <2>3
<1>15. QED
    BY <1>4, <1>5, <1>6, <1>7, <1>8, <1>9, <1>10, <1>11, <1>12, <1>13, <1>14
       DEF DriverStep

LEMMA MoveNext ==
    ASSUME MoveInv, [DownloadNext]_dvars
    PROVE  MoveInv'
<1>1. HeldInv' /\ Written \subseteq Written'
    BY HeldNext, WrittenStays DEF MoveInv, HeldInv
<1>2. CASE DriverStep
    BY <1>1, <1>2, DriverKeepsCompares DEF MoveInv
<1>3. CASE ConverterStep
    BY <1>1, <1>3, StepKeepsCompares DEF MoveInv, ConverterStep
<1>4. CASE DownloadCrash \/ UNCHANGED dvars
    <2>1. UNCHANGED <<home, src, done, pending, unverified, status, verified>>
        BY <1>4 DEF DownloadCrash, Killed, dvars, vars, record, state
    <2>2. /\ \A k : ShardsOf(k)' = ShardsOf(k)
          /\ Written' = Written
        BY <1>4, <2>1, LayoutFixed
           DEF DownloadCrash, Killed, dvars, vars, state, Written, Committed
    <2>3. CASE DownloadCrash
        <3>1. /\ resolved' = {} /\ dpc' = "off"
              /\ forgotten' = forgotten \cup ((resolved \cup unverified) \ verified)
            BY <2>3 DEF DownloadCrash, Killed, Uncompared
        <3>2. resolved \subseteq Written
            BY DEF MoveInv, HeldInv, Deferred
        <3>3. QED
            BY <1>1, <2>1, <2>2, <3>1, <3>2 DEF MoveInv, Compares, Uncompared
    <2>4. CASE UNCHANGED dvars
        <3>1. UNCHANGED <<resolved, dpc, dcur, forgotten>>
            BY <2>4 DEF dvars, vars, record, process, driver
        <3>2. QED
            BY <1>1, <2>1, <2>2, <3>1 DEF MoveInv, Compares, Uncompared
    <2>5. QED
        BY <1>4, <2>3, <2>4
<1>5. QED
    BY <1>2, <1>3, <1>4 DEF DownloadNext

LEMMA MoveInit ==
    ASSUME DownloadInit
    PROVE  MoveInv
<1>1. DiskInv
    BY DiskInit
<1>2. \A t \in Tensors : status[home[t]] = "pending"
    BY <1>1 DEF DiskInv, Shaped, Filed, DownloadInit
<1>3. QED
    BY <1>1, <1>2 DEF MoveInv, HeldInv, Deferred, Compares, Uncompared,
                      PendingIsHeld, DownloadInit, Fresh

----------------------------------------------------------------------------
(***************************************************************************)
(* The driver implements Transfer.                                         *)
(***************************************************************************)

LEMMA ConverterMoves ==
    ASSUME MoveInv, ConverterStep
    PROVE  [Moved!Next]_(Moved!vars)
<1> USE DEF MoveInv, HeldInv, DiskInv
<1>1. Step /\ UNCHANGED <<status, verified, forgotten>>
    BY DEF ConverterStep, record
<1>2. UNCHANGED <<home, src>>
    BY <1>1 DEF Step, Load, Validate, NextShard, DeferSlabs,
           SealHeader, SealSave, CreateFile, CreateSave, AppendTensor, Advance,
           ResolveSlab, Resolved, RecordDone, Finalize, PublishManifest,
           PublishIndex, RecordComplete
<1>3. Deleted' = Deleted
    BY <1>1, <1>2 DEF Deleted
<1>4. CASE RecordComplete
    <2>1. /\ cpc = "complete" /\ complete' = TRUE
          /\ UNCHANGED <<open, sealed>>
        BY <1>4 DEF RecordComplete
    <2>2. Written' = Written
        BY <2>1 DEF Written, Committed
    <2>3. Undone = {} /\ dpc = "finalize" /\ pending = {} /\ resolved = {}
        BY <2>1 DEF Control, Deferred
    <2>4. verified \cup forgotten = Tensors
        BY <2>3 DEF Compares, Shaped, Filed, Undone
    <2>5. Written = Tensors
        BY <2>4, WrittenAreTensors DEF Compares
    <2>6. Moved!Finish
        BY <1>1, <1>2, <1>3, <2>1, <2>2, <2>4, <2>5 DEF Moved!Finish
    <2>7. QED
        BY <2>6 DEF Moved!Next
<1>5. CASE ~RecordComplete
    <2>1. UNCHANGED complete
        BY <1>1, <1>5 DEF Step, Load, Validate, Seal, NextShard, DeferSlabs,
           SealHeader, SealSave, CreateFile, CreateSave, AppendTensor, Advance,
           ResolveSlab, Resolved, RecordDone, Finalize, PublishManifest,
           PublishIndex, state
    <2>2. CASE UNCHANGED Written
        BY <1>1, <1>2, <1>3, <2>1, <2>2 DEF Moved!vars
    <2>3. CASE \E t \in Tensors : /\ t \notin Written /\ home[t] \in src
                                 /\ Written' = Written \cup {t}
        <3>1. PICK t \in Tensors : /\ t \notin Written /\ home[t] \in src
                                 /\ Written' = Written \cup {t}
            BY <2>3
        <3>2. Moved!Commit(t)
            BY <1>1, <1>2, <1>3, <2>1, <3>1 DEF Moved!Commit, Deleted
        <3>3. QED
            BY <3>2 DEF Moved!Next
    <2>4. QED
        BY <1>1, <2>2, <2>3, StepCommits
<1>6. QED
    BY <1>4, <1>5

LEMMA DriverMoves ==
    ASSUME MoveInv, DriverStep
    PROVE  [Moved!Next]_(Moved!vars)
<1> USE DEF MoveInv, HeldInv, DiskInv
<1>1. UNCHANGED <<home, complete, forgotten>> /\ Written' = Written
    BY DEF DriverStep, Run, Gc, Pick, Fetch, Fetched, Call, Return, Verify,
           Reverify, Mark, Done, vars, record, state, Written, Committed
<1>2. CASE Gc /\ Deletable # {}
    <2>1. PICK s \in Deletable : src' = src \ {s}
        BY <1>2 DEF Gc
    <2>2. s \in Shards /\ s \in src /\ status[s] = "done" /\ s \notin Referenced
        BY DEF Deletable, Shaped, Filed
    <2>3. UNCHANGED <<status, verified>> /\ dpc = "gc"
        BY <1>2 DEF Gc, record
    <2>4. Deleted' = Deleted \cup {s}
        BY <2>1, <2>2, <2>3 DEF Deleted
    <2>5. \A t \in Tensors : home[t] = s => t \in verified \cup forgotten
        <3>1. resolved = {} /\ unverified \subseteq verified \cup forgotten
            BY <2>3 DEF Control, Deferred, Compares
        <3>2. \A t \in Tensors : home[t] = s => SlabOf[t] \notin pending
            BY <2>2 DEF Referenced, ShardsOf, Members
        <3>3. QED
            BY <2>2, <3>1, <3>2 DEF Compares
    <2>6. Moved!InShard(s) \subseteq Written \cap (verified \cup forgotten)
        BY <2>5 DEF Moved!InShard, Compares
    <2>7. Moved!Delete({s})
        BY <1>1, <2>3, <2>4, <2>6 DEF Moved!Delete
    <2>8. QED
        BY <2>2, <2>7 DEF Moved!Next
<1>3. CASE Fetch \/ Done
    <2>1. dcur \in Undone /\ dcur \in Shards
        BY <1>3 DEF Fetch, Done, Control, Working, Undone
    <2>2. Deleted' = Deleted /\ UNCHANGED verified
        <3>1. CASE Fetch
            <4>1. /\ src \subseteq src' /\ src' \subseteq src \cup {dcur}
                  /\ UNCHANGED verified
                  /\ \A t \in Shards : status'[t] = "done" <=> status[t] = "done"
                BY <2>1, <3>1 DEF Fetch, Undone, Shaped, Filed
            <4>2. QED
                BY <2>1, <4>1 DEF Deleted, Undone
        <3>2. CASE Done
            <4>1. dcur \in src
                BY <3>2 DEF Done, Control
            <4>2. QED
                BY <2>1, <3>2, <4>1 DEF Done, Deleted, vars, Shaped, Filed
        <3>3. QED
            BY <1>3, <3>1, <3>2
    <2>3. QED
        BY <1>1, <2>2 DEF Moved!vars
<1>4. CASE Fetched
    <2>1. status[dcur] # "done"
        BY <1>4 DEF Fetched, Control, Working, Undone
    <2>2. Deleted' = Deleted /\ UNCHANGED verified
        BY <1>4, <2>1 DEF Fetched, Deleted, vars, Shaped, Filed
    <2>3. QED
        BY <1>1, <2>2 DEF Moved!vars
<1>5. CASE Verify \/ Reverify
    <2>1. PICK T \in SUBSET Tensors : /\ verified' = verified \cup T
                                    /\ T \subseteq Written
                                    /\ \A t \in T : home[t] \notin Deleted
        <3>1. CASE Verify
            <4>1. status[dcur] # "done"
                BY <3>1 DEF Verify, Control, Working, Undone
            <4>2. \A t \in Compared({dcur}) : t \in Tensors /\ home[t] \notin Deleted
                BY <4>1 DEF Compared, Deleted
            <4>3. verified' = verified \cup (Compared({dcur}) \cap Written)
                BY <3>1 DEF Verify
            <4>4. Compared({dcur}) \cap Written \in SUBSET Tensors
                BY <4>2
            <4>5. QED
                BY <4>2, <4>3, <4>4
        <3>2. CASE Reverify
            <4>1. \A t \in Compared(src) : t \in Tensors /\ home[t] \notin Deleted
                BY DEF Compared, Deleted
            <4>2. verified' = verified \cup (Compared(src) \cap unverified \cap Written)
                BY <3>2 DEF Reverify
            <4>3. Compared(src) \cap unverified \cap Written \in SUBSET Tensors
                BY <4>1
            <4>4. QED
                BY <4>1, <4>2, <4>3
        <3>3. QED
            BY <1>5, <3>1, <3>2
    <2>2. Deleted' = Deleted
        BY <1>5 DEF Verify, Reverify, vars, Deleted
    <2>3. Moved!Verify(T)
        BY <1>1, <2>1, <2>2 DEF Moved!Verify
    <2>4. QED
        BY <2>3 DEF Moved!Next
<1>6. CASE ~(Gc /\ Deletable # {}) /\ ~(Fetch \/ Done) /\ ~Fetched /\ ~(Verify \/ Reverify)
    <2>1. UNCHANGED <<src, status, verified>>
        BY <1>6 DEF DriverStep, Run, Gc, Pick, Call, Return, Mark, vars, record
    <2>2. Deleted' = Deleted
        BY <2>1 DEF Deleted
    <2>3. QED
        BY <1>1, <2>1, <2>2 DEF Moved!vars
<1>7. QED
    BY <1>2, <1>3, <1>4, <1>5, <1>6

\* A kill shows in one way: what was not compared yet is forgotten.
LEMMA CrashMoves ==
    ASSUME MoveInv, DownloadCrash
    PROVE  Moved!Next
<1>1. /\ UNCHANGED <<home, complete, src, status, verified>>
      /\ Written' = Written
    BY DEF DownloadCrash, Killed, state, Written, Committed
<1>2. Deleted' = Deleted
    BY <1>1 DEF Deleted
<1>3. forgotten' = forgotten \cup Uncompared
    BY DEF DownloadCrash
<1>4. Uncompared \in SUBSET Tensors /\ Uncompared \subseteq Written \ verified
    BY DEF Uncompared, MoveInv, HeldInv, DiskInv, Shaped, Deferred, Compares
<1>5. Moved!Forget(Uncompared)
    BY <1>1, <1>2, <1>3, <1>4 DEF Moved!Forget
<1>6. QED
    BY <1>4, <1>5 DEF Moved!Next

LEMMA MovesNext ==
    ASSUME MoveInv, [DownloadNext]_dvars
    PROVE  [Moved!Next]_(Moved!vars)
<1>1. CASE DriverStep
    BY <1>1, DriverMoves
<1>2. CASE ConverterStep
    BY <1>2, ConverterMoves
<1>3. CASE DownloadCrash
    BY <1>3, CrashMoves
<1>4. CASE UNCHANGED dvars
    BY <1>4 DEF dvars, vars, record, state, Written, Committed, Deleted, Moved!vars
<1>5. QED
    BY <1>1, <1>2, <1>3, <1>4 DEF DownloadNext

\* The driver and the converter, over all their restarts, do nothing else
\* than Transfer allows: a tensor enters the output once, while its source
\* is there, is compared while its source is there, and a shard is deleted
\* when all of it is in the output and was compared, but for what a kill
\* made the driver lose track of.  No moment is left out.
THEOREM DownloadIsATransfer == DownloadSpec => Implements
<1>1. DownloadInit => MoveInv
    BY MoveInit
<1>2. DownloadInit => Moved!Init
    <2> SUFFICES ASSUME DownloadInit PROVE Moved!Init
        OBVIOUS
    <2>1. home \in [Tensors -> Shards]
        BY ConverterAssumption DEF ConverterAssumption, DownloadInit, Fresh
    <2>2. Written = {}
        <3>1. \A g \in Groups : ToSet(open[g].names) = {} /\ DOMAIN sealed[g] = {}
            BY DEF DownloadInit, Fresh, NoFile, ToSet
        <3>2. QED
            BY <3>1 DEF Written, Committed
    <2>3. Deleted = {} /\ verified = {} /\ forgotten = {} /\ complete = FALSE
        BY DEF Deleted, DownloadInit, Fresh
    <2>4. QED
        BY <2>1, <2>2, <2>3 DEF Moved!Init
<1>3. MoveInv /\ [DownloadNext]_dvars => MoveInv'
    BY MoveNext
<1>4. MoveInv /\ [DownloadNext]_dvars => [Moved!Next]_(Moved!vars)
    BY MovesNext
<1>5. QED
    BY <1>1, <1>2, <1>3, <1>4, PTL DEF DownloadSpec, Implements, Moved!Spec

\* Only members of slabs are ever lost track of, and only by a kill in one of
\* the two moments.
Lost ==
    /\ \A t \in forgotten : SlabOf[t] \in Slabs
    /\ forgotten # {} => hit \cap {"resolve", "verify"} # {}

LEMMA LostNext ==
    ASSUME MoveInv, Lost, [DownloadNext]_dvars
    PROVE  Lost'
<1>1. CASE DownloadCrash
    <2>1. forgotten' = forgotten \cup Uncompared /\ hit \subseteq hit'
        BY <1>1 DEF DownloadCrash
    <2>2. \A t \in Uncompared : SlabOf[t] \in Slabs
        BY DEF MoveInv, HeldInv, Deferred, Compares, Uncompared
    <2>3. Uncompared # {} => hit' \cap {"resolve", "verify"} # {}
        BY <1>1 DEF DownloadCrash, DownloadExposed, Exposed, Uncompared
    <2>4. QED
        BY <2>1, <2>2, <2>3 DEF Lost
<1>2. CASE DriverStep \/ ConverterStep \/ UNCHANGED dvars
    <2>1. UNCHANGED <<forgotten, hit>>
        BY <1>2 DEF dvars, vars, history, record, DriverStep, Run, Gc, Pick, Fetch,
           Fetched, Call, Return, Verify, Reverify, Mark, Done, ConverterStep,
           Step, Load, Validate, NextShard, DeferSlabs, SealHeader, SealSave,
           CreateFile, CreateSave, AppendTensor, Advance, ResolveSlab,
           Resolved, RecordDone, Finalize, PublishManifest, PublishIndex,
           RecordComplete
    <2>2. QED
        BY <2>1 DEF Lost
<1>3. QED
    BY <1>1, <1>2 DEF DownloadNext

\* A shard that is gone is in the output as a whole, and every tensor of it
\* was compared with it, also when its slab was only resolved by a later
\* shard, except for members of slabs that a kill between the record of a
\* resolved slab and its comparison made the driver lose track of.
THEOREM DeletionsAreWhole == DownloadSpec => []DeletedIsWhole
<1> DEFINE AllSafe == \A s \in Deleted : Moved!InShard(s)
                         \subseteq Written \cap (verified \cup forgotten)
           I       == MoveInv /\ Lost /\ AllSafe
<1>1. DownloadInit => I
    BY MoveInit DEF DownloadInit, Fresh, Deleted, Lost
<1>2. I /\ [DownloadNext]_dvars => I'
    <2> SUFFICES ASSUME I, [DownloadNext]_dvars PROVE I'
        OBVIOUS
    <2>1. MoveInv' /\ Lost'
        BY MoveNext, LostNext
    <2>2. AllSafe'
        BY MovesNext DEF Moved!Next, Moved!vars, Moved!Commit,
           Moved!Verify, Moved!Forget, Moved!Delete, Moved!Finish, Moved!InShard
    <2>3. QED
        BY <2>1, <2>2
<1>3. I => DeletedIsWhole
    BY DEF DeletedIsWhole, Lost, Moved!InShard
<1>4. QED
    <2> HIDE DEF I
    <2>1. QED
        BY <1>1, <1>2, <1>3, PTL DEF DownloadSpec
============================================================================
