----------------------------- MODULE Converter -----------------------------
(***************************************************************************)
(* The resumable converter of tools/convert.py: source shards go, one at a *)
(* time, into two streams of output files (main and mtp).  The process may *)
(* be killed between any two of its writes, and in the middle of one; what *)
(* survives is the output directory and the state file, which save_state   *)
(* replaces atomically.                                                    *)
(*                                                                         *)
(* A step is one effect on the disk: a file written, or the state replaced *)
(* after the mutations that lead to it.  At every step boundary the state  *)
(* in memory is the state on disk, so that one copy of it is enough; `job`,*)
(* `cur`, `phase`, `io` and `resolved` are the part that a kill loses.     *)
(* `written` of the code is recomputed from the state where it is read.    *)
(*                                                                         *)
(* A tensor is one unit of data: what packing and tearing tell apart is    *)
(* how many are in a file, and which one is torn.                          *)
(***************************************************************************)
EXTENDS Integers, Sequences, SequencesExt, FiniteSets, FiniteSetsExt

CONSTANTS
    Shards,     \* source shards, numbers in processing order
    Order,      \* the tensors in write order: slab members first, then dense
    Slabs, NoSlab,
    SlabOf,     \* the expert slab of a tensor, or NoSlab
    GroupOf,    \* the stream a tensor goes to
    Layouts,    \* bound: which tensor is in which shard
    Target,     \* target_bytes, in tensors
    Jobs,       \* the sets of shards a command line may name (--shard)
    Windows,    \* the fragile moments that may be hit (see Exposed)
    MaxCrashes  \* bound: kills

Groups  == {"main", "mtp"}
Tensors == ToSet(Order)
Moments == {"first", "seal", "resolve", "verify", "shard"}

ASSUME ConverterAssumption ==
    /\ Shards \subseteq Nat /\ IsFiniteSet(Shards)
    /\ Order \in Seq(Tensors) /\ IsInjective(Order)
    /\ NoSlab \notin Slabs
    /\ SlabOf \in [Tensors -> Slabs \cup {NoSlab}]
    /\ GroupOf \in [Tensors -> Groups]
    /\ \A t, u \in Tensors :
          SlabOf[t] = SlabOf[u] /\ SlabOf[t] # NoSlab => GroupOf[t] = GroupOf[u]
    /\ Layouts \subseteq [Tensors -> Shards]
    /\ Target \in Nat \ {0} /\ MaxCrashes \in Nat
    /\ Jobs \subseteq SUBSET Shards /\ Windows \subseteq Moments

\* plan_contribution puts the members of a slab next to each other.
ASSUME MembersAreAdjacent ==
    \A i, n, j \in DOMAIN Order :
        /\ i < n /\ n < j
        /\ SlabOf[Order[i]] = SlabOf[Order[j]] /\ SlabOf[Order[i]] # NoSlab
        => SlabOf[Order[n]] = SlabOf[Order[i]]

Torn == "torn"      \* data or a header of which only a part was written

VARIABLES
    home,       \* the checkpoint: the shard of each tensor; never changes
    src,        \* the source shards on disk
    out,        \* the output files of each stream, each [header, data]
    \* the state file
    saved, done, open, sealed, pending, unverified, complete,
    manifest, index,    \* the manifest and the index file: what they list
    \* the process
    cpc, job, cur, phase, io, resolved,
    crashes,
    hit         \* history: the fragile moments that were hit

state   == <<done, open, sealed, pending, unverified, complete>>
product == <<manifest, index>>
process == <<job, cur, phase, io, resolved>>
history == <<crashes, hit>>
vars    == <<home, src, out, saved, state, product, cpc, process, history>>

Headers == [kind : {"placeholder", Torn}, names : {<<>>}]
             \cup [kind : {"sealed"}, names : Seq(Tensors)]
Files   == [header : Headers, data : Seq(Tensors \cup {Torn})]

TypeOK ==
    /\ home \in Layouts /\ src \subseteq Shards
    /\ out \in [Groups -> Seq(Files)]
    /\ saved \in BOOLEAN /\ done \subseteq Shards
    /\ open \in [Groups -> [is : BOOLEAN, names : Seq(Tensors)]]
    /\ sealed \in [Groups -> Seq(Seq(Tensors))]
    /\ pending \subseteq Slabs /\ unverified \subseteq Tensors
    /\ complete \in BOOLEAN
    /\ manifest \in [Groups -> Seq(Seq(Tensors))]
    /\ index \in [Groups -> Seq(Seq(Tensors))]
    /\ cpc \in {"off", "load", "validate", "next", "defer", "write", "resolve",
                "record", "seal", "publish", "index", "complete",
                "end", "waiting", "failed"}
    /\ job \in [shards : SUBSET Shards, finish : BOOLEAN]
    /\ cur \in Shards \cup {0} /\ phase \in Groups
    /\ io \in {"none", "seal", "create"}
    /\ resolved \subseteq Tensors
    /\ crashes \in 0 .. MaxCrashes /\ hit \subseteq Windows
    /\ cpc \in {"defer", "write", "resolve", "record"} =>
           cur \in job.shards \ done
    /\ io # "none" => cpc \in {"write", "resolve", "seal"}

Idle == [shards |-> {}, finish |-> FALSE]
NoFile == [is |-> FALSE, names |-> <<>>]
Placeholder == [kind |-> "placeholder", names |-> <<>>]
TornHeader == [kind |-> Torn, names |-> <<>>]
SealedHeader(names) == [kind |-> "sealed", names |-> names]

\* _empty_state, before anything was written.
Fresh ==
    /\ home \in Layouts
    /\ out = [g \in Groups |-> <<>>]
    /\ saved = FALSE /\ done = {} /\ pending = {} /\ unverified = {}
    /\ open = [g \in Groups |-> NoFile]
    /\ sealed = [g \in Groups |-> <<>>]
    /\ complete = FALSE
    /\ manifest = [g \in Groups |-> <<>>] /\ index = [g \in Groups |-> <<>>]
    /\ cpc = "off" /\ job = Idle /\ cur = 0 /\ phase = "main" /\ io = "none"
    /\ resolved = {} /\ crashes = 0 /\ hit = {}

Init == Fresh /\ src = Shards

----------------------------------------------------------------------------
\* What the process computes from the source headers and from its state.

Members(k)  == {t \in Tensors : SlabOf[t] = k}
ShardsOf(k) == {home[t] : t \in Members(k)}

\* The slabs that shard s has some members of, but not all: deferred.
Split(s) == {k \in Slabs : s \in ShardsOf(k) /\ ShardsOf(k) # {s}}

\* plan_contribution: what shard s gives to stream g of itself.
Planned(t, s, g) == home[t] = s /\ GroupOf[t] = g /\ SlabOf[t] \notin Split(s)

\* The names of stream g that the state records.  Regression: on a restart,
\* the sealed files are not read back.
CommittedOpen(g) == ToSet(open[g].names)
Committed(g) == ToSet(open[g].names)
                  \cup UNION {ToSet(sealed[g][i]) : i \in DOMAIN sealed[g]}
Written      == UNION {Committed(g) : g \in Groups}

\* The pending slabs all of whose shards are converted; the first by key.
Ready    == {k \in pending : ShardsOf(k) \subseteq done \cup {cur}}
Place(k) == Min({i \in DOMAIN Order : SlabOf[Order[i]] = k})
First    == CHOOSE k \in Ready : \A j \in Ready : Place(k) <= Place(j)

\* The places in the write order of what is left to append in this phase; the
\* first of them comes next.
Missing(t) ==
    /\ t \notin Written
    /\ IF cpc = "write" THEN Planned(t, cur, phase) ELSE SlabOf[t] = First
Todo     == {i \in DOMAIN Order : Missing(Order[i])}
Upcoming == Order[Min(Todo)]

\* A slab is placed as a whole: the capacity check is for all its members,
\* and is skipped when some are already written.
RunOf(t) == IF SlabOf[t] = NoSlab THEN {t} ELSE Members(SlabOf[t])

Full(g, t) ==
    /\ open[g].is /\ open[g].names # <<>>
    /\ RunOf(t) \cap Written = {}
    /\ Len(open[g].names) + Cardinality(RunOf(t)) > Target

FileNo(g) == Len(sealed[g]) + 1     \* next_shard_idx

\* The slab k is in one file of stream g and its members follow each other.
Contiguous(names, k) ==
    LET at == {i \in DOMAIN names : SlabOf[names[i]] = k} IN
    at # {} => /\ Cardinality(at) = Cardinality(Members(k))
               /\ Max(at) - Min(at) + 1 = Cardinality(at)

\* The checks of build_manifest.
ManifestOK ==
    \A g \in Groups : \A i \in DOMAIN sealed[g] : \A k \in Slabs :
        Contiguous(sealed[g][i], k)

----------------------------------------------------------------------------
\* Starting: the command line, _load_or_init, and validate of each stream.

\* A run for some of the shards is fragile: it leaves slabs pending, and it
\* may come between the two halves of one that a kill cut.
Start(shards) ==
    /\ cpc \in {"off", "waiting"} \/ (cpc = "end" /\ done # Shards)
    /\ hit' = hit \cup (IF shards = Shards THEN {} ELSE {"shard"})
    /\ hit' \subseteq Windows
    /\ cpc' = "load"
    /\ job' = [shards |-> shards, finish |-> TRUE]
    /\ UNCHANGED <<home, src, out, saved, state, product,
                   cur, phase, io, resolved, crashes>>

\* Output files without a state file are refused.
Load ==
    /\ cpc = "load"
    /\ cpc' = IF saved \/ \A g \in Groups : out[g] = <<>>
                THEN "validate" ELSE "failed"
    /\ phase' = "main"
    /\ UNCHANGED <<home, src, out, saved, state, product,
                   job, cur, io, resolved, history>>

SealedIntact(g) ==
    \A i \in DOMAIN sealed[g] :
        /\ i \in DOMAIN out[g]
        /\ out[g][i].header = SealedHeader(sealed[g][i])
        /\ Len(out[g][i].data) = Len(sealed[g][i])

\* The open file is there and holds at least what the state records.
OpenPresent(g) ==
    /\ FileNo(g) \in DOMAIN out[g]
    /\ Len(out[g][FileNo(g)].data) >= Len(open[g].names)

\* The torn tail is dropped.  Regression: one tensor too many with it.
TruncatedShort(g) ==
    [out EXCEPT ![g][FileNo(g)].data = SubSeq(@, 1, Len(open[g].names) - 1)]

Truncated(g) ==
    [out EXCEPT ![g][FileNo(g)].data = SubSeq(@, 1, Len(open[g].names))]

Seal(g) ==
    /\ sealed' = [sealed EXCEPT ![g] = Append(@, open[g].names)]
    /\ open' = [open EXCEPT ![g] = NoFile]
    /\ saved' = TRUE
    /\ UNCHANGED <<done, pending, unverified, complete>>

\* A header that was rewritten before the kill, and not recorded, is taken
\* over.
Adopted(g) == out[g][FileNo(g)].header = SealedHeader(open[g].names)

Trusted(g) ==
    /\ SealedIntact(g)
    /\ open[g].is => /\ OpenPresent(g)
                     /\ \/ out[g][FileNo(g)].header = Placeholder
                        \/ Adopted(g)

Validate ==
    /\ cpc = "validate"
    /\ LET g == phase IN
       /\ out' = IF SealedIntact(g) /\ open[g].is /\ OpenPresent(g)
                   THEN Truncated(g) ELSE out
       /\ IF Trusted(g) /\ open[g].is /\ Adopted(g)
            THEN Seal(g) ELSE UNCHANGED <<saved, state>>
       /\ phase' = "mtp"
       /\ cpc' = IF ~Trusted(g) THEN "failed"
                 ELSE IF g = "main" THEN "validate" ELSE "next"
    /\ UNCHANGED <<home, src, product, job, cur, io, resolved, history>>

----------------------------------------------------------------------------
\* convert and _convert_input_shard.

\* Completed shards are skipped.  Regression: they are not.
LeftAll == job.shards
Left    == job.shards \ done

\* The next shard of the job that is not done; its header must be readable.
NextShard ==
    /\ cpc = "next"
    /\ \/ /\ Left = {}
          /\ cpc' = IF job.finish THEN "seal" ELSE "end"
          /\ UNCHANGED cur
       \/ /\ Left # {}
          /\ cur' = Min(Left)
          /\ cpc' = IF Min(Left) \in src THEN "defer" ELSE "failed"
    /\ UNCHANGED <<home, src, out, saved, state, product,
                   job, phase, io, resolved, history>>

DeferSlabs ==
    /\ cpc = "defer"
    /\ pending' = pending \cup Split(cur)
    /\ saved' = (saved \/ Split(cur) # {})
    /\ cpc' = "write" /\ phase' = "main"
    /\ UNCHANGED <<home, src, out, done, open, sealed, unverified, complete,
                   product, job, cur, io, resolved, history>>

\* The members of the slab to resolve are read from all of its shards.
Readable == cpc = "resolve" => Ready # {} /\ ShardsOf(First) \subseteq src

Appending ==
    /\ cpc \in {"write", "resolve"} /\ io = "none"
    /\ Readable
    /\ Todo # {}

\* The stream that is about to be written to.
Stream == IF cpc = "seal"
            THEN IF open["main"].is THEN "main" ELSE "mtp"
            ELSE GroupOf[Upcoming]

\* finalize seals each open file; ensure_capacity the one that is full.
Sealing ==
    /\ io = "none"
    /\ \/ cpc = "seal" /\ pending = {} /\ \E g \in Groups : open[g].is
       \/ Appending /\ Full(Stream, Upcoming)

Creating == Appending /\ ~open[Stream].is

Copying == /\ Appending /\ open[Stream].is
           /\ ~Full(Stream, Upcoming)

\* A write at an offset of the file: what follows the written part stays.
WriteAt(data, n, x) == SubSeq(data, 1, n) \o <<x>> \o SubSeq(data, n + 2, Len(data))

\* seal: the header is rewritten in place, then the state records it.
SealHeader ==
    /\ Sealing
    /\ out' = [out EXCEPT ![Stream][FileNo(Stream)].header =
                              SealedHeader(open[Stream].names)]
    /\ io' = "seal"
    /\ UNCHANGED <<home, src, saved, state, product, cpc,
                   job, cur, phase, resolved, history>>

SealSave ==
    /\ io = "seal"
    /\ Seal(Stream)
    /\ io' = "none"
    /\ UNCHANGED <<home, src, out, product, cpc,
                   job, cur, phase, resolved, history>>

\* _create_open: the file, with the mode that empties an existing one.
Created(g, header) ==
    [out EXCEPT ![g] = Append(SubSeq(@, 1, Len(sealed[g])),
                              [header |-> header, data |-> <<>>])]

CreateFile ==
    /\ Creating
    /\ out' = Created(Stream, Placeholder)
    /\ io' = "create"
    /\ UNCHANGED <<home, src, saved, state, product, cpc,
                   job, cur, phase, resolved, history>>

CreateSave ==
    /\ io = "create"
    /\ open' = [open EXCEPT ![GroupOf[Upcoming]] = [is |-> TRUE, names |-> <<>>]]
    /\ saved' = TRUE
    /\ io' = "none"
    /\ UNCHANGED <<home, src, out, done, sealed, pending, unverified, complete,
                   product, cpc, job, cur, phase, resolved, history>>

\* append_tensor: the bytes, then the state that commits them.  A kill
\* between the two leaves the tail that Crash describes.
AppendTensor ==
    /\ Copying
    /\ LET t == Upcoming IN
       /\ out' = [out EXCEPT ![Stream][FileNo(Stream)].data =
                                 WriteAt(@, Len(open[Stream].names), t)]
       /\ open' = [open EXCEPT ![Stream].names = Append(@, t)]
    /\ saved' = TRUE
    /\ UNCHANGED <<home, src, done, sealed, pending, unverified, complete,
                   product, cpc, process, history>>

\* Nothing left for this stream: the next one, then the slabs that this
\* shard completes.
Advance ==
    /\ cpc = "write" /\ io = "none" /\ Todo = {}
    /\ phase' = "mtp"
    /\ cpc' = IF phase = "main" THEN "write" ELSE "resolve"
    /\ UNCHANGED <<home, src, out, saved, state, product,
                   job, cur, io, resolved, history>>

\* _resolve_pending: a slab whose members are all written leaves the state.
ResolveSlab ==
    /\ cpc = "resolve" /\ io = "none" /\ Ready # {}
    /\ Readable => Todo = {}
    /\ IF Readable
         THEN /\ pending' = pending \ {First}
              /\ resolved' = resolved \cup Members(First)
              /\ saved' = TRUE
              /\ UNCHANGED cpc
         ELSE cpc' = "failed" /\ UNCHANGED <<pending, resolved, saved>>
    /\ UNCHANGED <<home, src, out, done, open, sealed, unverified, complete,
                   product, job, cur, phase, io, history>>

Resolved ==
    /\ cpc = "resolve" /\ io = "none" /\ Ready = {}
    /\ cpc' = "record"
    /\ UNCHANGED <<home, src, out, saved, state, product, process, history>>

\* What is to be verified.  Regression: what this shard resolved is forgotten.
OwedBefore == unverified
Owed       == unverified \cup resolved

\* The shard is done; what it resolved is still to be verified.
RecordDone ==
    /\ cpc = "record"
    /\ done' = done \cup {cur}
    /\ unverified' = Owed
    /\ saved' = TRUE
    /\ resolved' = {}
    /\ cpc' = "next"
    /\ UNCHANGED <<home, src, out, open, sealed, pending, complete, product,
                   job, cur, phase, io, history>>

----------------------------------------------------------------------------
\* finalize.

Finalize ==
    /\ cpc = "seal" /\ io = "none"
    /\ \/ pending # {} /\ cpc' = "waiting"
       \/ /\ pending = {} /\ \A g \in Groups : ~open[g].is
          /\ cpc' = IF ManifestOK THEN "publish" ELSE "failed"
    /\ UNCHANGED <<home, src, out, saved, state, product, process, history>>

PublishManifest ==
    /\ cpc = "publish"
    /\ manifest' = sealed
    /\ cpc' = "index"
    /\ UNCHANGED <<home, src, out, saved, state, index, process, history>>

PublishIndex ==
    /\ cpc = "index"
    /\ index' = manifest
    /\ cpc' = "complete"
    /\ UNCHANGED <<home, src, out, saved, state, manifest, process, history>>

RecordComplete ==
    /\ cpc = "complete"
    /\ complete' = TRUE
    /\ saved' = TRUE
    /\ cpc' = "end"
    /\ UNCHANGED <<home, src, out, done, open, sealed, pending, unverified,
                   product, process, history>>

----------------------------------------------------------------------------
\* A kill.  The output directory keeps what was written.

\* The fragile moments: between the first output file and the first state
\* file; after a slab left the state and before its shard is recorded.
Exposed ==
    (IF ~saved /\ (Creating \/ io = "create") THEN {"first"} ELSE {})
      \cup (IF resolved # {} THEN {"resolve"} ELSE {})

\* And in the middle of the rewrite of a header.
TornSeal ==
    IF Sealing /\ out'[Stream][FileNo(Stream)].header = TornHeader
      THEN {"seal"} ELSE {}

\* What a write that was under way leaves behind: a torn or a whole tensor
\* that the state does not record, a new file with a part of its header, or
\* a header of which only a part was replaced.
Debris ==
    \/ UNCHANGED out
    \/ /\ Copying
       /\ \E x \in {Torn, Upcoming} :
             out' = [out EXCEPT ![Stream][FileNo(Stream)].data =
                                    WriteAt(@, Len(open[Stream].names), x)]
    \/ /\ Creating /\ out' = Created(Stream, TornHeader)
    \/ /\ Sealing
       /\ out' = [out EXCEPT ![Stream][FileNo(Stream)].header = TornHeader]

Killed ==
    /\ Debris
    /\ cpc' = "off" /\ job' = Idle /\ cur' = 0 /\ phase' = "main"
    /\ io' = "none" /\ resolved' = {}
    /\ UNCHANGED <<home, src, saved, state, product>>

Crash ==
    /\ cpc \notin {"off", "waiting", "failed"}
    /\ crashes < MaxCrashes /\ crashes' = crashes + 1
    /\ Killed
    /\ hit' = hit \cup Exposed \cup TornSeal
    /\ hit' \subseteq Windows

----------------------------------------------------------------------------
Step ==
    \/ Load \/ Validate \/ NextShard \/ DeferSlabs
    \/ SealHeader \/ SealSave \/ CreateFile \/ CreateSave \/ AppendTensor
    \/ Advance \/ ResolveSlab \/ Resolved \/ RecordDone
    \/ Finalize \/ PublishManifest \/ PublishIndex \/ RecordComplete

Next == Step \/ Crash \/ \E shards \in Jobs : Start(shards)

Spec == Init /\ [][Next]_vars

\* The process runs while it can, and is started again after a kill.
FairSpec ==
    Spec /\ WF_vars(Step) /\ WF_vars(\E shards \in Jobs : Start(shards))
----------------------------------------------------------------------------
\* The output of a run that is never interrupted, as a function of the input.

\* The shards that a tensor waits for: its own, or all those of its slab.
Awaits(t) == IF SlabOf[t] = NoSlab THEN {home[t]} ELSE ShardsOf(SlabOf[t])
Turn(t)   == Max(Awaits(t))
Late(t)   == Awaits(t) # {home[t]}

\* Shard by shard: what it has of itself, then the slabs that it completes,
\* each in the write order.
Before(t, u) ==
    \/ Turn(t) < Turn(u)
    \/ Turn(t) = Turn(u) /\ ~Late(t) /\ Late(u)
    \/ /\ Turn(t) = Turn(u) /\ Late(t) = Late(u)
       /\ \E i, j \in DOMAIN Order : i < j /\ Order[i] = t /\ Order[j] = u

InOrder(g) ==
    LET all == {t \in Tensors : GroupOf[t] = g} IN
    CHOOSE q \in [1 .. Cardinality(all) -> all] :
        \A i, j \in DOMAIN q : i < j => Before(q[i], q[j])

\* One more tensor: in the last file, unless its run does not fit there.
Pack(files, t) ==
    LET last == files[Len(files)] IN
    IF \/ files = <<>>
       \/ /\ \A i \in DOMAIN files : RunOf(t) \cap ToSet(files[i]) = {}
          /\ Len(last) + Cardinality(RunOf(t)) > Target
      THEN Append(files, <<t>>)
      ELSE [files EXCEPT ![Len(files)] = Append(@, t)]

Uninterrupted(g) == FoldLeft(Pack, <<>>, InOrder(g))

----------------------------------------------------------------------------
\* Properties.

\* No fragile moment was hit; that of the resolved slab is the driver's.
Forgiven == hit \subseteq {"resolve"}

\* A run killed anywhere else can be started again: neither _load_or_init
\* nor validate refuses what it left, build_manifest finds every slab whole
\* and every header that a later shard needs can be read ("a kill at any
\* point leaves a resumable on-disk state").
RestartsCleanly == Forgiven => cpc # "failed"

\* The same without an exception, as the documentation has it.
AlwaysRestarts == cpc # "failed"

\* The state never runs ahead of the data it vouches for: every tensor that
\* it records is whole in its file, at its place, whatever tail follows.
RecordedIsOnDisk ==
    \A g \in Groups :
        /\ \A i \in DOMAIN sealed[g] :
              out[g][i] = [header |-> SealedHeader(sealed[g][i]), data |-> sealed[g][i]]
        /\ open[g].is => /\ FileNo(g) \in DOMAIN out[g]
                         /\ IsPrefix(open[g].names, out[g][FileNo(g)].data)

\* A tensor is written once, however often its shard is converted again:
\* the slab that is deferred a second time is not appended a second time.
WrittenOnce ==
    \A g \in Groups :
        LET names == FlattenSeq(sealed[g]) \o open[g].names IN
        IsInjective(names) /\ \A i \in DOMAIN names : GroupOf[names[i]] = g

\* An expert slab never straddles two files and nothing comes between its
\* members, also when the run was killed in the middle of it, unless a run
\* for some other shards came next: the loader reads a slab with one read.
SlabsWhole ==
    "shard" \notin hit => \A g \in Groups, k \in Slabs :
        LET at == {i \in DOMAIN open[g].names : SlabOf[open[g].names[i]] = k} IN
        /\ \A i \in DOMAIN sealed[g] : Contiguous(sealed[g][i], k)
        /\ at # {} => \/ Contiguous(open[g].names, k)
                      \/ at = Len(open[g].names) - Cardinality(at) + 1
                                .. Len(open[g].names)

\* What a kill at any step, and any number of restarts, leave on the disk:
\* the three above, and a state that the next start accepts.
DiskIsSound == RecordedIsOnDisk /\ WrittenOnce /\ SlabsWhole /\ RestartsCleanly

\* "An interrupted+resumed run produces byte-identical output": when the
\* whole run has ended, the files are those of the run without a kill, each with
\* its final header and no tail, and the manifest and the index list them.
SameAsUninterrupted ==
    complete /\ cpc = "end" /\ "shard" \notin hit =>
        \A g \in Groups :
            /\ sealed[g] = Uninterrupted(g)
            /\ out[g] = [i \in DOMAIN sealed[g] |->
                            [header |-> SealedHeader(sealed[g][i]),
                             data |-> sealed[g][i]]]
            /\ manifest[g] = sealed[g] /\ index[g] = sealed[g]

\* With finitely many kills, and a restart after each, the conversion ends.
Completes == <>[](Forgiven => cpc = "end" /\ complete /\ done = Shards)

============================================================================
