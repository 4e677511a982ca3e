------------------------------ MODULE Download ------------------------------
(***************************************************************************)
(* The download driver of tools/download.py on top of the converter: one   *)
(* source shard at a time is fetched, converted, compared with the output, *)
(* recorded as done and deleted, unless a slab that is still pending needs *)
(* it.  A kill takes the driver and the converter down together; the       *)
(* driver's state file, its landing zone src and the output remain.        *)
(*                                                                         *)
(* The steps inside convert() and finalize() are those of Converter; the   *)
(* driver calls it with one shard and no finalize, or for finalize alone.  *)
(***************************************************************************)
EXTENDS Converter

VARIABLES
    status,     \* the driver's state file: how far each shard is
    verified,   \* history: the tensors that were compared with their source
    forgotten,  \* history: those that a kill made the driver lose track of
    dpc, dcur   \* the driver: where it is, and the shard it works on

driver == <<dpc, dcur>>
record == <<status, verified, forgotten>>
dvars  == <<vars, record, driver>>

DownloadTypeOK ==
    /\ TypeOK
    /\ status \in [Shards -> {"pending", "downloaded", "done"}]
    /\ verified \subseteq Tensors /\ forgotten \subseteq Tensors
    /\ dpc \in {"off", "gc", "pick", "fetch", "fetched", "convert", "verify",
                "reverify", "mark", "done", "finalize", "end", "failed"}
    /\ dcur \in Shards \cup {0}

DownloadInit ==
    /\ Fresh /\ src = {}
    /\ status = [s \in Shards |-> "pending"]
    /\ verified = {} /\ forgotten = {}
    /\ dpc = "off" /\ dcur = 0

----------------------------------------------------------------------------
\* gc: at the start, and after every shard.

\* The shards of the pending slabs, read from the converter's state.
\* Regression: only those of the main stream.
ReferencedMain == UNION {ShardsOf(k) : k \in {j \in pending :
                      \A t \in Members(j) : GroupOf[t] = "main"}}
Referenced == UNION {ShardsOf(k) : k \in pending}

\* What gc deletes.  Regression: the sweep after a shard forgets the held ones.
DeletableCurrent == {s \in src : s = dcur /\ status[s] = "done" /\ s \notin Referenced}
Deletable == {s \in src : status[s] = "done" /\ s \notin Referenced}

Run ==
    /\ dpc = "off" /\ dpc' = "gc"
    /\ UNCHANGED <<vars, record, dcur>>

Gc ==
    /\ dpc = "gc"
    /\ \/ /\ Deletable # {}
          /\ \E s \in Deletable : src' = src \ {s}
          /\ UNCHANGED dpc
       \/ /\ Deletable = {}
          /\ dpc' = "pick"
          /\ UNCHANGED src
    /\ UNCHANGED <<home, out, saved, state, product, cpc, process, history,
                   record, dcur>>

----------------------------------------------------------------------------
\* run: the loop over the shards.

Pick ==
    /\ dpc = "pick"
    /\ LET left == {s \in Shards : status[s] # "done"} IN
       \/ left = {} /\ dpc' = "finalize" /\ dcur' = 0
       \/ left # {} /\ dpc' = "fetch" /\ dcur' = Min(left)
    /\ UNCHANGED <<vars, record>>

\* A shard of an earlier run is used when it is there, and fetched again
\* when it is not.  _download_shard: the last act is a rename, so a kill leaves
\* the shard whole or absent (with a .part file that the next run continues).
Good == status[dcur] = "downloaded" /\ dcur \in src

Fetch ==
    /\ dpc = "fetch"
    /\ \/ /\ Good /\ dpc' = "convert"
          /\ UNCHANGED <<src, status>>
       \/ /\ ~Good /\ dpc' = "fetched"
          /\ src' = src \cup {dcur}
          /\ status' = [status EXCEPT ![dcur] = "pending"]
    /\ UNCHANGED <<home, out, saved, state, product, cpc, process, history,
                   verified, forgotten, dcur>>

Fetched ==
    /\ dpc = "fetched"
    /\ status' = [status EXCEPT ![dcur] = "downloaded"]
    /\ dpc' = "convert"
    /\ UNCHANGED <<vars, verified, forgotten, dcur>>

\* A Converter is made and called; its steps follow.
Call ==
    /\ dpc \in {"convert", "finalize"} /\ cpc = "off"
    /\ cpc' = "load"
    /\ job' = IF dpc = "convert" THEN [shards |-> {dcur}, finish |-> FALSE]
                                 ELSE [shards |-> {}, finish |-> TRUE]
    /\ UNCHANGED <<home, src, out, saved, state, product,
                   cur, phase, io, resolved, history, record, driver>>

Return ==
    /\ cpc = "end"
    /\ \/ dpc = "convert" /\ dpc' = "verify"
       \/ dpc = "finalize" /\ dpc' = "end"
    /\ cpc' = "off" /\ job' = Idle /\ cur' = 0 /\ phase' = "main"
    /\ UNCHANGED <<home, src, out, saved, state, product,
                   io, resolved, history, record, dcur>>

\* verify_source: what it compares of the given source shards.  Regression: no
\* member of a slab, instead of none of a pending one.
ComparedLoose(S) == {t \in Tensors : home[t] \in S \cap done /\ SlabOf[t] = NoSlab}
Compared(S) == {t \in Tensors : home[t] \in S \cap done /\ SlabOf[t] \notin pending}

Verify ==
    /\ dpc = "verify"
    /\ verified' = verified \cup (Compared({dcur}) \cap Written)
    /\ dpc' = IF dcur \notin src \/ ~(Compared({dcur}) \subseteq Written)
                THEN "failed"
                ELSE IF unverified = {} THEN "done" ELSE "reverify"
    /\ UNCHANGED <<vars, status, forgotten, dcur>>

\* The members that slabs took from earlier shards, of the shards present.
Reverify ==
    /\ dpc = "reverify"
    /\ LET T == Compared(src) \cap unverified IN
       /\ verified' = verified \cup (T \cap Written)
       /\ dpc' = IF T \subseteq Written THEN "mark" ELSE "failed"
    /\ UNCHANGED <<vars, status, forgotten, dcur>>

\* mark_resolved_verified.
Mark ==
    /\ dpc = "mark"
    /\ unverified' = {}
    /\ saved' = TRUE
    /\ dpc' = "done"
    /\ UNCHANGED <<home, src, out, done, open, sealed, pending, complete, product,
                   cpc, process, history, record, dcur>>

Done ==
    /\ dpc = "done"
    /\ status' = [status EXCEPT ![dcur] = "done"]
    /\ dpc' = "gc"
    /\ UNCHANGED <<vars, verified, forgotten, dcur>>

----------------------------------------------------------------------------
\* A kill of the driver.  From the flush that takes a slab out of the pending
\* ones until its members are compared, the shards that they came from are
\* free to go: the gc of the next start does not know that they are owed.

Uncompared == (resolved \cup unverified) \ verified

DownloadExposed ==
    Exposed \cup (IF unverified \subseteq verified THEN {} ELSE {"verify"})

DownloadCrash ==
    /\ dpc \notin {"off", "failed"} /\ cpc # "failed"
    /\ crashes < MaxCrashes /\ crashes' = crashes + 1
    /\ Killed
    /\ hit' = hit \cup DownloadExposed \cup TornSeal
    /\ hit' \subseteq Windows
    /\ forgotten' = forgotten \cup Uncompared
    /\ dpc' = "off" /\ dcur' = 0
    /\ UNCHANGED <<status, verified>>

----------------------------------------------------------------------------
DriverStep ==
    \/ Run \/ Gc \/ Pick \/ Fetch \/ Fetched \/ Call \/ Return
    \/ Verify \/ Reverify \/ Mark \/ Done

ConverterStep == Step /\ UNCHANGED <<record, driver>>

DownloadNext == DriverStep \/ ConverterStep \/ DownloadCrash

DownloadSpec == DownloadInit /\ [][DownloadNext]_dvars

\* The process runs while it can, and is started again after a kill.
FairDownload == DownloadSpec /\ WF_dvars(DriverStep \/ ConverterStep)

----------------------------------------------------------------------------
\* Properties.

Deleted == {s \in Shards : status[s] = "done" /\ s \notin src}

\* "The driver can be killed at any point and restarted cleanly": no start
\* finds a state that it refuses, or a source shard that it still needs gone.
Restartable == cpc \notin {"failed", "waiting"} /\ dpc # "failed"

\* "A shard is deleted only AFTER its content is byte-verified in the
\* output -- including the members of any slab that resolved while converting
\* a later shard": every tensor of a deleted shard was compared with it.
DeletedIsVerified ==
    \A s \in Deleted : {t \in Tensors : home[t] = s} \subseteq verified

\* What the code does of it, whenever it is killed: a deleted shard is in the
\* output as a whole, and what was not compared is a member of a slab that a
\* kill made the driver lose track of, between the record of its resolution and
\* its comparison.
DeletedIsWhole ==
    \A s \in Deleted : \A t \in Tensors : home[t] = s =>
        /\ t \in Written
        /\ \/ t \in verified
           \/ t \in forgotten /\ SlabOf[t] \in Slabs /\ hit \cap {"resolve", "verify"} # {}

\* "A source shard referenced by a pending slab is HELD until the slab
\* resolves": no kill, at any moment, costs data that is not in the output.
\* The converted shards of a pending slab are on the disk, or the slab is one
\* that is pending for the second time (a kill came after its resolution was
\* recorded and before its shard was), and all of it is in the output.  In
\* that second case the next start may fail for the missing shard, against
\* Restartable.
PendingIsHeld ==
    \A k \in pending :
        ShardsOf(k) \cap done \subseteq src \/ Members(k) \subseteq Written

\* Peak disk: when a shard is fetched, no other source shard is on the disk
\* than those that a pending slab needs.
HoldsNoMore ==
    dpc \in {"fetch", "fetched"} => src \ {dcur} \subseteq Referenced

\* The driver is an implementation of Transfer, whenever it is killed:
\* restarts, the two state files and the deferred slabs are invisible in what
\* it promises.  What Transfer promises is less than the documentation says:
\* the comparison of what has just been resolved may be forgotten.
Moved == INSTANCE Transfer WITH committed <- Written, deleted <- Deleted

Implements == Moved!Spec

\* With finitely many kills, and a restart after each, the download ends,
\* and nothing of the source is left on the disk; unless a kill hit one of the
\* three moments after which the program refuses to start: the first file, the
\* header of a sealed one, and the record of a resolved slab.
Ends == <>[](hit \subseteq {"verify"} => dpc = "end" /\ complete /\ src = {})

=============================================================================
