------------------------------ MODULE Transfer ------------------------------
(***************************************************************************)
(* What tools/download.py achieves, apart from how: the tensors of a       *)
(* checkpoint are moved, shard by shard, from the source to the output.    *)
(* A tensor enters the output once and stays; it is compared with its      *)
(* source while the source is there; a source shard is deleted only when   *)
(* all of it is in the output, and was compared, but for tensors whose     *)
(* comparison was forgotten.  Kills and restarts do not show otherwise.    *)
(***************************************************************************)
EXTENDS FiniteSets

CONSTANTS Shards, Tensors

VARIABLES
    home,       \* the shard of each tensor; never changes
    committed,  \* the tensors in the output
    verified,   \* the tensors that were compared with their source
    forgotten,  \* the tensors whose comparison may be left out
    deleted,    \* the source shards that are gone for good
    complete    \* the output is finished

vars == <<home, committed, verified, forgotten, deleted, complete>>

InShard(s) == {t \in Tensors : home[t] = s}

Init ==
    /\ home \in [Tensors -> Shards]
    /\ committed = {} /\ verified = {} /\ forgotten = {} /\ deleted = {}
    /\ complete = FALSE

\* A tensor is appended while its source shard is still there.
Commit(t) ==
    /\ t \notin committed
    /\ home[t] \notin deleted
    /\ committed' = committed \cup {t}
    /\ UNCHANGED <<home, verified, forgotten, deleted, complete>>

\* Some tensors of the output are compared with sources that are there.
Verify(T) ==
    /\ T \subseteq committed
    /\ \A t \in T \ verified : home[t] \notin deleted
    /\ verified' = verified \cup T
    /\ UNCHANGED <<home, committed, forgotten, deleted, complete>>

\* A kill: tensors that are in the output, and not compared, need not be.
Forget(T) ==
    /\ T \subseteq committed \ verified
    /\ forgotten' = forgotten \cup T
    /\ UNCHANGED <<home, committed, verified, deleted, complete>>

Delete(S) ==
    /\ \A s \in S : InShard(s) \subseteq committed \cap (verified \cup forgotten)
    /\ deleted' = deleted \cup S
    /\ UNCHANGED <<home, committed, verified, forgotten, complete>>

Finish ==
    /\ committed = Tensors
    /\ verified \cup forgotten = Tensors
    /\ complete' = TRUE
    /\ UNCHANGED <<home, committed, verified, forgotten, deleted>>

Next ==
    \/ \E t \in Tensors : Commit(t)
    \/ \E T \in SUBSET Tensors : Verify(T) \/ Forget(T)
    \/ \E S \in SUBSET Shards : Delete(S)
    \/ Finish

Spec == Init /\ [][Next]_vars
=============================================================================
