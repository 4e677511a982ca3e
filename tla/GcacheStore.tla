---------------------------- MODULE GcacheStore ----------------------------
(***************************************************************************)
(* The expert cache implements the expert store: the compute thread inside *)
(* resolve is the ask, and the views it holds, read through the payload    *)
(* addresses to the bytes behind them, are the answers.                    *)
(***************************************************************************)
EXTENDS Gcache

Asked == IF cpc \in {"blocked", "woken"} THEN <<creq.layer, creq.eid>>
         ELSE <<>>
Answers == {[ask |-> <<v.layer, v.eid>>, bytes |-> content[v.pl]] :
                v \in views}

Store == INSTANCE ExpertStore
         WITH asked <- Asked, held <- Answers,
              MayFail <- MaxReadFaults + MaxAllocFaults > 0

\* "A resolve always returns real weights": every behaviour of the cache is,
\* to its reader, one of the store.  With no fault the store may not fail.
RefinesStore == Store!Spec
=============================================================================
