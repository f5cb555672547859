------------------------------ MODULE ModelCache ------------------------------
(***************************************************************************)
(* What the model store promises its callers, without locks, flights,      *)
(* paths or an index file: a durable set of staged models.  A model is     *)
(* loaded by at most one load at a time, only while it is not staged, and  *)
(* is staged exactly when its load succeeds.  A staged model stays staged, *)
(* across restarts too, until it is evicted.                               *)
(***************************************************************************)
CONSTANT Models

VARIABLES
  staged,    \* the models the store lists
  loading    \* the models being fetched

cacheVars == <<staged, loading>>

CacheTypeOK == staged \subseteq Models /\ loading \subseteq Models

CacheInit == staged = {} /\ loading = {}

BeginLoad(m) ==
  /\ m \notin staged \cup loading
  /\ loading' = loading \cup {m}
  /\ UNCHANGED staged

FinishLoad(m) ==
  /\ m \in loading
  /\ loading' = loading \ {m}
  /\ staged' = staged \cup {m}

AbortLoad(m) ==
  /\ m \in loading
  /\ loading' = loading \ {m}
  /\ UNCHANGED staged

Evict(m) ==
  /\ m \in staged
  /\ staged' = staged \ {m}
  /\ UNCHANGED loading

(* The process stops: every load is lost, nothing staged is. *)
Restart == loading' = {} /\ UNCHANGED staged

CacheNext ==
  \/ Restart
  \/ \E m \in Models : BeginLoad(m) \/ FinishLoad(m) \/ AbortLoad(m) \/ Evict(m)

CacheSpec == CacheInit /\ [][CacheNext]_cacheVars

(* No model is loaded while it is staged. *)
NoLoadOverStaged == staged \cap loading = {}
=============================================================================
