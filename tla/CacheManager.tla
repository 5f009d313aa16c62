----------------------------- MODULE CacheManager -----------------------------
(***************************************************************************)
(* The event cache of the CacheManager of consensus.go, as processEvents   *)
(* uses it.  Its methods run under cm.mu and are one step.                 *)
(* The finality engine has a manager of its own (module FinalityEngine),   *)
(* and nobody uses the vote and state caches.                              *)
(***************************************************************************)
EXTENDS Integers, FiniteSets, FiniteSetsExt, GoMap

CONSTANTS CacheMax,   \* maxCacheSize
          EvictPart   \* a full cache drops one EvictPart-th of it; 5 in the code

ASSUME CacheAssumption == CacheMax \in Nat /\ EvictPart \in Nat /\ EvictPart > 1

VARIABLES eventCache,   \* eventCache: event ID -> event
          evicted       \* the IDs that the cache has dropped

cacheVars == <<eventCache, evicted>>

CacheInit == eventCache = <<>> /\ evicted = {}

(* GetEvent, with the event at hand when there is none: what processEvents *)
(* goes on with.                                                           *)
GetEvent(id, e) == IF id \in DOMAIN eventCache THEN eventCache[id] ELSE e

EvictCount == CacheMax \div EvictPart

(* Mutant: the limit is looked at after the entry is made. *)
EvictionsLate == IF Cardinality(DOMAIN eventCache) > CacheMax
                 THEN kSubset(EvictCount, DOMAIN eventCache)
                 ELSE {{}}

(* evictOldest: the entries it drops from a full cache are the first that  *)
(* a range over the map meets, so any.                                     *)
Evictions == LET size == Cardinality(DOMAIN eventCache)
             IN  IF size >= CacheMax /\ size > EvictCount
                 THEN kSubset(EvictCount, DOMAIN eventCache)
                 ELSE {{}}

SetEvent(id, e) ==
    \E gone \in Evictions :
        /\ eventCache' = Put(Delete(eventCache, gone), id, e)
        /\ evicted' = evicted \cup gone

(* Mutant: the event just received replaces the cached one. *)
CacheNewest(id, e) == SetEvent(id, e)

(* processEvents caches an event whose ID is not there. *)
CacheEvent(id, e) == IF id \in DOMAIN eventCache THEN UNCHANGED cacheVars
                     ELSE SetEvent(id, e)

(* ClearCache: the event map is replaced by an empty one. *)
ClearCache == /\ eventCache' = <<>>
              /\ evicted' = evicted \cup DOMAIN eventCache

(* The cache stays within its limit, unless that is so small that nothing  *)
(* is dropped from a full cache (consensus.go:62, consensus.go:156).       *)
CacheBounded == CacheMax >= EvictPart => Cardinality(DOMAIN eventCache) <= CacheMax

=============================================================================
