-------------------------------- MODULE Caches --------------------------------
(***************************************************************************)
(* The two kinds of caches: latest changes (StreamChangeCache) and results *)
(* of queries (DeferredCache).  They share no state.                       *)
(***************************************************************************)
EXTENDS StreamChangeCache

CONSTANTS Inner, MaxWrites, MaxFetches

VARIABLES version, untold, told, cached, result, watched, pending, fetches, fetch

Cache == INSTANCE DeferredCache

cacheVars == <<version, untold, told, cached, result, watched, pending, fetches, fetch>>

\* DeferredCache: no lookup returns what an invalidation has made stale.
NothingStale == Cache!NothingStale
\* DeferredCache: nobody waits for a fetch that is over.
PendingIsRunning == Cache!PendingIsRunning
=============================================================================
