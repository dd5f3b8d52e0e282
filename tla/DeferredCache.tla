---------------------------- MODULE DeferredCache ----------------------------
(***************************************************************************)
(* Cached functions: synapse/util/caches/deferred_cache.py and the         *)
(* decorators of descriptors.py, over the rows of a database.              *)
(*                                                                         *)
(* The function of a key in Inner reads one row; they share a cache, with  *)
(* a @cachedList that looks several of them up at once.  The function Outer*)
(* has a cache of its own and is computed from those of all keys in Inner, *)
(* which it calls with on_invalidate=cache_context.invalidate.  A lookup   *)
(* that finds nothing starts a fetch, which is also the pending entry that *)
(* later lookups share.                                                    *)
(***************************************************************************)
EXTENDS Integers, FiniteSets

CONSTANTS
    Inner,              \* keys of the inner function
    MaxWrites,          \* bound on the writes of each row
    MaxFetches          \* bound on the fetches

Outer == "outer"
Keys == Inner \union {Outer}
Fetches == 1..MaxFetches
NoFetch == 0
Unknown == -1
Values == [Inner -> Unknown..MaxWrites]     \* the versions of the rows a result is made of

VARIABLES
    version,            \* rows: how often each was written
    untold,             \* committed writes whose call_after has not run: <<key, version>>
    told,               \* the latest version of each row an invalidation has run for
    cached,             \* keys in the LruCache of completed results ...
    result,             \* ... and their values
    watched,            \* nodes of inner keys that have the callback of Outer
    pending,            \* _pending_deferred_cache
    fetches,            \* number of fetches so far
    fetch               \* fetches, and the CacheEntry of each

vars == <<version, untold, told, cached, result, watched, pending, fetches, fetch>>

Idle == [state |-> "none", keys |-> {}, value |-> [k \in Inner |-> Unknown],
         from |-> [k \in Inner |-> NoFetch], watched |-> {}]

\* cache_context.invalidate is a callback of what is cached, or pending, for k.
WatchedNode(k) == k \in cached \intersect watched
WatchedEntry(k) == pending[k] # NoFetch /\ k \in fetch[pending[k]].watched

\* Removing keys runs the callbacks, which may remove Outer.
WithOuter(ks, called) == ks \union {k \in {Outer} : called}

\* The keys of two caches: Outer is not in the LruCache of the inner keys.
Remove(fromCache, fromPending) ==
    /\ cached' = cached \ fromCache
    /\ result' = [k \in Keys |-> IF k \in fromCache THEN Idle.value ELSE result[k]]
    /\ watched' = watched \ fromCache
    /\ pending' = [k \in Keys |-> IF k \in fromPending THEN NoFetch ELSE pending[k]]

\* invalidate, of one key or all
Invalidate(ks) ==
    LET all == WithOuter(ks, \E k \in ks : WatchedNode(k) \/ WatchedEntry(k)) IN Remove(all, all)

\* A transaction commits, on whatever worker.
Write(k) ==
    /\ version[k] < MaxWrites                                   \* bound
    /\ version' = [version EXCEPT ![k] = @ + 1]
    /\ untold' = untold \union {<<k, version[k] + 1>>}
    /\ UNCHANGED <<told, cached, result, watched, pending, fetches, fetch>>

\* Its call_after runs, or a row of the caches stream arrives.
Tell(k, v) ==
    /\ <<k, v>> \in untold
    /\ untold' = untold \ {<<k, v>>}
    /\ told' = [told EXCEPT ![k] = IF v > @ THEN v ELSE @]
    /\ Invalidate({k})
    /\ UNCHANGED <<version, fetches, fetch>>

InvalidateAll ==
    /\ Invalidate(Inner)
    /\ UNCHANGED <<version, untold, told, fetches, fetch>>

\* The LruCache drops the oldest entry, or one that was not read for long.
Evict(k) ==
    /\ k \in cached
    /\ LET called == k \in Inner /\ WatchedNode(k)
       IN  Remove(WithOuter({k}, called), WithOuter({}, called))
    /\ UNCHANGED <<version, untold, told, fetches, fetch>>

Missing(ks) == {k \in ks \ cached : pending[k] = NoFetch}

\* A cached function is called and its result is missing: it is started, and
\* set() makes the entry when it first waits.  What it does before that (see
\* ReadInner) is done in the same turn of the reactor, so it is all the same
\* that the entry is there already.
Get(k) ==
    /\ k \in Missing({k})
    /\ fetches < MaxFetches                                     \* bound
    /\ fetches' = fetches + 1
    /\ fetch' = [fetch EXCEPT ![fetches + 1] = [Idle EXCEPT !.state = "running", !.keys = {k}]]
    /\ pending' = [pending EXCEPT ![k] = fetches + 1]
    /\ UNCHANGED <<version, untold, told, cached, result, watched>>

\* The function of Outer asks for some inner keys, which is get_bulk: each is
\* cached, pending, or among those a new fetch is started for.
ReadInner(e, ks) ==
    LET missing == Missing(ks)
        bulk == fetches + 1
        answered == {k \in ks : k \in cached}
        sharing == ks \ (missing \union answered)
    IN  /\ fetch[e].state = "running" /\ fetch[e].keys = {Outer}
        /\ \A k \in ks : fetch[e].value[k] = Unknown /\ fetch[e].from[k] = NoFetch
        /\ missing # {} => fetches < MaxFetches                 \* bound
        /\ fetches' = IF missing # {} THEN bulk ELSE fetches
        /\ watched' = watched \union answered
        /\ pending' = [k \in Keys |-> IF k \in missing THEN bulk ELSE pending[k]]
        /\ fetch' = [i \in Fetches |->
               CASE i = e ->
                      [fetch[e] EXCEPT
                          !.value = [k \in Inner |-> IF k \in answered THEN result[k][k] ELSE @[k]],
                          !.from = [k \in Inner |-> IF k \in missing THEN bulk
                                                    ELSE IF k \in sharing THEN pending[k] ELSE @[k]]]
                 [] i = bulk /\ missing # {} ->
                      [Idle EXCEPT !.state = "running", !.keys = missing, !.watched = missing]
                 [] OTHER -> [fetch[i] EXCEPT !.watched = @ \union {k \in sharing : pending[k] = i}]]
        /\ UNCHANGED <<version, untold, told, cached, result>>

\* The query of a fetch runs.
DbRead(i) ==
    /\ fetch[i].state = "running" /\ Outer \notin fetch[i].keys
    /\ fetch' = [fetch EXCEPT
           ![i].state = "read",
           ![i].value = [k \in Inner |-> IF k \in fetch[i].keys THEN version[k] ELSE Unknown]]
    /\ UNCHANGED <<version, untold, told, cached, result, watched, pending, fetches>>

\* Seeded fault: a result is stored although the entry was invalidated.
CurrentKeysAll(i) == fetch[i].keys

\* "If they don't match then it got invalidated."
CurrentKeys(i) == {k \in fetch[i].keys : pending[k] = i}

\* _completed_callback for each key of the fetch
Store(i) ==
    /\ cached' = cached \union CurrentKeys(i)
    /\ result' = [k \in Keys |-> IF k \in CurrentKeys(i) THEN fetch[i].value ELSE result[k]]
    /\ watched' = (watched \ CurrentKeys(i)) \union (CurrentKeys(i) \intersect fetch[i].watched)
    /\ pending' = [k \in Keys |-> IF pending[k] = i THEN NoFetch ELSE pending[k]]

\* The fetch is over, and those who wait for it have the result, be it
\* stored or not.
Complete(i) ==
    /\ fetch[i].state = "read"
    /\ Store(i)
    /\ fetch' = [j \in Fetches |->
           IF j = i THEN [Idle EXCEPT !.state = "over"]
           ELSE [fetch[j] EXCEPT
                    !.value = [k \in Inner |-> IF fetch[j].from[k] = i THEN fetch[i].value[k] ELSE @[k]],
                    !.from = [k \in Inner |-> IF @[k] = i THEN NoFetch ELSE @[k]]]]
    /\ UNCHANGED <<version, untold, told, fetches>>

CompleteOuter(e) ==
    /\ fetch[e].state = "running" /\ fetch[e].keys = {Outer}
    /\ \A k \in Inner : fetch[e].value[k] # Unknown
    /\ Store(e)
    /\ fetch' = [fetch EXCEPT ![e] = [Idle EXCEPT !.state = "over"]]
    /\ UNCHANGED <<version, untold, told, fetches>>

\* Fetches that wait for i.
Waiting(i) == {e \in Fetches : \E k \in Inner : fetch[e].from[k] = i}

\* Seeded fault: a failed fetch stays in the pending cache.
FailedKeysNone(i) == {}

\* The entries a failure takes out: those of the fetch and that of an outer
\* fetch that fails with it.
FailedKeys(i) == {k \in Keys : pending[k] \in {i} \union Waiting(i)}

\* _error_callback for each key of the fetch.  errback_all keeps the error from
\* whoever started a bulk lookup, which goes on with what it has; its own entry
\* is invalidated by the callback of the keys that failed, so that nothing of it
\* is stored: for the caches it has failed as well.
Fail(i) ==
    /\ fetch[i].state \in {"running", "read"}
    /\ LET called == \E k \in CurrentKeys(i) \ {Outer} : WatchedEntry(k)
       IN  Remove(WithOuter({}, called), WithOuter(FailedKeys(i), called))
    /\ fetch' = [j \in Fetches |-> IF j \in {i} \union Waiting(i) THEN [Idle EXCEPT !.state = "over"]
                                   ELSE fetch[j]]
    /\ UNCHANGED <<version, untold, told, fetches>>

Init ==
    /\ version = [k \in Inner |-> 0]
    /\ untold = {} /\ told = version
    /\ cached = {} /\ watched = {}
    /\ result = [k \in Keys |-> Idle.value]
    /\ pending = [k \in Keys |-> NoFetch]
    /\ fetches = 0
    /\ fetch = [i \in Fetches |-> Idle]

Next ==
    \/ \E k \in Inner : Write(k) \/ \E v \in 1..MaxWrites : Tell(k, v)
    \/ \E k \in Keys : Evict(k) \/ Get(k)
    \/ InvalidateAll
    \/ \E i \in Fetches :
        \/ DbRead(i) \/ Complete(i) \/ CompleteOuter(i) \/ Fail(i)
        \/ \E ks \in SUBSET Inner \ {{}} : ReadInner(i, ks)

Spec == Init /\ [][Next]_vars

-----------------------------------------------------------------------------
TypeOK ==
    /\ version \in [Inner -> 0..MaxWrites] /\ told \in [Inner -> 0..MaxWrites]
    /\ untold \subseteq Inner \X (1..MaxWrites)
    /\ cached \subseteq Keys /\ watched \subseteq Inner
    /\ result \in [Keys -> Values]
    /\ pending \in [Keys -> Fetches \union {NoFetch}]
    /\ fetches \in 0..MaxFetches
    /\ \A i \in Fetches : fetch[i].value \in Values /\ fetch[i].keys \subseteq Keys

\* What v holds of row k is not older than the last write an invalidation ran for.
Fresh(v, k) == v[k] = Unknown \/ v[k] >= told[k]

\* Once a write of a row was followed by its invalidation, no lookup returns,
\* or joins a fetch that will return, an older version: neither the function
\* of that row nor one that was computed from it.
NothingStale ==
    /\ \A k \in Inner : k \in cached => Fresh(result[k], k)
    /\ \A k \in Inner : pending[k] # NoFetch => Fresh(fetch[pending[k]].value, k)
    /\ \A k \in Inner : Outer \in cached => Fresh(result[Outer], k)
    /\ pending[Outer] # NoFetch =>
         \A k \in Inner :
            LET e == fetch[pending[Outer]]
            IN  Fresh(e.value, k) /\ (e.from[k] # NoFetch => Fresh(fetch[e.from[k]].value, k))

\* Nobody waits for ever: what is pending is a fetch that still runs, and so
\* is what such a fetch waits for.
PendingIsRunning ==
    /\ \A k \in Keys : pending[k] # NoFetch => fetch[pending[k]].state \in {"running", "read"}
    /\ \A i \in Fetches, k \in Inner :
         fetch[i].from[k] # NoFetch => fetch[fetch[i].from[k]].state \in {"running", "read"}
=============================================================================
