----------------------------- MODULE CacheProofs -----------------------------
(***************************************************************************)
(* The answers of StreamChangeCache, for any entities, positions and size, *)
(* and those of DeferredCache, for any keys, writes and fetches.           *)
(*                                                                         *)
(* The argument for the first does not depend on when something is         *)
(* evicted, only on what is: the oldest position, so that whatever the     *)
(* dictionaries forget is at or below the new earliest position.           *)
(*                                                                         *)
(* That for the second is that whatever the outer function has read, or    *)
(* waits for, is cached or pending with its callback: what invalidates it  *)
(* invalidates the outer function too.                                     *)
(***************************************************************************)
EXTENDS Caches, Extrema

\* The two dictionaries agree.
InSync ==
    \A e \in Entities, p \in Positions : e \in cache[p] <=> entityToKey[e] = p

\* What is not forgotten: an entity's latest change, if it is after the
\* earliest position.
Remembered ==
    \A e \in Entities, p \in Positions :
        <<e, p>> \in reported /\ p > earliest => entityToKey[e] >= p

\* What is remembered is a change, and after the earliest position.
Real ==
    \A e \in Entities : entityToKey[e] # NoPos =>
        <<e, entityToKey[e]>> \in reported /\ entityToKey[e] > earliest

IInv == ChangesTypeOK /\ InSync /\ Remembered /\ Real

-----------------------------------------------------------------------------
\* _entity_to_key with one more change.
KeyWith(entity, pos) == [entityToKey EXCEPT ![entity] = pos]

\* What the invariant says of dictionaries c and k, given the reports r.
Coherent(c, k, r) ==
    /\ c \in [Positions -> SUBSET Entities]
    /\ k \in [Entities -> Positions \union {NoPos}]
    /\ r \subseteq Entities \X Positions
    /\ \A e \in Entities, p \in Positions : e \in c[p] <=> k[e] = p
    /\ \A e \in Entities, p \in Positions : <<e, p>> \in r /\ p > earliest => k[e] >= p
    /\ \A e \in Entities : k[e] # NoPos => <<e, k[e]>> \in r /\ k[e] > earliest

\* The dictionaries with one more change, before anything is evicted, keep
\* the invariant.
LEMMA StoreKeeps ==
    ASSUME MaxPos \in Nat, IInv, NEW entity \in Entities, NEW pos \in Positions,
           pos > earliest, entityToKey[entity] < pos
    PROVE  Coherent(CacheWith(entity, pos), KeyWith(entity, pos),
                    reported \union {<<entity, pos>>})
<1> DEFINE c == CacheWith(entity, pos)
           k == KeyWith(entity, pos)
           r == reported \union {<<entity, pos>>}
<1>1. /\ c \in [Positions -> SUBSET Entities]
      /\ k \in [Entities -> Positions \union {NoPos}]
      /\ r \subseteq Entities \X Positions
    BY DEF IInv, ChangesTypeOK, CacheWith, KeyWith
<1>2. \A e \in Entities, p \in Positions : e \in c[p] <=> k[e] = p
    BY DEF IInv, ChangesTypeOK, InSync, CacheWith, KeyWith
<1>3. \A e \in Entities, p \in Positions : <<e, p>> \in r /\ p > earliest => k[e] >= p
    BY DEF IInv, ChangesTypeOK, Remembered, Positions, NoPos, KeyWith
<1>4. \A e \in Entities : k[e] # NoPos => <<e, k[e]>> \in r /\ k[e] > earliest
    BY DEF IInv, ChangesTypeOK, Real, KeyWith
<1> QED
    BY <1>1, <1>2, <1>3, <1>4 DEF Coherent

\* Evicting keeps it too.
LEMMA EvictKeeps ==
    ASSUME MaxPos \in Nat, earliest \in Positions \union {NoPos},
           NEW c, NEW k, NEW pos \in Positions, c[pos] # {},
           Coherent(c, k, reported'), StoreEvicted(c, k)
    PROVE  IInv'
<1> USE DEF Coherent
<1>1. CASE Cardinality(KeysOf(c)) > MaxSize
  <2> DEFINE v == Victim(c)
  <2>1. KeysOf(c) \in SUBSET Nat /\ KeysOf(c) # {}
      BY DEF KeysOf, Positions
  <2>2. v \in KeysOf(c) /\ \A p \in KeysOf(c) : v <= p
      BY <2>1, MinNat DEF Victim
  <2>3. v \in Positions /\ v \in Nat
      BY <2>1, <2>2 DEF KeysOf
  <2> HIDE DEF v
  <2>4. /\ cache' = [c EXCEPT ![v] = {}]
        /\ entityToKey' = [e \in Entities |-> IF e \in c[v] THEN NoPos ELSE k[e]]
        /\ earliest' = IF v > earliest THEN v ELSE earliest
      BY <1>1 DEF StoreEvicted, v
  <2>5. PICK x \in Entities : x \in c[v]
      BY <2>2, <2>3 DEF KeysOf
  <2>6. v > earliest /\ earliest' = v
    <3>1. k[x] = v /\ k[x] # NoPos
        BY <2>3, <2>5 DEF Positions, NoPos
    <3>2. v > earliest
        BY <3>1
    <3> QED
        BY <2>4, <3>2
  <2>7. \A e \in Entities : k[e] # NoPos => k[e] >= v
      BY <2>2 DEF KeysOf
  <2>8. ChangesTypeOK'
      BY <2>3, <2>4, <2>6 DEF ChangesTypeOK
  <2>9. InSync'
    <3> SUFFICES ASSUME NEW e \in Entities, NEW p \in Positions
                 PROVE  e \in cache'[p] <=> entityToKey'[e] = p
        BY DEF InSync
    <3> QED
        BY <2>3, <2>4 DEF Positions, NoPos
  <2>10. Remembered'
    <3> SUFFICES ASSUME NEW e \in Entities, NEW p \in Positions, <<e, p>> \in reported', p > v
                 PROVE  entityToKey'[e] >= p
        BY <2>6 DEF Remembered
    <3>1. k[e] >= p
        BY <2>3, <2>6 DEF Positions, NoPos
    <3>2. e \notin c[v]
        BY <2>3, <3>1 DEF Positions
    <3> QED
        BY <2>4, <3>1, <3>2
  <2>11. Real'
    <3> SUFFICES ASSUME NEW e \in Entities, entityToKey'[e] # NoPos
                 PROVE  <<e, entityToKey'[e]>> \in reported' /\ entityToKey'[e] > v
        BY <2>6 DEF Real
    <3>1. e \notin c[v] /\ entityToKey'[e] = k[e]
        BY <2>4
    <3>2. k[e] # v
        BY <2>3, <3>1
    <3> QED
        BY <2>3, <2>7, <3>1, <3>2 DEF Positions, NoPos
  <2> QED
      BY <2>8, <2>9, <2>10, <2>11 DEF IInv
<1>2. CASE ~(Cardinality(KeysOf(c)) > MaxSize)
  <2>1. cache' = c /\ entityToKey' = k /\ earliest' = earliest
      BY <1>2 DEF StoreEvicted
  <2> QED
      BY <2>1 DEF IInv, ChangesTypeOK, InSync, Remembered, Real
<1> QED
    BY <1>1, <1>2

\* Every step preserves the invariant.
LEMMA NextIInv ==
    ASSUME MaxPos \in Nat, IInv, [ChangesNext]_changeVars
    PROVE  IInv'
<1>1. ASSUME NEW entity \in Entities, NEW pos \in Positions, EntityHasChanged(entity, pos)
      PROVE  IInv'
  <2>1. reported' = reported \union {<<entity, pos>>}
      BY <1>1 DEF EntityHasChanged
  <2>2. CASE pos <= earliest \/ entityToKey[entity] >= pos
    <3>1. UNCHANGED <<cache, entityToKey, earliest>>
        BY <1>1, <2>2 DEF EntityHasChanged
    <3>2. ChangesTypeOK' /\ InSync'
        BY <2>1, <3>1 DEF IInv, ChangesTypeOK, InSync
    <3>3. Remembered'
        BY <2>1, <2>2, <3>1 DEF IInv, ChangesTypeOK, Remembered, Positions, NoPos
    <3>4. Real'
        BY <2>1, <3>1 DEF IInv, Real
    <3> QED
        BY <3>2, <3>3, <3>4 DEF IInv
  <2>3. CASE ~(pos <= earliest \/ entityToKey[entity] >= pos)
    <3>1. StoreEvicted(CacheWith(entity, pos), KeyWith(entity, pos))
        BY <1>1, <2>3 DEF EntityHasChanged, CacheWith, KeyWith
    <3>2. pos > earliest /\ entityToKey[entity] < pos
        BY <2>3 DEF IInv, ChangesTypeOK, Positions, NoPos
    <3>3. CacheWith(entity, pos)[pos] # {}
        BY DEF CacheWith
    <3>4. Coherent(CacheWith(entity, pos), KeyWith(entity, pos), reported')
        BY <2>1, <3>2, StoreKeeps
    <3> QED
        BY <3>1, <3>3, <3>4, EvictKeeps DEF IInv, ChangesTypeOK
  <2> QED
      BY <2>2, <2>3
<1>2. CASE UNCHANGED changeVars
    BY <1>2 DEF changeVars, IInv, ChangesTypeOK, InSync, Remembered, Real
<1> QED
    BY <1>1, <1>2 DEF ChangesNext

\* The initial state satisfies it.
LEMMA InitIInv == ChangesInit => IInv
BY DEF ChangesInit, IInv, ChangesTypeOK, InSync, Remembered, Real, Positions, NoPos

\* The invariant holds throughout.
THEOREM IInvHolds == MaxPos \in Nat => (ChangesSpec => []IInv)
<1> SUFFICES ASSUME MaxPos \in Nat
             PROVE  ChangesSpec => []IInv
    OBVIOUS
<1>1. IInv /\ [ChangesNext]_changeVars => IInv'
    BY NextIInv
<1> QED
    BY <1>1, InitIInv, PTL DEF ChangesSpec

\* The dictionaries keep their types, and no position is outside the stream.
THEOREM TypeCorrect == MaxPos \in Nat => (ChangesSpec => []ChangesTypeOK)
<1>1. IInv => ChangesTypeOK
    BY DEF IInv
<1> QED
    BY <1>1, IInvHolds, PTL

\* Nobody is told that nothing has changed when something has, by any of the
\* four questions, for any order of the reports and any size of the cache.
THEOREM ChangesAreNotMissed == MaxPos \in Nat => (ChangesSpec => []NoChangeMissed)
<1> SUFFICES ASSUME MaxPos \in Nat
             PROVE  ChangesSpec => []NoChangeMissed
    OBVIOUS
<1>1. ASSUME IInv
      PROVE  NoChangeMissed
  <2> SUFFICES ASSUME NEW entity \in Entities, NEW pos \in Positions, NEW later \in Positions,
                      <<entity, later>> \in reported, later > pos
               PROVE  /\ HasEntityChanged(entity, pos)
                      /\ HasAnyEntityChanged(pos)
                      /\ entity \in EntitiesChanged(Entities, pos)
                      /\ GetMaxPosOfLastChange(entity) >= later
      BY DEF NoChangeMissed
  <2> DEFINE at == entityToKey[entity]
  <2>1. /\ at \in Positions \union {NoPos}
        /\ earliest \in Positions \union {NoPos}
        /\ later > earliest => at >= later
      BY <1>1 DEF IInv, ChangesTypeOK, Remembered
  <2>2. /\ at \in Nat /\ earliest \in Nat /\ pos \in Nat /\ later \in Nat
        /\ Positions \subseteq Nat /\ NoPos = 0
      BY <1>1, <2>1 DEF Positions, NoPos
  <2>3. CASE later <= earliest
    <3>1. pos <= earliest
        BY <2>2, <2>3
    <3>2. at # NoPos => at > earliest
        BY <1>1 DEF IInv, Real
    <3>3. GetMaxPosOfLastChange(entity) >= later
        BY <2>2, <2>3, <3>2 DEF GetMaxPosOfLastChange
    <3> QED
        BY <2>2, <3>1, <3>3 DEF HasEntityChanged, HasAnyEntityChanged, EntitiesChanged
  <2>4. CASE ~(later <= earliest)
    <3>1. at >= later /\ at > pos /\ at # NoPos /\ at \in Positions
        BY <2>1, <2>2, <2>4
    <3>2. entity \in cache[at]
        BY <1>1, <3>1 DEF IInv, InSync
    <3>3. HasEntityChanged(entity, pos) /\ GetMaxPosOfLastChange(entity) >= later
        BY <3>1 DEF HasEntityChanged, GetMaxPosOfLastChange
    <3>4. HasAnyEntityChanged(pos)
      <4>1. at \in KeysOf(cache) /\ KeysOf(cache) \subseteq Positions
          BY <3>1, <3>2 DEF KeysOf
      <4>2. MaxPos \in Nat /\ \A p \in KeysOf(cache) : p <= MaxPos
          BY <1>1, <4>1 DEF Positions
      <4>3. /\ Max(KeysOf(cache)) \in KeysOf(cache)
            /\ \A p \in KeysOf(cache) : p <= Max(KeysOf(cache))
          BY <2>2, <4>1, <4>2, MaxNat
      <4>4. Max(KeysOf(cache)) \in Nat /\ at <= Max(KeysOf(cache))
          BY <2>2, <4>1, <4>3
      <4> QED
          BY <2>2, <3>1, <4>1, <4>4 DEF HasAnyEntityChanged
    <3>5. entity \in AllEntitiesChanged(pos)
        BY <3>1, <3>2 DEF AllEntitiesChanged
    <3> QED
        BY <3>3, <3>4, <3>5 DEF EntitiesChanged
  <2> QED
      BY <2>3, <2>4
<1>2. IInv => NoChangeMissed
    BY <1>1
<1> QED
    BY <1>2, IInvHolds, PTL

\* After the earliest known position, the two ways to ask agree, and what is
\* said to have changed has.
THEOREM AnswersAreExact == MaxPos \in Nat => (ChangesSpec => []AnswersExact)
<1> SUFFICES ASSUME MaxPos \in Nat
             PROVE  ChangesSpec => []AnswersExact
    OBVIOUS
<1>1. ASSUME IInv
      PROVE  AnswersExact
  <2> SUFFICES ASSUME NEW entity \in Entities, NEW pos \in Positions, pos > earliest
               PROVE  /\ HasEntityChanged(entity, pos) <=> entity \in AllEntitiesChanged(pos)
                      /\ HasEntityChanged(entity, pos) =>
                           \E later \in Positions : later > pos /\ <<entity, later>> \in reported
      BY DEF AnswersExact
  <2> DEFINE at == entityToKey[entity]
  <2>1. /\ at \in Positions \union {NoPos} /\ earliest \in Positions \union {NoPos}
        /\ at # NoPos => <<entity, at>> \in reported
        /\ \A p \in Positions : entity \in cache[p] <=> at = p
      BY <1>1 DEF IInv, ChangesTypeOK, InSync, Real
  <2>2. at \in Nat /\ earliest \in Nat /\ pos \in Nat /\ Positions \subseteq Nat /\ NoPos = 0
      BY <1>1, <2>1 DEF Positions, NoPos
  <2>3. HasEntityChanged(entity, pos) <=> at \in Positions /\ at > pos
      BY <2>1, <2>2 DEF HasEntityChanged
  <2>4. entity \in AllEntitiesChanged(pos) <=> at \in Positions /\ at > pos
      BY <2>1 DEF AllEntitiesChanged
  <2>5. at \in Positions => <<entity, at>> \in reported
      BY <2>1, <2>2 DEF Positions, NoPos
  <2> QED
      BY <2>3, <2>4, <2>5
<1>2. IInv => AnswersExact
    BY <1>1
<1> QED
    BY <1>2, IInvHolds, PTL

-----------------------------------------------------------------------------
(* DeferredCache *)

CacheConstants == MaxWrites \in Nat /\ MaxFetches \in Nat /\ Cache!Outer \notin Inner

FetchRecords ==
    [state : {"none", "running", "read", "over"}, keys : SUBSET Cache!Keys, value : Cache!Values,
     from : [Inner -> Cache!Fetches \union {Cache!NoFetch}], watched : SUBSET Inner]

CacheTypes ==
    /\ Cache!TypeOK
    /\ fetch \in [Cache!Fetches -> FetchRecords]

\* A fetch with keys is one that runs, of the outer function or of inner keys.
Shapes ==
    \A i \in Cache!Fetches : fetch[i].keys # {} =>
        /\ i <= fetches
        /\ \/ fetch[i].keys = {Cache!Outer} /\ fetch[i].state = "running"
           \/ fetch[i].keys \subseteq Inner /\ fetch[i].state \in {"running", "read"}

\* What is pending is a fetch of that key, and is not cached as well.
Entries ==
    \A k \in Cache!Keys : pending[k] # Cache!NoFetch => k \in fetch[pending[k]].keys /\ k \notin cached

\* Outer fetches wait for fetches of the key they wait for.
Awaited ==
    \A i \in Cache!Fetches : \A k \in Inner : fetch[i].from[k] # Cache!NoFetch =>
        fetch[i].keys = {Cache!Outer} /\ k \in fetch[fetch[i].from[k]].keys

\* Invalidations run for committed writes only.
Committed ==
    \A k \in Inner :
        told[k] <= version[k] /\ \A v \in 1..MaxWrites : <<k, v>> \in untold => v <= version[k]

\* What the outer function has read, or waits for, would tell it.
Uses(k) ==
    \/ Cache!Outer \in cached /\ result[Cache!Outer][k] # Cache!Unknown
    \/ /\ pending[Cache!Outer] # Cache!NoFetch
       /\ \/ fetch[pending[Cache!Outer]].value[k] # Cache!Unknown
          \/ fetch[pending[Cache!Outer]].from[k] # Cache!NoFetch
Watched(k) == Cache!WatchedNode(k) \/ Cache!WatchedEntry(k)
UsesAreWatched == \A k \in Inner : Uses(k) => Watched(k)

\* The parts of NothingStale.
NewEnough(v, n) == v = Cache!Unknown \/ v >= n
FreshInner ==
    \A k \in Inner :
        /\ k \in cached => NewEnough(result[k][k], told[k])
        /\ pending[k] # Cache!NoFetch => NewEnough(fetch[pending[k]].value[k], told[k])
FreshOuter ==
    \A k \in Inner : Cache!Outer \in cached => NewEnough(result[Cache!Outer][k], told[k])
FreshFetch(e, k) ==
    /\ NewEnough(fetch[e].value[k], told[k])
    /\ fetch[e].from[k] # Cache!NoFetch => NewEnough(fetch[fetch[e].from[k]].value[k], told[k])
FreshPending == pending[Cache!Outer] # Cache!NoFetch => \A k \in Inner : FreshFetch(pending[Cache!Outer], k)

CacheInv ==
    /\ CacheTypes /\ Shapes /\ Entries /\ Awaited /\ Committed /\ UsesAreWatched
    /\ FreshInner /\ FreshOuter /\ FreshPending

\* Everything that is pending or waited for is among the fetches.
LEMMA CacheFacts ==
    ASSUME CacheConstants, CacheInv
    PROVE  /\ Cache!Outer \in Cache!Keys /\ Inner \subseteq Cache!Keys
           /\ Cache!NoFetch \notin Cache!Fetches /\ Cache!Fetches \subseteq Nat
           /\ \A k \in Cache!Keys : pending[k] # Cache!NoFetch => pending[k] \in Cache!Fetches
           /\ \A i \in Cache!Fetches : fetch[i] \in FetchRecords
           /\ \A i \in Cache!Fetches : \A k \in Inner :
                fetch[i].from[k] # Cache!NoFetch => fetch[i].from[k] \in Cache!Fetches
<1>1. Cache!NoFetch \notin Cache!Fetches /\ Cache!Fetches \subseteq Nat
    BY DEF Cache!NoFetch, Cache!Fetches, CacheConstants
<1>2. \A i \in Cache!Fetches : fetch[i] \in FetchRecords
    BY DEF CacheInv, CacheTypes
<1>3. \A i \in Cache!Fetches : \A k \in Inner :
        fetch[i].from[k] # Cache!NoFetch => fetch[i].from[k] \in Cache!Fetches
    BY <1>2 DEF FetchRecords
<1> QED
    BY <1>1, <1>2, <1>3 DEF CacheInv, CacheTypes, Cache!TypeOK, Cache!Keys

LEMMA CacheInitial == CacheConstants /\ Cache!Init => CacheInv
<1> SUFFICES ASSUME CacheConstants, Cache!Init
             PROVE  CacheInv
    OBVIOUS
<1>1. [k \in Inner |-> Cache!Unknown] \in Cache!Values
    BY DEF Cache!Values, Cache!Unknown, CacheConstants
<1>2. Cache!Idle \in FetchRecords
    BY <1>1 DEF Cache!Idle, FetchRecords
<1>3. Cache!Idle.keys = {} /\ Cache!Idle.value = [k \in Inner |-> Cache!Unknown]
      /\ \A k \in Inner : Cache!Idle.from[k] = Cache!NoFetch
    BY DEF Cache!Idle
<1>4. Cache!TypeOK
    BY <1>1, <1>2, <1>3 DEF Cache!TypeOK, Cache!Init, CacheConstants
<1> QED
    BY <1>2, <1>3, <1>4
    DEF Cache!Init, CacheInv, CacheTypes, Shapes, Entries, Awaited, Committed, UsesAreWatched, Uses,
        FreshInner, FreshOuter, FreshPending, CacheConstants, Cache!Keys

\* Removing keys, for an invalidation or an eviction: Outer goes with every key
\* it watches.
LEMMA CacheRemove ==
    ASSUME CacheConstants, CacheInv, NEW A \in SUBSET Cache!Keys, NEW B \in SUBSET Cache!Keys,
           Cache!Remove(A, B), UNCHANGED <<version, fetches, fetch>>,
           untold' \subseteq untold, told' \in [Inner -> 0..MaxWrites],
           \A k \in Inner : told'[k] # told[k] => k \in A /\ k \in B /\ told'[k] <= version[k],
           \A k \in Inner : (k \in A \/ k \in B) /\ Watched(k) => Cache!Outer \in A /\ Cache!Outer \in B
    PROVE  CacheInv'
<1> USE DEF Cache!Remove
<1>0. Cache!Idle.value = [k \in Inner |-> Cache!Unknown] /\ Cache!Idle.value \in Cache!Values
    BY DEF Cache!Idle, Cache!Values, Cache!Unknown, CacheConstants
<1>1. CacheTypes'
    BY <1>0 DEF CacheInv, CacheTypes, Cache!TypeOK
<1>2. Shapes' /\ Awaited'
    BY DEF CacheInv, Shapes, Awaited
<1>3. /\ \A k \in Cache!Keys : pending'[k] # Cache!NoFetch => k \notin B /\ pending'[k] = pending[k]
      /\ \A k \in Cache!Keys : k \in cached' <=> k \in cached /\ k \notin A
      /\ \A k \in Cache!Keys : k \in cached' => result'[k] = result[k]
      /\ \A k \in Inner : k \in watched' <=> k \in watched /\ k \notin A
      /\ \A k \in Cache!Keys : k \notin B => pending'[k] = pending[k]
    BY DEF CacheInv, CacheTypes, Cache!TypeOK
<1>4. Entries'
    BY <1>3 DEF CacheInv, Entries
<1>5. Committed'
    BY DEF CacheInv, CacheTypes, Cache!TypeOK, Committed
<1>6. ASSUME NEW k \in Inner, Uses(k)'
      PROVE  Uses(k) /\ Watched(k) /\ k \notin A /\ k \notin B /\ Watched(k)'
  <2>1. Uses(k) /\ ~(Cache!Outer \in A /\ Cache!Outer \in B)
    BY <1>3, <1>6 DEF Uses, Cache!Keys
  <2>2. Watched(k) /\ k \notin A /\ k \notin B
    BY <2>1 DEF CacheInv, UsesAreWatched
  <2>3. k \in Cache!Keys
    BY DEF Cache!Keys
  <2> QED
    BY <2>1, <2>2, <2>3, <1>3 DEF Watched, Cache!WatchedNode, Cache!WatchedEntry
<1>7. UsesAreWatched'
    BY <1>6 DEF UsesAreWatched
<1>8. \A k \in Inner : k \in Cache!Keys /\ (told'[k] = told[k] \/ (k \in A /\ k \in B))
    BY DEF Cache!Keys
<1>9. FreshInner'
    BY <1>3, <1>8 DEF CacheInv, FreshInner
<1>10. ASSUME NEW k \in Inner, Uses(k)'
       PROVE  told'[k] = told[k]
    BY <1>6, <1>8, <1>10
<1>11. FreshOuter'
  <2> SUFFICES ASSUME NEW k \in Inner, Cache!Outer \in cached'
               PROVE  NewEnough(result'[Cache!Outer][k], told'[k])
    BY DEF FreshOuter
  <2>1. Cache!Outer \in cached /\ result'[Cache!Outer] = result[Cache!Outer]
    BY <1>3 DEF Cache!Keys
  <2>2. result[Cache!Outer][k] = Cache!Unknown \/ told'[k] = told[k]
    BY <1>10, <2>1 DEF Uses
  <2> QED
    BY <2>1, <2>2 DEF CacheInv, FreshOuter, NewEnough
<1>12. FreshPending'
  <2> SUFFICES ASSUME NEW k \in Inner, pending'[Cache!Outer] # Cache!NoFetch
               PROVE  FreshFetch(pending[Cache!Outer], k)'
    BY DEF FreshPending
  <2>1. pending'[Cache!Outer] = pending[Cache!Outer] /\ fetch' = fetch
    BY <1>3 DEF Cache!Keys
  <2>2. FreshFetch(pending[Cache!Outer], k)
    BY <2>1 DEF CacheInv, FreshPending
  <2>3. \/ told'[k] = told[k]
        \/ /\ fetch[pending[Cache!Outer]].value[k] = Cache!Unknown
           /\ fetch[pending[Cache!Outer]].from[k] = Cache!NoFetch
    BY <1>10, <2>1 DEF Uses
  <2> QED
    BY <2>1, <2>2, <2>3 DEF FreshFetch, NewEnough
<1> QED
    BY <1>1, <1>2, <1>4, <1>5, <1>7, <1>9, <1>11, <1>12 DEF CacheInv

LEMMA CacheInvalidate ==
    ASSUME CacheConstants, CacheInv, NEW ks \in SUBSET Inner, Cache!Invalidate(ks),
           UNCHANGED <<version, fetches, fetch>>,
           untold' \subseteq untold, told' \in [Inner -> 0..MaxWrites],
           \A k \in Inner : told'[k] # told[k] => k \in ks /\ told'[k] <= version[k]
    PROVE  CacheInv'
<1> DEFINE called == \E k \in ks : Cache!WatchedNode(k) \/ Cache!WatchedEntry(k)
           all == Cache!WithOuter(ks, called)
<1>1. Cache!Remove(all, all)
    BY DEF Cache!Invalidate
<1>2. all \in SUBSET Cache!Keys /\ ks \subseteq all
    BY DEF Cache!WithOuter, Cache!Keys
<1>3. ASSUME NEW k \in Inner, k \in all, Watched(k)
      PROVE  Cache!Outer \in all
  <2>1. k \in ks
    BY <1>3 DEF Cache!WithOuter, CacheConstants
  <2>2. called
    BY <1>3, <2>1 DEF Watched
  <2> QED
    BY <2>2 DEF Cache!WithOuter
<1> HIDE DEF all
<1> QED
    BY <1>1, <1>2, <1>3, CacheRemove

LEMMA CacheTell ==
    ASSUME CacheConstants, CacheInv, NEW k \in Inner, NEW v \in 1..MaxWrites, Cache!Tell(k, v)
    PROVE  CacheInv'
<1>1. told \in [Inner -> 0..MaxWrites] /\ v \in 0..MaxWrites /\ v <= version[k]
    BY DEF CacheConstants, CacheInv, CacheTypes, Cache!TypeOK, Committed, Cache!Tell
<1>2. told' = [told EXCEPT ![k] = IF v > told[k] THEN v ELSE told[k]]
    BY DEF Cache!Tell
<1>3. told' \in [Inner -> 0..MaxWrites]
      /\ \A j \in Inner : told'[j] # told[j] => j \in {k} /\ told'[j] <= version[j]
    BY <1>1, <1>2
<1>4. {k} \in SUBSET Inner /\ untold' \subseteq untold /\ Cache!Invalidate({k})
      /\ UNCHANGED <<version, fetches, fetch>>
    BY DEF Cache!Tell
<1> QED
    BY <1>3, <1>4, CacheInvalidate

LEMMA CacheInvalidateAll ==
    ASSUME CacheConstants, CacheInv, Cache!InvalidateAll
    PROVE  CacheInv'
<1>1. told' = told /\ told \in [Inner -> 0..MaxWrites] /\ untold' \subseteq untold
      /\ UNCHANGED <<version, fetches, fetch>> /\ Cache!Invalidate(Inner) /\ Inner \in SUBSET Inner
    BY DEF CacheInv, CacheTypes, Cache!TypeOK, Cache!InvalidateAll
<1> QED
    BY <1>1, CacheInvalidate

LEMMA CacheEvict ==
    ASSUME CacheConstants, CacheInv, NEW k \in Cache!Keys, Cache!Evict(k)
    PROVE  CacheInv'
<1> DEFINE called == k \in Inner /\ Cache!WatchedNode(k)
           A == Cache!WithOuter({k}, called)
           B == Cache!WithOuter({}, called)
<1>1. Cache!Remove(A, B) /\ k \in cached /\ UNCHANGED <<version, untold, told, fetches, fetch>>
    BY DEF Cache!Evict
<1>2. A \in SUBSET Cache!Keys /\ B \in SUBSET Cache!Keys
    BY DEF Cache!WithOuter, Cache!Keys
<1>3. ASSUME NEW j \in Inner, j \in A \/ j \in B, Watched(j)
      PROVE  Cache!Outer \in A /\ Cache!Outer \in B
  <2>1. j = k
    BY <1>3 DEF Cache!WithOuter, CacheConstants
  <2>2. ~Cache!WatchedEntry(k)
    BY <1>1 DEF Cache!WatchedEntry, CacheInv, Entries
  <2>3. called
    BY <1>3, <2>1, <2>2 DEF Watched
  <2> QED
    BY <2>3 DEF Cache!WithOuter
<1>4. told' \in [Inner -> 0..MaxWrites]
    BY <1>1 DEF CacheInv, CacheTypes, Cache!TypeOK
<1> HIDE DEF A, B
<1> QED
    BY <1>1, <1>2, <1>3, <1>4, CacheRemove

LEMMA CacheWrite ==
    ASSUME CacheConstants, CacheInv, NEW k \in Inner, Cache!Write(k)
    PROVE  CacheInv'
<1> USE DEF Cache!Write
<1>1. version[k] \in 0..MaxWrites /\ version[k] + 1 \in 1..MaxWrites
      /\ version' = [version EXCEPT ![k] = version[k] + 1]
      /\ version \in [Inner -> 0..MaxWrites]
    BY DEF CacheConstants, CacheInv, CacheTypes, Cache!TypeOK
<1>2. CacheTypes'
    BY <1>1 DEF CacheInv, CacheTypes, Cache!TypeOK
<1>3. Committed'
  <2>1. \A j \in Inner : version'[j] \in 0..MaxWrites /\ version[j] <= version'[j]
                         /\ (j = k => version'[j] = version[k] + 1) /\ told[j] \in 0..MaxWrites
    BY <1>1 DEF CacheInv, CacheTypes, Cache!TypeOK
  <2>2. \A j \in Inner : told'[j] <= version'[j]
    BY <1>1, <2>1 DEF CacheInv, Committed
  <2>3. ASSUME NEW j \in Inner, NEW v \in 1..MaxWrites, <<j, v>> \in untold'
        PROVE  v <= version'[j]
    BY <1>1, <2>1, <2>3 DEF CacheInv, Committed
  <2> QED
    BY <2>2, <2>3 DEF Committed
<1>4. UNCHANGED <<told, cached, result, watched, pending, fetches, fetch>>
    OBVIOUS
<1> QED
    BY <1>2, <1>3, <1>4
    DEF CacheInv, Shapes, Entries, Awaited, UsesAreWatched, Uses, Watched, Cache!WatchedNode,
        Cache!WatchedEntry, FreshInner, FreshOuter, FreshPending, FreshFetch

\* The entry of a fetch that is new, or over.
LEMMA IdleEntry ==
    ASSUME CacheConstants
    PROVE  /\ Cache!Idle \in FetchRecords /\ Cache!Idle.keys = {} /\ Cache!Idle.watched = {}
           /\ \A k \in Inner : Cache!Idle.value[k] = Cache!Unknown /\ Cache!Idle.from[k] = Cache!NoFetch
<1>1. [k \in Inner |-> Cache!Unknown] \in Cache!Values
    BY DEF Cache!Values, Cache!Unknown, CacheConstants
<1> QED
    BY <1>1 DEF FetchRecords, Cache!Idle

EntryOf(e, ks, ws) ==
    /\ e \in FetchRecords /\ e.keys = ks /\ e.watched = ws
    /\ \A k \in Inner : e.value[k] = Cache!Unknown /\ e.from[k] = Cache!NoFetch
LEMMA RunningEntry ==
    ASSUME CacheConstants, NEW ks \in SUBSET Cache!Keys, NEW ws \in SUBSET Inner
    PROVE  /\ EntryOf([Cache!Idle EXCEPT !.state = "running", !.keys = ks, !.watched = ws], ks, ws)
           /\ EntryOf([Cache!Idle EXCEPT !.state = "running", !.keys = ks], ks, {})
           /\ EntryOf([Cache!Idle EXCEPT !.state = "over"], {}, {})
           /\ [Cache!Idle EXCEPT !.state = "running", !.keys = ks, !.watched = ws].state = "running"
           /\ [Cache!Idle EXCEPT !.state = "running", !.keys = ks].state = "running"
<1>1. EntryOf([Cache!Idle EXCEPT !.state = "running", !.keys = ks, !.watched = ws], ks, ws)
      /\ [Cache!Idle EXCEPT !.state = "running", !.keys = ks, !.watched = ws].state = "running"
    BY IdleEntry DEF EntryOf, FetchRecords
<1>2. EntryOf([Cache!Idle EXCEPT !.state = "running", !.keys = ks], ks, {})
      /\ [Cache!Idle EXCEPT !.state = "running", !.keys = ks].state = "running"
    BY IdleEntry DEF EntryOf, FetchRecords
<1>3. EntryOf([Cache!Idle EXCEPT !.state = "over"], {}, {})
    BY IdleEntry DEF EntryOf, FetchRecords
<1> QED
    BY <1>1, <1>2, <1>3

LEMMA CacheGet ==
    ASSUME CacheConstants, CacheInv, NEW key \in Cache!Keys, Cache!Get(key)
    PROVE  CacheInv'
<1> DEFINE new == fetches + 1
           entry == [Cache!Idle EXCEPT !.state = "running", !.keys = {key}]
<1> USE DEF Cache!Get
<1>0. key \notin cached /\ pending[key] = Cache!NoFetch
    BY DEF Cache!Missing
<1>1. new \in Cache!Fetches /\ fetches' = new /\ fetches \in Nat
    BY DEF CacheConstants, CacheInv, CacheTypes, Cache!TypeOK, Cache!Fetches
<1>2. /\ entry.state = "running" /\ entry.keys = {key} /\ entry.watched = {}
      /\ \A k \in Inner : entry.value[k] = Cache!Unknown /\ entry.from[k] = Cache!NoFetch
      /\ entry \in FetchRecords
  <2>1. {key} \in SUBSET Cache!Keys /\ {} \in SUBSET Inner
    OBVIOUS
  <2>2. EntryOf(entry, {key}, {}) /\ entry.state = "running"
    BY <2>1, RunningEntry, Zenon
  <2> HIDE DEF entry
  <2> QED
    BY <2>2 DEF EntryOf
<1>3. fetch[new].keys = {}
    BY <1>1 DEF CacheInv, Shapes
<1>4. fetch'[new] = entry /\ \A i \in Cache!Fetches : i # new => fetch'[i] = fetch[i]
    BY <1>1 DEF CacheInv, CacheTypes
<1>5. pending'[key] = new /\ \A k \in Cache!Keys : k # key => pending'[k] = pending[k]
    BY DEF CacheInv, CacheTypes, Cache!TypeOK
<1> HIDE DEF new, entry
<1>6. /\ \A k \in Cache!Keys : pending[k] # new /\ (pending[k] # Cache!NoFetch => pending[k] \in Cache!Fetches)
      /\ \A i \in Cache!Fetches : \A k \in Inner :
            fetch[i].from[k] # new /\ (fetch[i].from[k] # Cache!NoFetch => fetch[i].from[k] \in Cache!Fetches)
    BY <1>1, <1>3, CacheFacts DEF CacheInv, Entries, Awaited
<1>7. CacheTypes'
  <2>1. fetch' \in [Cache!Fetches -> FetchRecords]
    BY <1>1, <1>2, <1>4 DEF CacheInv, CacheTypes
  <2>2. pending' \in [Cache!Keys -> Cache!Fetches \union {Cache!NoFetch}]
    BY <1>1 DEF CacheInv, CacheTypes, Cache!TypeOK, new
  <2>3. fetches' \in 0..MaxFetches
    BY <1>1 DEF Cache!Fetches
  <2>4. \A i \in Cache!Fetches : fetch'[i].value \in Cache!Values /\ fetch'[i].keys \subseteq Cache!Keys
    BY <2>1 DEF FetchRecords
  <2> QED
    BY <2>1, <2>2, <2>3, <2>4 DEF CacheInv, CacheTypes, Cache!TypeOK
<1>8. Shapes'
  <2>1. {key} = {Cache!Outer} \/ {key} \subseteq Inner
    BY DEF Cache!Keys
  <2>2. \A i \in Cache!Fetches : i <= fetches => i <= fetches'
    BY <1>1 DEF new, Cache!Fetches, CacheConstants
  <2>3. new <= fetches'
    BY <1>1
  <2> QED
    BY <1>2, <1>4, <2>1, <2>2, <2>3 DEF CacheInv, Shapes
<1>9. Entries'
    BY <1>0, <1>2, <1>4, <1>5, <1>6 DEF CacheInv, Entries
<1>10. Awaited'
  <2> SUFFICES ASSUME NEW i \in Cache!Fetches, NEW k \in Inner, fetch'[i].from[k] # Cache!NoFetch
               PROVE  fetch'[i].keys = {Cache!Outer} /\ k \in fetch'[fetch'[i].from[k]].keys
    BY DEF Awaited
  <2>1. i # new /\ fetch'[i] = fetch[i]
    BY <1>2, <1>4
  <2>2. fetch'[fetch[i].from[k]] = fetch[fetch[i].from[k]]
    BY <1>4, <1>6, <2>1
  <2> QED
    BY <2>1, <2>2 DEF CacheInv, Awaited
<1>11. Committed' /\ FreshOuter'
    BY DEF CacheInv, Committed, FreshOuter
<1>12. UsesAreWatched'
  <2> SUFFICES ASSUME NEW k \in Inner, Uses(k)'
               PROVE  Watched(k)'
    BY DEF UsesAreWatched
  <2>1. Uses(k)
    <3>1. cached' = cached /\ result' = result
        OBVIOUS
    <3>2. CASE key = Cache!Outer
      <4>1. fetch'[pending'[Cache!Outer]].value[k] = Cache!Unknown
            /\ fetch'[pending'[Cache!Outer]].from[k] = Cache!NoFetch
        BY <1>2, <1>4, <1>5, <3>2
      <4> QED
        BY <3>1, <4>1 DEF Uses
    <3>3. CASE key # Cache!Outer
      <4>1. pending'[Cache!Outer] = pending[Cache!Outer]
        BY <1>5, <3>3 DEF Cache!Keys
      <4>2. pending[Cache!Outer] # Cache!NoFetch => fetch'[pending[Cache!Outer]] = fetch[pending[Cache!Outer]]
        BY <1>4, <1>6 DEF Cache!Keys
      <4> QED
        BY <3>1, <4>1, <4>2 DEF Uses
    <3> QED
        BY <3>2, <3>3
  <2>2. Watched(k) /\ k \in Cache!Keys
    BY <2>1 DEF CacheInv, UsesAreWatched, Cache!Keys
  <2>3. k # key
    BY <2>2, <1>0 DEF Watched, Cache!WatchedNode, Cache!WatchedEntry
  <2> QED
    BY <2>2, <2>3, <1>4, <1>5, <1>6 DEF Watched, Cache!WatchedNode, Cache!WatchedEntry
<1>13. FreshInner'
  <2> SUFFICES ASSUME NEW k \in Inner, pending'[k] # Cache!NoFetch
               PROVE  NewEnough(fetch'[pending'[k]].value[k], told[k])
    BY DEF CacheInv, FreshInner
  <2>1. CASE k = key
    BY <1>2, <1>4, <1>5, <2>1 DEF NewEnough
  <2>2. CASE k # key
    <3>1. pending'[k] = pending[k] /\ fetch'[pending[k]] = fetch[pending[k]]
        BY <1>4, <1>5, <1>6, <2>2 DEF Cache!Keys
    <3> QED
        BY <3>1 DEF CacheInv, FreshInner
  <2> QED
    BY <2>1, <2>2
<1>14. FreshPending'
  <2> SUFFICES ASSUME NEW k \in Inner, pending'[Cache!Outer] # Cache!NoFetch
               PROVE  FreshFetch(pending[Cache!Outer], k)'
    BY DEF FreshPending
  <2>1. CASE key = Cache!Outer
    <3>1. fetch'[pending'[Cache!Outer]].value[k] = Cache!Unknown
          /\ fetch'[pending'[Cache!Outer]].from[k] = Cache!NoFetch
        BY <1>2, <1>4, <1>5, <2>1
    <3> QED
        BY <3>1 DEF FreshFetch, NewEnough
  <2>2. CASE key # Cache!Outer
    <3>1. pending'[Cache!Outer] = pending[Cache!Outer] /\ pending[Cache!Outer] \in Cache!Fetches
          /\ fetch'[pending[Cache!Outer]] = fetch[pending[Cache!Outer]]
        BY <1>4, <1>5, <1>6, <2>2 DEF Cache!Keys
    <3>2. FreshFetch(pending[Cache!Outer], k)
        BY <3>1 DEF CacheInv, FreshPending
    <3> DEFINE f == fetch[pending[Cache!Outer]].from[k]
    <3>3. f # Cache!NoFetch => fetch'[f] = fetch[f]
        BY <1>4, <1>6, <3>1
    <3> QED
        BY <3>1, <3>2, <3>3 DEF FreshFetch
  <2> QED
    BY <2>1, <2>2
<1> QED
    BY <1>7, <1>8, <1>9, <1>10, <1>11, <1>12, <1>13, <1>14 DEF CacheInv

LEMMA CacheDbRead ==
    ASSUME CacheConstants, CacheInv, NEW i \in Cache!Fetches, Cache!DbRead(i)
    PROVE  CacheInv'
<1> DEFINE read == [k \in Inner |-> IF k \in fetch[i].keys THEN version[k] ELSE Cache!Unknown]
<1>0. fetch[i].state = "running" /\ Cache!Outer \notin fetch[i].keys
      /\ UNCHANGED <<version, untold, told, cached, result, watched, pending, fetches>>
    BY DEF Cache!DbRead
<1>1. read \in Cache!Values
    BY DEF CacheConstants, CacheInv, CacheTypes, Cache!TypeOK, Cache!Values, Cache!Unknown
<1>2. /\ fetch'[i] = [fetch[i] EXCEPT !.state = "read", !.value = read]
      /\ \A j \in Cache!Fetches : j # i => fetch'[j] = fetch[j]
      /\ fetch' = [fetch EXCEPT ![i] = [fetch[i] EXCEPT !.state = "read", !.value = read]]
    BY DEF CacheInv, CacheTypes, Cache!DbRead
<1>3. /\ fetch'[i].state = "read" /\ fetch'[i].value = read /\ fetch'[i].keys = fetch[i].keys
      /\ fetch'[i].from = fetch[i].from /\ fetch'[i].watched = fetch[i].watched
      /\ fetch'[i] \in FetchRecords
    BY <1>1, <1>2 DEF CacheInv, CacheTypes, FetchRecords
<1>4. \A k \in Inner : k \in fetch[i].keys => read[k] = version[k] /\ NewEnough(read[k], told[k])
    BY DEF CacheInv, CacheTypes, Cache!TypeOK, Committed, NewEnough
<1> HIDE DEF read
<1>5. \A j \in Cache!Fetches : fetch'[j].keys = fetch[j].keys /\ fetch'[j].from = fetch[j].from
                            /\ fetch'[j].watched = fetch[j].watched
    BY <1>2, <1>3
<1>6. CacheTypes'
  <2>1. fetch' \in [Cache!Fetches -> FetchRecords]
    BY <1>2, <1>3 DEF CacheInv, CacheTypes
  <2>2. \A j \in Cache!Fetches : fetch'[j].value \in Cache!Values /\ fetch'[j].keys \subseteq Cache!Keys
    BY <2>1 DEF FetchRecords
  <2> QED
    BY <1>0, <2>1, <2>2 DEF CacheInv, CacheTypes, Cache!TypeOK
<1>7. Shapes'
    BY <1>0, <1>2, <1>3 DEF CacheInv, Shapes
<1>8. Entries' /\ Awaited' /\ Committed' /\ FreshOuter'
    BY <1>0, <1>5, CacheFacts DEF CacheInv, Entries, Awaited, Committed, FreshOuter
<1>9. pending[Cache!Outer] # i
    BY <1>0, CacheFacts DEF CacheInv, Entries
<1>10. UsesAreWatched'
  <2> SUFFICES ASSUME NEW k \in Inner, Uses(k)'
               PROVE  Watched(k)'
    BY DEF UsesAreWatched
  <2>1. Uses(k)
    BY <1>0, <1>2, <1>9, CacheFacts DEF Uses
  <2> QED
    BY <1>0, <1>5, <2>1, CacheFacts
    DEF CacheInv, UsesAreWatched, Watched, Cache!WatchedNode, Cache!WatchedEntry
<1>11. FreshInner'
    BY <1>0, <1>2, <1>3, <1>4, CacheFacts DEF CacheInv, FreshInner, Entries
<1>12. FreshPending'
  <2> SUFFICES ASSUME NEW k \in Inner, pending'[Cache!Outer] # Cache!NoFetch
               PROVE  FreshFetch(pending[Cache!Outer], k)'
    BY DEF FreshPending
  <2>1. pending'[Cache!Outer] = pending[Cache!Outer] /\ told' = told /\ pending[Cache!Outer] \in Cache!Fetches
        /\ fetch'[pending[Cache!Outer]] = fetch[pending[Cache!Outer]]
    BY <1>0, <1>2, <1>9, CacheFacts
  <2>2. FreshFetch(pending[Cache!Outer], k)
    BY <2>1 DEF CacheInv, FreshPending
  <2> DEFINE f == fetch[pending[Cache!Outer]].from[k]
  <2>3. f # Cache!NoFetch => f \in Cache!Fetches /\ k \in fetch[f].keys
    BY <2>1, CacheFacts DEF CacheInv, Awaited
  <2>4. f # Cache!NoFetch => NewEnough(fetch'[f].value[k], told[k])
    BY <1>2, <1>3, <1>4, <2>2, <2>3 DEF FreshFetch
  <2> QED
    BY <2>1, <2>2, <2>4 DEF FreshFetch
<1> QED
    BY <1>6, <1>7, <1>8, <1>10, <1>11, <1>12 DEF CacheInv

\* A fetch is over, and those who wait for it have its result.
LEMMA CacheOver ==
    ASSUME CacheConstants, CacheInv, NEW i \in Cache!Fetches, Cache!Store(i),
           UNCHANGED <<version, untold, told, fetches>>,
           fetch' \in [Cache!Fetches -> FetchRecords],
           fetch'[i].keys = {}, \A k \in Inner : fetch'[i].from[k] = Cache!NoFetch,
           \A j \in Cache!Fetches : j # i =>
                /\ fetch'[j].state = fetch[j].state /\ fetch'[j].keys = fetch[j].keys
                /\ fetch'[j].watched = fetch[j].watched
                /\ \A k \in Inner :
                     /\ fetch'[j].value[k] = IF fetch[j].from[k] = i THEN fetch[i].value[k]
                                             ELSE fetch[j].value[k]
                     /\ fetch'[j].from[k] = IF fetch[j].from[k] = i THEN Cache!NoFetch
                                            ELSE fetch[j].from[k]
    PROVE  CacheInv'
<1> DEFINE cur == Cache!CurrentKeys(i)
<1>0. fetch[i] \in FetchRecords
    BY CacheFacts
<1>1. \A k \in Cache!Keys : k \in cur <=> pending[k] = i
    BY CacheFacts DEF Cache!CurrentKeys, CacheInv, Entries
<1>2. cur \subseteq Cache!Keys
    BY <1>0 DEF Cache!CurrentKeys, FetchRecords
<1>3. /\ cached' = cached \union cur
      /\ \A k \in Cache!Keys : result'[k] = IF k \in cur THEN fetch[i].value ELSE result[k]
      /\ watched' = (watched \ cur) \union (cur \intersect fetch[i].watched)
      /\ \A k \in Cache!Keys : pending'[k] = IF pending[k] = i THEN Cache!NoFetch ELSE pending[k]
      /\ pending' = [k \in Cache!Keys |-> IF pending[k] = i THEN Cache!NoFetch ELSE pending[k]]
      /\ result' = [k \in Cache!Keys |-> IF k \in cur THEN fetch[i].value ELSE result[k]]
    BY DEF Cache!Store
<1> HIDE DEF cur
<1>4. CacheTypes'
  <2>1. \A j \in Cache!Fetches : fetch'[j].value \in Cache!Values /\ fetch'[j].keys \subseteq Cache!Keys
    BY DEF FetchRecords
  <2>2. pending' \in [Cache!Keys -> Cache!Fetches \union {Cache!NoFetch}]
    BY <1>3 DEF CacheInv, CacheTypes, Cache!TypeOK
  <2>3. result' \in [Cache!Keys -> Cache!Values]
    BY <1>0, <1>3 DEF CacheInv, CacheTypes, Cache!TypeOK, FetchRecords
  <2>4. watched' \subseteq Inner /\ cached' \subseteq Cache!Keys
    BY <1>0, <1>2, <1>3 DEF CacheInv, CacheTypes, Cache!TypeOK, FetchRecords
  <2> QED
    BY <2>1, <2>2, <2>3, <2>4 DEF CacheInv, CacheTypes, Cache!TypeOK
<1>5. Shapes'
    BY DEF CacheInv, Shapes
<1>6. \A k \in Cache!Keys : pending'[k] # Cache!NoFetch =>
        pending'[k] = pending[k] /\ pending[k] \in Cache!Fetches /\ pending[k] # i
    BY <1>3, CacheFacts
<1>7. Entries'
    BY <1>1, <1>3, <1>6 DEF CacheInv, Entries
<1>8. \A j \in Cache!Fetches : \A k \in Inner : fetch'[j].from[k] # Cache!NoFetch =>
        j # i /\ fetch'[j].from[k] = fetch[j].from[k] /\ fetch[j].from[k] # i
        /\ fetch[j].from[k] \in Cache!Fetches
    BY CacheFacts
<1>9. Awaited'
    BY <1>8 DEF CacheInv, Awaited
<1>10. Committed'
    BY DEF CacheInv, Committed
<1>11. \A j \in Cache!Fetches : \A k \in Inner :
        k \in fetch[j].keys /\ j # i => fetch'[j].value[k] = fetch[j].value[k]
  <2> SUFFICES ASSUME NEW j \in Cache!Fetches, NEW k \in Inner, k \in fetch[j].keys, j # i
               PROVE  fetch[j].from[k] # i
    OBVIOUS
  <2>1. fetch[j].keys # {Cache!Outer}
    BY DEF CacheConstants
  <2> QED
    BY <2>1, CacheFacts DEF CacheInv, Awaited
<1>12. ASSUME NEW k \in Inner, Watched(k)
       PROVE  Watched(k)'
  <2>0. k \in Cache!Keys
    BY DEF Cache!Keys
  <2>1. CASE Cache!WatchedNode(k)
    <3>1. k \in cached /\ k \in watched
        BY <2>1 DEF Cache!WatchedNode
    <3>2. k \notin cur
        BY <2>0, <3>1, <1>1, CacheFacts DEF CacheInv, Entries
    <3>3. Cache!WatchedNode(k)'
        BY <3>1, <3>2, <1>3 DEF Cache!WatchedNode
    <3> QED
        BY <3>3 DEF Watched
  <2>2. CASE Cache!WatchedEntry(k)
    <3>1. pending[k] \in Cache!Fetches /\ k \in fetch[pending[k]].watched /\ pending[k] # Cache!NoFetch
        BY <2>0, <2>2, CacheFacts DEF Cache!WatchedEntry
    <3>2. CASE pending[k] = i
      <4>1. Cache!WatchedNode(k)'
        BY <2>0, <3>1, <3>2, <1>1, <1>3 DEF Cache!WatchedNode
      <4> QED
        BY <4>1 DEF Watched
    <3>3. CASE pending[k] # i
      <4>1. Cache!WatchedEntry(k)'
        BY <2>0, <3>1, <3>3, <1>3 DEF Cache!WatchedEntry
      <4> QED
        BY <4>1 DEF Watched
    <3> QED
        BY <3>2, <3>3
  <2> QED
    BY <1>12, <2>1, <2>2 DEF Watched
<1>13. ASSUME NEW k \in Inner, Uses(k)'
       PROVE  Uses(k)
  <2>1. CASE Cache!Outer \in cached' /\ result'[Cache!Outer][k] # Cache!Unknown
    BY <2>1, <1>1, <1>3, CacheFacts DEF Uses
  <2>2. CASE pending'[Cache!Outer] # Cache!NoFetch
    <3>1. pending'[Cache!Outer] = pending[Cache!Outer] /\ pending[Cache!Outer] \in Cache!Fetches
          /\ pending[Cache!Outer] # i
        BY <2>2, <1>6, CacheFacts
    <3>2. \/ Cache!Outer \in cached' /\ result'[Cache!Outer][k] # Cache!Unknown
          \/ fetch'[pending[Cache!Outer]].value[k] # Cache!Unknown
          \/ fetch'[pending[Cache!Outer]].from[k] # Cache!NoFetch
        BY <1>13, <3>1 DEF Uses
    <3>3. fetch'[pending[Cache!Outer]].value[k] # Cache!Unknown
          \/ fetch'[pending[Cache!Outer]].from[k] # Cache!NoFetch =>
             \/ fetch[pending[Cache!Outer]].value[k] # Cache!Unknown
             \/ fetch[pending[Cache!Outer]].from[k] # Cache!NoFetch
        BY <3>1, CacheFacts
    <3> QED
        BY <2>1, <2>2, <3>1, <3>2, <3>3 DEF Uses
  <2> QED
    BY <1>13, <2>1, <2>2 DEF Uses
<1>14. UsesAreWatched'
    BY <1>12, <1>13 DEF CacheInv, UsesAreWatched
<1>15. FreshInner'
  <2> SUFFICES ASSUME NEW k \in Inner
               PROVE  /\ k \in cached' => NewEnough(result'[k][k], told[k])
                      /\ pending'[k] # Cache!NoFetch => NewEnough(fetch'[pending'[k]].value[k], told[k])
    BY DEF FreshInner
  <2>0. k \in Cache!Keys /\ i # Cache!NoFetch
    BY CacheFacts DEF Cache!Keys
  <2>1. k \in cached' => NewEnough(result'[k][k], told[k])
    BY <2>0, <1>1, <1>3 DEF CacheInv, FreshInner
  <2>2. pending'[k] # Cache!NoFetch => NewEnough(fetch'[pending'[k]].value[k], told[k])
    BY <2>0, <1>6, <1>11 DEF CacheInv, FreshInner, Entries
  <2> QED
    BY <2>1, <2>2
<1>16. FreshOuter'
  <2> SUFFICES ASSUME NEW k \in Inner, Cache!Outer \in cached'
               PROVE  NewEnough(result'[Cache!Outer][k], told[k])
    BY DEF FreshOuter
  <2>1. CASE Cache!Outer \in cur
    <3>1. pending[Cache!Outer] = i /\ i # Cache!NoFetch /\ result'[Cache!Outer] = fetch[i].value
        BY <2>1, <1>1, <1>3, CacheFacts
    <3> QED
        BY <3>1 DEF CacheInv, FreshPending, FreshFetch
  <2>2. CASE Cache!Outer \notin cur
    BY <2>2, <1>3, CacheFacts DEF CacheInv, FreshOuter
  <2> QED
    BY <2>1, <2>2
<1>17. FreshPending'
  <2> SUFFICES ASSUME NEW k \in Inner, pending'[Cache!Outer] # Cache!NoFetch
               PROVE  FreshFetch(pending[Cache!Outer], k)'
    BY DEF FreshPending
  <2> DEFINE e == pending[Cache!Outer]
             f == fetch[e].from[k]
  <2>1. pending'[Cache!Outer] = e /\ e \in Cache!Fetches /\ e # i /\ e # Cache!NoFetch
    BY <1>6, CacheFacts
  <2>2. FreshFetch(e, k)
    BY <2>1 DEF CacheInv, FreshPending
  <2>3. NewEnough(fetch'[e].value[k], told[k])
    <3>1. f = i => NewEnough(fetch[i].value[k], told[k])
        BY <2>2, CacheFacts DEF FreshFetch
    <3>2. NewEnough(fetch[e].value[k], told[k])
        BY <2>2 DEF FreshFetch
    <3>3. fetch'[e].value[k] = IF f = i THEN fetch[i].value[k] ELSE fetch[e].value[k]
        BY <2>1
    <3> QED
        BY <3>1, <3>2, <3>3
  <2>4. ASSUME fetch'[e].from[k] # Cache!NoFetch
        PROVE  NewEnough(fetch'[fetch'[e].from[k]].value[k], told[k])
    <3>1. fetch'[e].from[k] = f /\ f # i /\ f \in Cache!Fetches /\ f # Cache!NoFetch
        BY <2>1, <2>4, <1>8
    <3>2. k \in fetch[f].keys
        BY <2>1, <3>1 DEF CacheInv, Awaited
    <3>3. fetch'[f].value[k] = fetch[f].value[k]
        BY <3>1, <3>2, <1>11
    <3>4. NewEnough(fetch[f].value[k], told[k])
        BY <2>2, <3>1 DEF FreshFetch
    <3> QED
        BY <3>1, <3>3, <3>4
  <2> QED
    BY <2>1, <2>3, <2>4 DEF FreshFetch
<1> QED
    BY <1>4, <1>5, <1>7, <1>9, <1>10, <1>14, <1>15, <1>16, <1>17 DEF CacheInv

LEMMA CacheComplete ==
    ASSUME CacheConstants, CacheInv, NEW i \in Cache!Fetches, Cache!Complete(i)
    PROVE  CacheInv'
<1> DEFINE over == [Cache!Idle EXCEPT !.state = "over"]
           got(j) == [k \in Inner |-> IF fetch[j].from[k] = i THEN fetch[i].value[k]
                                      ELSE fetch[j].value[k]]
           left(j) == [k \in Inner |-> IF fetch[j].from[k] = i THEN Cache!NoFetch ELSE fetch[j].from[k]]
<1>1. Cache!Store(i) /\ UNCHANGED <<version, untold, told, fetches>>
    BY DEF Cache!Complete
<1>2. fetch' = [j \in Cache!Fetches |->
                  IF j = i THEN over ELSE [fetch[j] EXCEPT !.value = got(j), !.from = left(j)]]
    BY DEF Cache!Complete
<1>3. EntryOf(over, {}, {})
    BY RunningEntry
<1>4. ASSUME NEW j \in Cache!Fetches
      PROVE  got(j) \in Cache!Values /\ left(j) \in [Inner -> Cache!Fetches \union {Cache!NoFetch}]
    BY CacheFacts DEF FetchRecords, Cache!Values
<1> HIDE DEF over
<1>5. fetch'[i] = over
    BY <1>2
<1>6. ASSUME NEW j \in Cache!Fetches, j # i
      PROVE  /\ fetch'[j] \in FetchRecords
             /\ fetch'[j].state = fetch[j].state /\ fetch'[j].keys = fetch[j].keys
             /\ fetch'[j].watched = fetch[j].watched
             /\ fetch'[j].value = got(j) /\ fetch'[j].from = left(j)
  <2> DEFINE g == got(j)
             l == left(j)
  <2>1. fetch'[j] = [fetch[j] EXCEPT !.value = g, !.from = l]
    BY <1>2, <1>6
  <2>2. fetch[j] \in FetchRecords /\ g \in Cache!Values
        /\ l \in [Inner -> Cache!Fetches \union {Cache!NoFetch}]
    BY <1>4, CacheFacts
  <2> HIDE DEF g, l
  <2>3. /\ fetch'[j] \in FetchRecords
        /\ fetch'[j].state = fetch[j].state /\ fetch'[j].keys = fetch[j].keys
        /\ fetch'[j].watched = fetch[j].watched /\ fetch'[j].value = g /\ fetch'[j].from = l
    BY <2>1, <2>2 DEF FetchRecords
  <2> QED
    BY <2>3 DEF g, l
<1>7. fetch' \in [Cache!Fetches -> FetchRecords]
    BY <1>2, <1>3, <1>5, <1>6 DEF EntryOf
<1>8. \A j \in Cache!Fetches : j # i =>
        /\ fetch'[j].state = fetch[j].state /\ fetch'[j].keys = fetch[j].keys
        /\ fetch'[j].watched = fetch[j].watched
        /\ \A k \in Inner :
             /\ fetch'[j].value[k] = IF fetch[j].from[k] = i THEN fetch[i].value[k]
                                     ELSE fetch[j].value[k]
             /\ fetch'[j].from[k] = IF fetch[j].from[k] = i THEN Cache!NoFetch ELSE fetch[j].from[k]
  <2>1. \A j \in Cache!Fetches : \A k \in Inner :
          /\ got(j)[k] = IF fetch[j].from[k] = i THEN fetch[i].value[k] ELSE fetch[j].value[k]
          /\ left(j)[k] = IF fetch[j].from[k] = i THEN Cache!NoFetch ELSE fetch[j].from[k]
    OBVIOUS
  <2> HIDE DEF got, left
  <2> QED
    BY <1>6, <2>1
<1>9. fetch'[i].keys = {} /\ \A k \in Inner : fetch'[i].from[k] = Cache!NoFetch
    BY <1>3, <1>5 DEF EntryOf
<1> HIDE DEF got, left
<1> QED
    BY <1>1, <1>7, <1>8, <1>9, CacheOver

LEMMA CacheCompleteOuter ==
    ASSUME CacheConstants, CacheInv, NEW i \in Cache!Fetches, Cache!CompleteOuter(i)
    PROVE  CacheInv'
<1> DEFINE over == [Cache!Idle EXCEPT !.state = "over"]
<1>1. Cache!Store(i) /\ UNCHANGED <<version, untold, told, fetches>> /\ fetch[i].keys = {Cache!Outer}
      /\ fetch' = [fetch EXCEPT ![i] = over]
    BY DEF Cache!CompleteOuter
<1>2. EntryOf(over, {}, {})
    BY RunningEntry
<1> HIDE DEF over
<1>3. fetch' \in [Cache!Fetches -> FetchRecords] /\ fetch'[i] = over
      /\ \A j \in Cache!Fetches : j # i => fetch'[j] = fetch[j]
    BY <1>1, <1>2 DEF EntryOf, CacheInv, CacheTypes
<1>4. fetch'[i].keys = {} /\ \A k \in Inner : fetch'[i].from[k] = Cache!NoFetch
    BY <1>2, <1>3 DEF EntryOf
<1>5. \A j \in Cache!Fetches : \A k \in Inner : fetch[j].from[k] # i
    BY <1>1, CacheFacts DEF CacheInv, Awaited, CacheConstants
<1> QED
    BY <1>1, <1>3, <1>4, <1>5, CacheOver

\* A failure removes the entries of the fetch, and the outer fetch that waits
\* for it.
LEMMA CacheFail ==
    ASSUME CacheConstants, CacheInv, NEW i \in Cache!Fetches, Cache!Fail(i)
    PROVE  CacheInv'
<1> DEFINE over == [Cache!Idle EXCEPT !.state = "over"]
           gone == {i} \union Cache!Waiting(i)
           called == \E k \in Cache!CurrentKeys(i) \ {Cache!Outer} : Cache!WatchedEntry(k)
           A == Cache!WithOuter({}, called)
           B == Cache!WithOuter(Cache!FailedKeys(i), called)
<1>1. /\ Cache!Remove(A, B) /\ UNCHANGED <<version, untold, told, fetches>>
      /\ fetch' = [j \in Cache!Fetches |-> IF j \in gone THEN over ELSE fetch[j]]
    BY DEF Cache!Fail
<1>2. EntryOf(over, {}, {})
    BY RunningEntry
<1>3. /\ A \subseteq B /\ A \subseteq {Cache!Outer} /\ (Cache!Outer \in A <=> called)
      /\ \A k \in Cache!Keys : k \in B <=> pending[k] \in gone \/ (k = Cache!Outer /\ called)
    BY DEF Cache!WithOuter, Cache!FailedKeys
<1>4. \A j \in gone : j \in Cache!Fetches /\ (j # i => fetch[j].keys = {Cache!Outer})
    BY CacheFacts DEF Cache!Waiting, CacheInv, Awaited
<1>5. \A j \in Cache!Fetches : \A k \in Inner : fetch[j].from[k] = i => j \in gone
    BY DEF Cache!Waiting
<1>6. \A j \in Cache!Fetches : \A k \in Inner : k \in fetch[j].keys => j = i \/ j \notin gone
    BY <1>4 DEF CacheConstants
<1>7. \A k \in Inner : pending[k] = i /\ Cache!WatchedEntry(k) => called
  <2> SUFFICES ASSUME NEW k \in Inner, pending[k] = i, Cache!WatchedEntry(k)
               PROVE  called
    OBVIOUS
  <2>1. k \in Cache!CurrentKeys(i) \ {Cache!Outer}
    BY CacheFacts DEF Cache!CurrentKeys, CacheInv, Entries, CacheConstants
  <2> QED
    BY <2>1
<1> HIDE DEF over, gone, called, A, B
<1>8. /\ \A j \in Cache!Fetches : fetch'[j] = IF j \in gone THEN over ELSE fetch[j]
      /\ fetch' \in [Cache!Fetches -> FetchRecords]
    BY <1>1, <1>2 DEF EntryOf, CacheInv, CacheTypes
<1>9. over.keys = {} /\ \A k \in Inner : over.from[k] = Cache!NoFetch
    BY <1>2 DEF EntryOf
<1>10. /\ \A k \in Cache!Keys : pending'[k] = IF k \in B THEN Cache!NoFetch ELSE pending[k]
       /\ cached' = cached \ A /\ watched' = watched \ A
       /\ \A k \in Cache!Keys : k \notin A => result'[k] = result[k]
    BY <1>1 DEF Cache!Remove
<1>11. CacheTypes'
  <2>1. Cache!Idle.value \in Cache!Values
    BY IdleEntry DEF FetchRecords
  <2>2. result' \in [Cache!Keys -> Cache!Values] /\ pending' \in [Cache!Keys -> Cache!Fetches \union {Cache!NoFetch}]
    BY <1>1, <2>1 DEF Cache!Remove, CacheInv, CacheTypes, Cache!TypeOK
  <2>3. \A j \in Cache!Fetches : fetch'[j].value \in Cache!Values /\ fetch'[j].keys \subseteq Cache!Keys
    BY <1>8 DEF FetchRecords
  <2> QED
    BY <1>1, <1>8, <1>10, <2>2, <2>3 DEF CacheInv, CacheTypes, Cache!TypeOK
<1>12. Shapes'
    BY <1>1, <1>8, <1>9 DEF CacheInv, Shapes
<1>13. \A k \in Cache!Keys : pending'[k] # Cache!NoFetch =>
         /\ k \notin B /\ pending'[k] = pending[k] /\ pending[k] \in Cache!Fetches
         /\ fetch'[pending[k]] = fetch[pending[k]]
    BY <1>3, <1>8, <1>10, CacheFacts
<1>14. Entries'
    BY <1>10, <1>13 DEF CacheInv, Entries
<1>15. \A j \in Cache!Fetches : \A k \in Inner : fetch'[j].from[k] # Cache!NoFetch =>
         /\ fetch'[j] = fetch[j] /\ fetch[j].from[k] \in Cache!Fetches
         /\ fetch'[fetch[j].from[k]] = fetch[fetch[j].from[k]]
  <2> SUFFICES ASSUME NEW j \in Cache!Fetches, NEW k \in Inner, fetch'[j].from[k] # Cache!NoFetch
               PROVE  /\ fetch'[j] = fetch[j] /\ fetch[j].from[k] \in Cache!Fetches
                      /\ fetch'[fetch[j].from[k]] = fetch[fetch[j].from[k]]
    OBVIOUS
  <2>1. j \notin gone /\ fetch'[j] = fetch[j]
    BY <1>8, <1>9
  <2>2. fetch[j].from[k] \in Cache!Fetches /\ k \in fetch[fetch[j].from[k]].keys /\ fetch[j].from[k] # i
    BY <2>1, <1>5, CacheFacts DEF CacheInv, Awaited
  <2> QED
    BY <2>1, <2>2, <1>6, <1>8
<1>16. Awaited'
    BY <1>15 DEF CacheInv, Awaited
<1>17. Committed'
    BY <1>1 DEF CacheInv, Committed
<1>18. UsesAreWatched'
  <2> SUFFICES ASSUME NEW k \in Inner, Uses(k)'
               PROVE  Watched(k)'
    BY DEF UsesAreWatched
  <2>0. k \in Cache!Keys /\ k # Cache!Outer
    BY DEF Cache!Keys, CacheConstants
  <2>1. ~called /\ Uses(k)
    BY <1>3, <1>10, <1>13, CacheFacts DEF Uses
  <2>2. A = {}
    BY <1>3, <2>1
  <2>3. Watched(k)
    BY <2>1 DEF CacheInv, UsesAreWatched
  <2>4. CASE Cache!WatchedNode(k)
    BY <1>10, <2>2, <2>4 DEF Watched, Cache!WatchedNode
  <2>5. CASE Cache!WatchedEntry(k)
    <3>1. pending[k] \in Cache!Fetches /\ k \in fetch[pending[k]].keys /\ pending[k] # i
        BY <2>0, <2>1, <2>5, <1>7, CacheFacts DEF Cache!WatchedEntry, CacheInv, Entries
    <3>2. pending[k] \notin gone
        BY <3>1, <1>6
    <3>3. pending'[k] = pending[k] /\ fetch'[pending[k]] = fetch[pending[k]]
        BY <2>0, <3>1, <3>2, <1>3, <1>8, <1>10
    <3> QED
        BY <2>5, <3>3 DEF Watched, Cache!WatchedEntry
  <2> QED
    BY <2>3, <2>4, <2>5 DEF Watched
<1>19. FreshInner'
  <2>1. \A k \in Inner : k \in Cache!Keys /\ k \notin A
    BY <1>3 DEF Cache!Keys, CacheConstants
  <2> QED
    BY <1>1, <1>10, <1>13, <2>1 DEF CacheInv, FreshInner
<1>20. FreshOuter'
    BY <1>1, <1>10, CacheFacts DEF CacheInv, FreshOuter
<1>21. FreshPending'
  <2> SUFFICES ASSUME NEW k \in Inner, pending'[Cache!Outer] # Cache!NoFetch
               PROVE  FreshFetch(pending[Cache!Outer], k)'
    BY DEF FreshPending
  <2>1. pending'[Cache!Outer] = pending[Cache!Outer] /\ pending[Cache!Outer] \in Cache!Fetches
        /\ fetch'[pending[Cache!Outer]] = fetch[pending[Cache!Outer]] /\ told' = told
    BY <1>1, <1>13, CacheFacts
  <2>2. FreshFetch(pending[Cache!Outer], k)
    BY <2>1 DEF CacheInv, FreshPending
  <2> QED
    BY <1>15, <2>1, <2>2 DEF FreshFetch
<1> QED
    BY <1>11, <1>12, <1>14, <1>16, <1>17, <1>18, <1>19, <1>20, <1>21 DEF CacheInv

\* get_bulk by the outer function: each key is cached, pending, or fetched anew,
\* and has the callback from then on.
LEMMA CacheReadInner ==
    ASSUME CacheConstants, CacheInv, NEW e \in Cache!Fetches, NEW ks \in SUBSET Inner,
           Cache!ReadInner(e, ks)
    PROVE  CacheInv'
<1> DEFINE missing == Cache!Missing(ks)
           bulk == fetches + 1
           answered == {k \in ks : k \in cached}
           sharing == ks \ (missing \union answered)
           got == [k \in Inner |-> IF k \in answered THEN result[k][k] ELSE fetch[e].value[k]]
           from == [k \in Inner |-> IF k \in missing THEN bulk
                                    ELSE IF k \in sharing THEN pending[k] ELSE fetch[e].from[k]]
           new == [Cache!Idle EXCEPT !.state = "running", !.keys = missing, !.watched = missing]
           shared(i) == fetch[i].watched \union {k \in sharing : pending[k] = i}
<1>1. /\ fetch[e].state = "running" /\ fetch[e].keys = {Cache!Outer}
      /\ missing # {} => fetches < MaxFetches
      /\ fetches' = IF missing # {} THEN bulk ELSE fetches
      /\ watched' = watched \union answered
      /\ pending' = [k \in Cache!Keys |-> IF k \in missing THEN bulk ELSE pending[k]]
      /\ UNCHANGED <<version, untold, told, cached, result>>
    BY DEF Cache!ReadInner
<1>2. fetch' = [i \in Cache!Fetches |->
        CASE i = e -> [fetch[e] EXCEPT !.value = got, !.from = from]
          [] i = bulk /\ missing # {} -> new
          [] OTHER -> [fetch[i] EXCEPT !.watched = shared(i)]]
    BY DEF Cache!ReadInner
<1>3. /\ missing \subseteq ks /\ missing \intersect cached = {}
      /\ \A k \in missing : pending[k] = Cache!NoFetch
      /\ \A k \in sharing : k \in ks /\ k \notin cached /\ pending[k] # Cache!NoFetch /\ k \in Inner
      /\ \A k \in answered : k \in ks /\ k \in cached /\ k \in Inner
      /\ \A k \in ks : k \in missing \/ k \in sharing \/ k \in answered
    BY DEF Cache!Missing
<1>4. fetches \in Nat /\ (missing # {} => bulk \in Cache!Fetches)
    BY <1>1 DEF CacheConstants, CacheInv, CacheTypes, Cache!TypeOK, Cache!Fetches
<1>5. bulk \in Cache!Fetches => fetch[bulk].keys = {}
    BY <1>4 DEF CacheInv, Shapes
<1>6. EntryOf(new, missing, missing) /\ new.state = "running"
  <2>1. missing \in SUBSET Cache!Keys /\ missing \in SUBSET Inner
    BY <1>3 DEF Cache!Keys
  <2> HIDE DEF missing
  <2> QED
    BY <2>1, RunningEntry
<1>7. got \in Cache!Values
  <2>1. \A k \in Inner : result[k][k] \in Cache!Unknown..MaxWrites
    BY DEF CacheInv, CacheTypes, Cache!TypeOK, Cache!Values, Cache!Keys
  <2>2. \A k \in Inner : fetch[e].value[k] \in Cache!Unknown..MaxWrites
    BY DEF CacheInv, CacheTypes, FetchRecords, Cache!Values
  <2> HIDE DEF answered
  <2> QED
    BY <2>1, <2>2 DEF Cache!Values
<1>8. from \in [Inner -> Cache!Fetches \union {Cache!NoFetch}]
  <2>1. \A k \in Inner : fetch[e].from[k] \in Cache!Fetches \union {Cache!NoFetch}
                         /\ pending[k] \in Cache!Fetches \union {Cache!NoFetch}
    BY DEF CacheInv, CacheTypes, Cache!TypeOK, FetchRecords, Cache!Keys
  <2> HIDE DEF missing, sharing, bulk
  <2> QED
    BY <2>1, <1>4
<1>9. \A i \in Cache!Fetches : shared(i) \in SUBSET Inner
    BY <1>3, CacheFacts DEF FetchRecords
<1>10. \A k \in Inner :
        /\ got[k] = IF k \in answered THEN result[k][k] ELSE fetch[e].value[k]
        /\ k \in missing => from[k] = bulk
        /\ k \in sharing => from[k] = pending[k]
        /\ k \notin missing /\ k \notin sharing => from[k] = fetch[e].from[k]
    OBVIOUS
<1>11. \A i \in Cache!Fetches : fetch[i].watched \subseteq shared(i)
                             /\ \A k \in sharing : pending[k] = i => k \in shared(i)
    OBVIOUS
<1> HIDE DEF missing, answered, sharing, got, from, new, shared, bulk
<1>12. e # bulk /\ e \in Cache!Fetches
    BY <1>1, <1>5
<1>13. /\ fetch'[e] \in FetchRecords /\ fetch'[e].keys = {Cache!Outer} /\ fetch'[e].state = "running"
       /\ fetch'[e].value = got /\ fetch'[e].from = from /\ fetch'[e].watched = fetch[e].watched
  <2>1. fetch'[e] = [fetch[e] EXCEPT !.value = got, !.from = from]
    BY <1>2, <1>12
  <2>2. fetch[e] \in FetchRecords
    BY CacheFacts
  <2> QED
    BY <2>1, <2>2, <1>1, <1>7, <1>8 DEF FetchRecords
<1>14. missing # {} => fetch'[bulk] = new
    BY <1>2, <1>4, <1>12
<1>15. ASSUME NEW i \in Cache!Fetches, i # e, ~(i = bulk /\ missing # {})
       PROVE  /\ fetch'[i] \in FetchRecords
              /\ fetch'[i].keys = fetch[i].keys /\ fetch'[i].state = fetch[i].state
              /\ fetch'[i].value = fetch[i].value /\ fetch'[i].from = fetch[i].from
              /\ fetch'[i].watched = shared(i)
  <2>1. fetch'[i] = [fetch[i] EXCEPT !.watched = shared(i)]
    BY <1>2, <1>15
  <2>2. fetch[i] \in FetchRecords /\ shared(i) \in SUBSET Inner
    BY <1>9, CacheFacts
  <2> QED
    BY <2>1, <2>2 DEF FetchRecords
<1>16. \A k \in Cache!Keys : pending'[k] = IF k \in missing THEN bulk ELSE pending[k]
    BY <1>1
<1>17. CacheTypes'
  <2>1. fetch' \in [Cache!Fetches -> FetchRecords]
    <3>1. \A i \in Cache!Fetches : fetch'[i] \in FetchRecords
        BY <1>6, <1>13, <1>14, <1>15 DEF EntryOf
    <3>2. \E F : fetch' = [i \in Cache!Fetches |-> F[i]]
      <4>1. fetch' = [i \in Cache!Fetches |-> fetch'[i]]
        BY <1>2
      <4> QED
        BY <4>1
    <3> QED
        BY <3>1, <3>2
  <2>2. \A j \in Cache!Fetches : fetch'[j].value \in Cache!Values /\ fetch'[j].keys \subseteq Cache!Keys
    BY <2>1 DEF FetchRecords
  <2>3. pending' \in [Cache!Keys -> Cache!Fetches \union {Cache!NoFetch}]
    BY <1>1, <1>4 DEF CacheInv, CacheTypes, Cache!TypeOK
  <2>4. fetches' \in 0..MaxFetches
    BY <1>1, <1>4 DEF CacheInv, CacheTypes, Cache!TypeOK, Cache!Fetches, CacheConstants
  <2>5. watched' \subseteq Inner
    BY <1>1, <1>3 DEF CacheInv, CacheTypes, Cache!TypeOK
  <2> QED
    BY <1>1, <2>1, <2>2, <2>3, <2>4, <2>5 DEF CacheInv, CacheTypes, Cache!TypeOK
\* What is in use stays as it is, but for more callbacks.
<1>18. ASSUME NEW i \in Cache!Fetches, fetch[i].keys # {}
       PROVE  /\ fetch'[i].keys = fetch[i].keys /\ fetch'[i].state = fetch[i].state
              /\ fetch[i].watched \subseteq fetch'[i].watched
              /\ i # e => /\ fetch'[i].value = fetch[i].value /\ fetch'[i].from = fetch[i].from
                          /\ \A k \in sharing : pending[k] = i => k \in fetch'[i].watched
  <2>1. i # bulk
    BY <1>5, <1>18
  <2>2. CASE i = e
    BY <2>2, <1>1, <1>13
  <2>3. CASE i # e
    BY <2>1, <2>3, <1>11, <1>15
  <2> QED
    BY <2>2, <2>3
<1>19. Shapes'
  <2>1. \A i \in Cache!Fetches : i <= fetches => i <= fetches'
    BY <1>1, <1>4, CacheFacts DEF bulk
  <2>2. missing # {} => bulk <= fetches'
    BY <1>1, <1>4 DEF bulk
  <2>3. ASSUME NEW i \in Cache!Fetches, fetch'[i].keys # {}
        PROVE  /\ i <= fetches'
               /\ \/ fetch'[i].keys = {Cache!Outer} /\ fetch'[i].state = "running"
                  \/ fetch'[i].keys \subseteq Inner /\ fetch'[i].state \in {"running", "read"}
    <3>1. CASE i = bulk /\ missing # {}
        BY <3>1, <2>2, <1>3, <1>6, <1>14 DEF EntryOf
    <3>2. CASE ~(i = bulk /\ missing # {})
      <4>1. fetch[i].keys # {}
        BY <2>3, <3>2, <1>1, <1>15
      <4> QED
        BY <4>1, <2>1, <1>18 DEF CacheInv, Shapes
    <3> QED
        BY <3>1, <3>2
  <2> QED
    BY <2>3 DEF Shapes
<1>20. \A k \in Cache!Keys : pending[k] # Cache!NoFetch =>
         /\ pending[k] \in Cache!Fetches /\ k \in fetch[pending[k]].keys /\ k \notin missing
         /\ k \in Inner => pending[k] # e
    BY <1>1, <1>3, CacheFacts DEF CacheInv, Entries, CacheConstants
<1>21. Entries'
  <2> SUFFICES ASSUME NEW k \in Cache!Keys, pending'[k] # Cache!NoFetch
               PROVE  k \in fetch'[pending'[k]].keys /\ k \notin cached
    BY <1>1 DEF Entries
  <2>1. CASE k \in missing
    BY <2>1, <1>3, <1>6, <1>14, <1>16 DEF EntryOf
  <2>2. CASE k \notin missing
    BY <2>2, <1>16, <1>18, <1>20 DEF CacheInv, Entries
  <2> QED
    BY <2>1, <2>2
<1>22. \A i \in Cache!Fetches : \A k \in Inner : fetch[i].from[k] # Cache!NoFetch =>
         /\ fetch[i].keys = {Cache!Outer}
         /\ fetch[i].from[k] \in Cache!Fetches /\ k \in fetch[fetch[i].from[k]].keys
         /\ fetch[i].from[k] # e
    BY <1>1, CacheFacts DEF CacheInv, Awaited, CacheConstants
<1>23. Awaited'
  <2> SUFFICES ASSUME NEW i \in Cache!Fetches, NEW k \in Inner, fetch'[i].from[k] # Cache!NoFetch
               PROVE  fetch'[i].keys = {Cache!Outer} /\ k \in fetch'[fetch'[i].from[k]].keys
    BY DEF Awaited
  <2>0. k \in Cache!Keys
    BY DEF Cache!Keys
  <2>1. CASE i = e
    <3>1. fetch'[i].keys = {Cache!Outer} /\ fetch'[i].from[k] = from[k]
        BY <2>1, <1>13
    <3>2. CASE k \in missing
        BY <3>1, <3>2, <1>6, <1>10, <1>14 DEF EntryOf
    <3>3. CASE k \in sharing
      <4>1. from[k] = pending[k] /\ pending[k] # Cache!NoFetch
        BY <3>3, <1>3, <1>10
      <4>2. pending[k] \in Cache!Fetches /\ k \in fetch[pending[k]].keys
        BY <4>1, <2>0, <1>20
      <4>3. k \in fetch'[pending[k]].keys
        BY <4>2, <1>18
      <4> QED
        BY <3>1, <4>1, <4>3
    <3>4. CASE k \notin missing /\ k \notin sharing
      <4>1. from[k] = fetch[e].from[k] /\ fetch[e].from[k] # Cache!NoFetch
        BY <3>1, <3>4, <1>10
      <4>2. k \in fetch'[fetch[e].from[k]].keys
        BY <4>1, <1>18, <1>22
      <4> QED
        BY <3>1, <4>1, <4>2
    <3> QED
        BY <3>2, <3>3, <3>4
  <2>2. CASE i # e
    <3>1. ~(i = bulk /\ missing # {})
        BY <1>6, <1>14 DEF EntryOf
    <3>2. fetch'[i].from = fetch[i].from /\ fetch'[i].keys = fetch[i].keys
        BY <2>2, <3>1, <1>15
    <3> QED
        BY <3>2, <1>18, <1>22
  <2> QED
    BY <2>1, <2>2
<1>24. Committed' /\ FreshOuter'
    BY <1>1 DEF CacheInv, Committed, FreshOuter
<1>25. Cache!Outer \notin missing /\ pending'[Cache!Outer] = pending[Cache!Outer]
    BY <1>3, <1>16, CacheFacts DEF CacheConstants
<1>26. UsesAreWatched'
  <2> SUFFICES ASSUME NEW k \in Inner, Uses(k)'
               PROVE  Watched(k)'
    BY DEF UsesAreWatched
  <2>0. k \in Cache!Keys
    BY DEF Cache!Keys
  <2>1. ASSUME Watched(k)
        PROVE  Watched(k)'
    <3>1. CASE Cache!WatchedNode(k)
        BY <3>1, <1>1 DEF Watched, Cache!WatchedNode
    <3>2. CASE Cache!WatchedEntry(k)
      <4>1. pending'[k] = pending[k] /\ fetch[pending[k]].watched \subseteq fetch'[pending[k]].watched
        BY <2>0, <3>2, <1>16, <1>18, <1>20 DEF Cache!WatchedEntry
      <4> QED
        BY <3>2, <4>1 DEF Watched, Cache!WatchedEntry
    <3> QED
        BY <2>1, <3>1, <3>2 DEF Watched
  <2>2. CASE Uses(k)
    BY <2>1, <2>2 DEF CacheInv, UsesAreWatched
  <2>3. CASE ~Uses(k)
    <3>1. pending[Cache!Outer] # Cache!NoFetch
        BY <2>3, <1>1, <1>25 DEF Uses
    <3>2. pending[Cache!Outer] = e
      <4>1. pending[Cache!Outer] \in Cache!Fetches /\ fetch[pending[Cache!Outer]].keys # {}
        BY <3>1, <1>20, CacheFacts
      <4> QED
        BY <2>3, <3>1, <4>1, <1>1, <1>18, <1>25 DEF Uses
    <3>3. got[k] # Cache!Unknown \/ from[k] # Cache!NoFetch
        BY <2>3, <3>2, <1>1, <1>13, <1>25 DEF Uses
    <3>4. fetch[e].value[k] = Cache!Unknown /\ fetch[e].from[k] = Cache!NoFetch
        BY <2>3, <3>1, <3>2 DEF Uses
    <3>5. k \in answered \/ k \in missing \/ k \in sharing
        BY <3>3, <3>4, <1>10
    <3>6. CASE k \in answered
        BY <3>6, <1>1, <1>3 DEF Watched, Cache!WatchedNode
    <3>7. CASE k \in missing
      <4>1. pending'[k] = bulk /\ bulk # Cache!NoFetch /\ k \in fetch'[bulk].watched
        BY <2>0, <3>7, <1>4, <1>6, <1>14, <1>16, CacheFacts DEF EntryOf
      <4> QED
        BY <4>1 DEF Watched, Cache!WatchedEntry
    <3>8. CASE k \in sharing
      <4>1. pending[k] # Cache!NoFetch
        BY <3>8, <1>3
      <4>2. pending'[k] = pending[k] /\ k \in fetch'[pending[k]].watched
        BY <2>0, <3>8, <4>1, <1>16, <1>18, <1>20
      <4> QED
        BY <4>1, <4>2 DEF Watched, Cache!WatchedEntry
    <3> QED
        BY <3>5, <3>6, <3>7, <3>8
  <2> QED
    BY <2>2, <2>3
<1>27. FreshInner'
  <2> SUFFICES ASSUME NEW k \in Inner, pending'[k] # Cache!NoFetch
               PROVE  NewEnough(fetch'[pending'[k]].value[k], told[k])
    BY <1>1 DEF CacheInv, FreshInner
  <2>0. k \in Cache!Keys
    BY DEF Cache!Keys
  <2>1. CASE k \in missing
    BY <2>0, <2>1, <1>6, <1>14, <1>16 DEF EntryOf, NewEnough
  <2>2. CASE k \notin missing
    BY <2>0, <2>2, <1>16, <1>18, <1>20 DEF CacheInv, FreshInner
  <2> QED
    BY <2>1, <2>2
<1>28. \A i \in Cache!Fetches : \A k \in Inner : fetch[i].from[k] # Cache!NoFetch =>
         fetch'[fetch[i].from[k]].value = fetch[fetch[i].from[k]].value
    BY <1>18, <1>22
<1>29. FreshPending'
  <2> SUFFICES ASSUME NEW k \in Inner, pending'[Cache!Outer] # Cache!NoFetch
               PROVE  FreshFetch(pending[Cache!Outer], k)'
    BY DEF FreshPending
  <2>0. k \in Cache!Keys
    BY DEF Cache!Keys
  <2>1. pending[Cache!Outer] \in Cache!Fetches /\ fetch[pending[Cache!Outer]].keys # {}
        /\ FreshFetch(pending[Cache!Outer], k)
    BY <1>20, <1>25, CacheFacts DEF CacheInv, FreshPending
  <2>2. CASE pending[Cache!Outer] # e
    <3>1. fetch'[pending[Cache!Outer]].value = fetch[pending[Cache!Outer]].value
          /\ fetch'[pending[Cache!Outer]].from = fetch[pending[Cache!Outer]].from
        BY <2>1, <2>2, <1>18
    <3> QED
        BY <2>1, <3>1, <1>1, <1>25, <1>28 DEF FreshFetch
  <2>3. CASE pending[Cache!Outer] = e
    <3>1. NewEnough(got[k], told[k])
        BY <2>1, <2>3, <1>3, <1>10 DEF FreshFetch, CacheInv, FreshInner
    <3>2. ASSUME from[k] # Cache!NoFetch
          PROVE  NewEnough(fetch'[from[k]].value[k], told[k])
      <4>1. CASE k \in missing
        BY <4>1, <1>6, <1>10, <1>14 DEF EntryOf, NewEnough
      <4>2. CASE k \in sharing
        <5>1. from[k] = pending[k] /\ pending[k] # Cache!NoFetch
            BY <4>2, <1>3, <1>10
        <5>2. fetch'[pending[k]].value = fetch[pending[k]].value
            BY <2>0, <5>1, <1>18, <1>20
        <5> QED
            BY <5>1, <5>2 DEF CacheInv, FreshInner
      <4>3. CASE k \notin missing /\ k \notin sharing
        <5>1. from[k] = fetch[e].from[k]
            BY <4>3, <1>10
        <5> QED
            BY <2>1, <2>3, <3>2, <5>1, <1>28 DEF FreshFetch
      <4> QED
        BY <4>1, <4>2, <4>3
    <3> QED
        BY <2>3, <3>1, <3>2, <1>1, <1>13, <1>25 DEF FreshFetch
  <2> QED
    BY <2>2, <2>3
<1> QED
    BY <1>17, <1>19, <1>21, <1>23, <1>24, <1>26, <1>27, <1>29 DEF CacheInv

\* DeferredCache: no lookup returns, or joins a fetch that will return, what an
\* invalidation has made stale, and nobody waits for a fetch that is over, for
\* any keys, writes and fetches, with evictions, failures, bulk lookups and the
\* callbacks of nested cached functions.
THEOREM NothingIsStale ==
    CacheConstants => (Cache!Spec => [](Cache!TypeOK /\ NothingStale /\ PendingIsRunning))
<1> SUFFICES ASSUME CacheConstants
             PROVE  Cache!Spec => [](Cache!TypeOK /\ NothingStale /\ PendingIsRunning)
    OBVIOUS
<1>1. Cache!Init => CacheInv
    BY CacheInitial
<1>2. CacheInv /\ [Cache!Next]_(Cache!vars) => CacheInv'
  <2> SUFFICES ASSUME CacheInv, [Cache!Next]_(Cache!vars)
               PROVE  CacheInv'
    OBVIOUS
  <2>1. ASSUME NEW k \in Inner, Cache!Write(k)
        PROVE  CacheInv'
    BY <2>1, CacheWrite
  <2>2. ASSUME NEW k \in Inner, NEW v \in 1..MaxWrites, Cache!Tell(k, v)
        PROVE  CacheInv'
    BY <2>2, CacheTell
  <2>3. ASSUME NEW k \in Cache!Keys, Cache!Evict(k)
        PROVE  CacheInv'
    BY <2>3, CacheEvict
  <2>4. ASSUME NEW k \in Cache!Keys, Cache!Get(k)
        PROVE  CacheInv'
    BY <2>4, CacheGet
  <2>5. CASE Cache!InvalidateAll
    BY <2>5, CacheInvalidateAll
  <2>6. ASSUME NEW i \in Cache!Fetches
        PROVE  /\ Cache!DbRead(i) => CacheInv'
               /\ Cache!Complete(i) => CacheInv'
               /\ Cache!CompleteOuter(i) => CacheInv'
               /\ Cache!Fail(i) => CacheInv'
               /\ \A ks \in SUBSET Inner \ {{}} : Cache!ReadInner(i, ks) => CacheInv'
    BY CacheDbRead, CacheComplete, CacheCompleteOuter, CacheFail, CacheReadInner
  <2>7. CASE UNCHANGED Cache!vars
    BY <2>7 DEF Cache!vars, CacheInv, CacheTypes, Cache!TypeOK, Shapes, Entries, Awaited, Committed,
                UsesAreWatched, Uses, Watched, Cache!WatchedNode, Cache!WatchedEntry, FreshInner,
                FreshOuter, FreshPending, FreshFetch
  <2> QED
    BY <2>1, <2>2, <2>3, <2>4, <2>5, <2>6, <2>7 DEF Cache!Next
<1>3. CacheInv => Cache!TypeOK /\ NothingStale /\ PendingIsRunning
  <2> SUFFICES ASSUME CacheInv
               PROVE  Cache!TypeOK /\ NothingStale /\ PendingIsRunning
    OBVIOUS
  <2>1. Cache!TypeOK
    BY DEF CacheInv, CacheTypes
  <2>2. NothingStale
    BY DEF CacheInv, FreshInner, FreshOuter, FreshPending, FreshFetch, NewEnough,
           NothingStale, Cache!NothingStale, Cache!Fresh
  <2>3. \A i \in Cache!Fetches : fetch[i].keys # {} => fetch[i].state \in {"running", "read"}
    BY DEF CacheInv, Shapes
  <2>4. PendingIsRunning
    BY <2>3, CacheFacts DEF CacheInv, Entries, Awaited, PendingIsRunning, Cache!PendingIsRunning
  <2> QED
    BY <2>1, <2>2, <2>4
<1> QED
    BY <1>1, <1>2, <1>3, PTL DEF Cache!Spec

\* Nobody waits for an entry whose fetch is over.
COROLLARY NobodyWaitsForNothing ==
    CacheConstants => (Cache!Spec => []PendingIsRunning)
BY NothingIsStale, PTL
=============================================================================
