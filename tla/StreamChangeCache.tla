-------------------------- MODULE StreamChangeCache --------------------------
(***************************************************************************)
(* The cache of the latest changes of a stream's entities                  *)
(* (synapse/util/caches/stream_change_cache.py), which answers whether an  *)
(* entity has changed since a position without a look at the database.     *)
(*                                                                         *)
(* Changes are reported in any order: several writers, and replication,    *)
(* report to one cache.                                                    *)
(***************************************************************************)
EXTENDS Integers, FiniteSetsExt

CONSTANTS
    Entities,
    MaxPos,             \* bound on positions
    MaxSize             \* _max_size, in positions

Positions == 1..MaxPos
NoPos == 0

VARIABLES
    cache,              \* _cache: the entities whose latest change is at a position
    entityToKey,        \* _entity_to_key: that position, if it is cached
    earliest,           \* _earliest_known_stream_pos
    reported            \* history: the changes that were reported

changeVars == <<cache, entityToKey, earliest, reported>>

KeysOf(c) == {p \in Positions : c[p] # {}}

\* Seeded fault: popitem() takes the last position.
VictimNewest(c) == Max(KeysOf(c))

\* _evict: popitem(0)
Victim(c) == Min(KeysOf(c))

\* The new state, with c and k for the two dictionaries: one position too many
\* at most.
StoreEvicted(c, k) ==
    IF Cardinality(KeysOf(c)) > MaxSize
    THEN /\ cache' = [c EXCEPT ![Victim(c)] = {}]
         /\ entityToKey' = [e \in Entities |-> IF e \in c[Victim(c)] THEN NoPos ELSE k[e]]
         /\ earliest' = IF Victim(c) > earliest THEN Victim(c) ELSE earliest
    ELSE cache' = c /\ entityToKey' = k /\ UNCHANGED earliest

\* Seeded fault: the entity stays at its old position too.
CacheWithBoth(entity, pos) == [cache EXCEPT ![pos] = @ \union {entity}]

\* _cache with an entity moved to its new position
CacheWith(entity, pos) ==
    [p \in Positions |-> IF p = pos THEN cache[p] \union {entity} ELSE cache[p] \ {entity}]

\* entity_has_changed
EntityHasChanged(entity, pos) ==
    /\ reported' = reported \union {<<entity, pos>>}
    /\ IF pos <= earliest \/ entityToKey[entity] >= pos
       THEN UNCHANGED <<cache, entityToKey, earliest>>
       ELSE StoreEvicted(CacheWith(entity, pos), [entityToKey EXCEPT ![entity] = pos])

ChangesInit ==
    /\ cache = [p \in Positions |-> {}]
    /\ entityToKey = [e \in Entities |-> NoPos]
    /\ earliest \in Positions \union {NoPos}
    /\ reported = {}

ChangesNext == \E entity \in Entities, pos \in Positions : EntityHasChanged(entity, pos)

ChangesSpec == ChangesInit /\ [][ChangesNext]_changeVars

-----------------------------------------------------------------------------
(* What the cache answers. *)

HasEntityChanged(entity, pos) ==
    pos <= earliest \/ (entityToKey[entity] # NoPos /\ pos < entityToKey[entity])

HasAnyEntityChanged(pos) ==
    pos <= earliest \/ (KeysOf(cache) # {} /\ pos < Max(KeysOf(cache)))

\* get_all_entities_changed, if it is a hit
AllEntitiesChanged(pos) == UNION {cache[p] : p \in {k \in Positions : k > pos}}

\* get_entities_changed
EntitiesChanged(entities, pos) ==
    IF pos > earliest THEN entities \intersect AllEntitiesChanged(pos) ELSE entities

GetMaxPosOfLastChange(entity) ==
    IF entityToKey[entity] # NoPos THEN entityToKey[entity] ELSE earliest

-----------------------------------------------------------------------------
ChangesTypeOK ==
    /\ cache \in [Positions -> SUBSET Entities]
    /\ entityToKey \in [Entities -> Positions \union {NoPos}]
    /\ earliest \in Positions \union {NoPos}
    /\ reported \subseteq Entities \X Positions

SizeBounded == Cardinality(KeysOf(cache)) <= MaxSize

\* Whatever order changes are reported in and whatever is evicted, every
\* question about a position is answered so that no change after it is missed.
NoChangeMissed ==
    \A entity \in Entities, pos \in Positions : \A later \in Positions :
        <<entity, later>> \in reported /\ later > pos =>
            /\ HasEntityChanged(entity, pos)
            /\ HasAnyEntityChanged(pos)
            /\ entity \in EntitiesChanged(Entities, pos)
            /\ GetMaxPosOfLastChange(entity) >= later

\* Beyond the earliest known position the answers are exact: the two
\* dictionaries agree, and nothing is said to have changed that has not.
AnswersExact ==
    \A entity \in Entities, pos \in Positions :
        pos > earliest =>
            /\ HasEntityChanged(entity, pos) <=> entity \in AllEntitiesChanged(pos)
            /\ HasEntityChanged(entity, pos) =>
                 \E later \in Positions : later > pos /\ <<entity, later>> \in reported
=============================================================================
