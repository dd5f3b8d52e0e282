----------------------- MODULE MultiWriterIdGenerator -----------------------
(***************************************************************************)
(* Stream positions of a stream with several writers: the class            *)
(* MultiWriterIdGenerator and its context manager                          *)
(* (synapse/storage/util/id_generators.py), one copy per worker process,   *)
(* with the Postgres objects they share (the id sequence, the stream's     *)
(* table and the stream_positions table) and the calls of advance() that   *)
(* replication makes for the other workers.                                *)
(*                                                                         *)
(* Ids are the positive numbers the class keeps internally; a negative     *)
(* stream (Positive = FALSE) only differs in the order in which            *)
(* _load_current_ids visits the rows of the table.                         *)
(*                                                                         *)
(* A section under self._lock is one step.  The loop of                    *)
(* _add_persisted_position and the loops that call it for several ids are  *)
(* written in closed form; module StreamIdLoops compares the closed forms  *)
(* with the loops themselves.                                              *)
(***************************************************************************)
EXTENDS Integers, FiniteSetsExt

CONSTANTS
    Instances,      \* worker processes
    Writers,        \* the `writers` list given to every generator
    Txns,           \* slots for the write transactions in progress
    Home,           \* Home[t]: the writer on which transaction slot t runs
    FreshWriters,   \* writers with no row in stream_positions to begin with
    Positive,       \* the `positive` argument
    MaxId,          \* bound on the ids the sequence hands out
    MaxBatch,       \* bound on the n of get_next_mult
    MaxRestarts     \* bound on the number of restarts of processes

ASSUME ConstantsAssumption ==
    /\ Writers \subseteq Instances
    /\ Writers # {}
    /\ Home \in [Txns -> Writers]
    /\ FreshWriters \subseteq Writers
    /\ Positive \in BOOLEAN
    /\ MaxId \in Nat
    /\ MaxBatch \in Nat
    /\ MaxRestarts \in Nat

VARIABLES
    \* Postgres
    seq,                \* last value handed out by the sequence
    rows,               \* rows of the stream's table: <<instance_name, id>>
    streamPositions,    \* stream_positions; 0 where the writer has no row
    \* one MultiWriterIdGenerator per instance
    currentPositions,   \* _current_positions
    unfinishedIds,      \* _unfinished_ids
    finishedIds,        \* _finished_ids
    persistedUpto,      \* _persisted_upto_position
    knownPersisted,     \* _known_persisted_positions (a heap; order is free)
    maxSeen,            \* _max_seen_allocated_stream_id
    maxLocal,           \* _max_position_of_local_instance
    \* write transactions
    pc, need, ids, cmax, token,
    \* replication
    sent,               \* positions announced so far: <<writer, position>>
    restarts

dbVars  == <<seq, rows, streamPositions>>
genVars == <<currentPositions, unfinishedIds, finishedIds, persistedUpto,
             knownPersisted, maxSeen, maxLocal>>
txnVars == <<pc, need, ids, cmax, token>>
vars    == <<dbVars, genVars, txnVars, sent, restarts>>

MaxOf2(x, y) == IF x >= y THEN x ELSE y
MinOf2(x, y) == IF x <= y THEN x ELSE y

(***************************************************************************)
(* Where a transaction is.  "fetch": its in-flight marker is set and the   *)
(* sequence is being asked; "added": its ids are in _unfinished_ids, the   *)
(* marker is not yet removed; "open": the caller writes its rows;          *)
(* "committed" / "failed": the database has decided, _mark_ids_as_finished *)
(* has not run; "save", "upsert": updating stream_positions.               *)
(***************************************************************************)
Phases == {"idle", "fetch", "added", "open", "committed", "failed", "save", "upsert"}

\* Ids a transaction owns and may yet write to the table.
Pending(t) == IF pc[t] \in {"fetch", "added", "open"} THEN ids[t] ELSE {}
PendingOf(w) == UNION {Pending(t) : t \in {u \in Txns : Home[u] = w}}
AllPending == UNION {Pending(t) : t \in Txns}

\* Seeded fault: requests for ids leave no marker.
NoInFlight(i) == {}

\* _in_flight_fetches of instance i.
InFlight(i) == {cmax[t] : t \in {u \in Txns : Home[u] = i /\ pc[u] \in {"fetch", "added"}}}

-----------------------------------------------------------------------------
(***************************************************************************)
(* _add_persisted_position                                                 *)
(***************************************************************************)

\* Seeded fault: gaps are skipped as well.
SkipGaps(upto, known) == Max({upto} \union known)

\* The while loop: pop the heap of known positions as long as its head is at
\* most one above the position, which moves up over a gapless run.
SkipForward(upto, known) ==
    LET run == {m \in known : m > upto /\ \A k \in upto + 1 .. m : k \in known}
    IN  IF run = {} THEN upto ELSE Max(run)

\* Our own entry of the position map, 0 when there is none.
OurPosition(i, positions) == IF i \in DOMAIN positions THEN positions[i] ELSE 0

\* Seeded fault: what we have in progress ourselves is ignored.
MinCurrOthers(i, positions, busy) ==
    LET others == {positions[w] : w \in DOMAIN positions \ {i}}
    IN  IF others = {} THEN OurPosition(i, positions) ELSE Min(others)

\* min_curr: the lowest position of the other instances, and of ourselves
\* when something of ours is in progress.
MinCurr(i, positions, busy) ==
    LET our    == OurPosition(i, positions)
        others == {positions[w] : w \in DOMAIN positions \ {i}}
        low    == IF others = {} THEN our ELSE Min(others)
    IN  IF our # 0 /\ busy THEN MinOf2(low, our) ELSE low

\* A run of calls _add_persisted_position(id) for the ids of new, in
\* increasing order, with the position map fixed.  In each call
\* _max_position_of_local_instance sees the position as it was before that
\* call's loop.
AddPersistedUpto(i, positions, busy, upto, known, new) ==
    SkipForward(MaxOf2(MinCurr(i, positions, busy), upto), known \union new)

AddPersistedKnown(i, positions, busy, upto, known, new) ==
    {k \in known \union new : k > AddPersistedUpto(i, positions, busy, upto, known, new)}

\* Seeded fault: a writer's position is moved by its own writes only.
AddPersistedLocalOwn(i, positions, busy, upto, known, new, seen, local) == local

AddPersistedLocal(i, positions, busy, upto, known, new, seen, local) ==
    LET base   == MaxOf2(MinCurr(i, positions, busy), upto)
        before == new \ {Max(new)}
        last   == IF before = {} THEN base ELSE SkipForward(base, known \union before)
        bumped == MaxOf2(local, last)
    IN  IF busy THEN bumped ELSE MaxOf2(seen, bumped)

-----------------------------------------------------------------------------
(***************************************************************************)
(* Allocating ids: _load_next_mult_id_txn, called by get_next,             *)
(* get_next_mult (through _MultiWriterCtxManager.__aenter__), get_next_txn *)
(* and get_next_mult_txn.                                                  *)
(***************************************************************************)

\* Under the lock: remember the highest id known to be allocated.
StartFetch(t, n) ==
    /\ pc[t] = "idle"
    /\ seq + n + MapThenSumSet(LAMBDA u : need[u], Txns) <= MaxId   \* bound
    /\ pc'   = [pc EXCEPT ![t] = "fetch"]
    /\ need' = [need EXCEPT ![t] = n]
    /\ cmax' = [cmax EXCEPT ![t] = maxSeen[Home[t]]]
    /\ UNCHANGED <<dbVars, genVars, ids, token, sent, restarts>>

\* Seeded fault: more ids are fetched than were asked for.
NextValUnchecked(t) ==
    /\ pc[t] = "fetch"
    /\ seq'  = seq + 1
    /\ need' = [need EXCEPT ![t] = @ - 1]
    /\ ids'  = [ids EXCEPT ![t] = @ \union {seq + 1}]
    /\ UNCHANGED <<rows, streamPositions, genVars, pc, cmax, token, sent, restarts>>

\* One nextval() of the statement that asks for n of them; those of other
\* sessions may fall in between.
NextVal(t) ==
    /\ pc[t] = "fetch"
    /\ need[t] > 0
    /\ seq'  = seq + 1
    /\ need' = [need EXCEPT ![t] = @ - 1]
    /\ ids'  = [ids EXCEPT ![t] = @ \union {seq + 1}]
    /\ UNCHANGED <<rows, streamPositions, genVars, pc, cmax, token, sent, restarts>>

\* The database fails while it is asked: the finally clause drops the marker.
FetchFails(t) ==
    /\ pc[t] = "fetch"
    /\ pc'   = [pc EXCEPT ![t] = "idle"]
    /\ need' = [need EXCEPT ![t] = 0]
    /\ ids'  = [ids EXCEPT ![t] = {}]
    /\ cmax' = [cmax EXCEPT ![t] = 0]
    /\ UNCHANGED <<dbVars, genVars, token, sent, restarts>>

\* Under the lock: the ids become unfinished.
AddUnfinished(t) ==
    LET i   == Home[t]
        new == unfinishedIds[i] \union ids[t]
    IN  /\ pc[t] = "fetch"
        /\ need[t] = 0
        /\ pc' = [pc EXCEPT ![t] = "added"]
        /\ unfinishedIds' = [unfinishedIds EXCEPT ![i] = new]
        /\ maxSeen' = [maxSeen EXCEPT ![i] = MaxOf2(@, Max(new))]
        /\ UNCHANGED <<dbVars, currentPositions, finishedIds, persistedUpto, knownPersisted,
                       maxLocal, need, ids, cmax, token, sent, restarts>>

\* Under the lock, again: the finally clause removes the in-flight marker.
DropInFlight(t) ==
    /\ pc[t] = "added"
    /\ pc' = [pc EXCEPT ![t] = "open"]
    /\ cmax' = [cmax EXCEPT ![t] = 0]
    /\ UNCHANGED <<dbVars, genVars, need, ids, token, sent, restarts>>

-----------------------------------------------------------------------------
(***************************************************************************)
(* The caller's database transaction.  Ids may be left unused.             *)
(***************************************************************************)
Commit(t, used) ==
    /\ pc[t] = "open"
    /\ used \subseteq ids[t]
    /\ pc'   = [pc EXCEPT ![t] = "committed"]
    /\ rows' = rows \union {<<Home[t], id>> : id \in used}
    /\ UNCHANGED <<seq, streamPositions, genVars, need, ids, cmax, token, sent, restarts>>

Rollback(t) ==
    /\ pc[t] = "open"
    /\ pc' = [pc EXCEPT ![t] = "failed"]
    /\ UNCHANGED <<dbVars, genVars, need, ids, cmax, token, sent, restarts>>

-----------------------------------------------------------------------------
(***************************************************************************)
(* _mark_ids_as_finished                                                   *)
(***************************************************************************)

\* Seeded fault: ids that are being written are not taken into account.
UnsafeFromFetches(i, unfinished) == {c + 1 : c \in InFlight(i)}

\* Nothing at or above these numbers is safe to move the position to.
UnsafeFrom(i, unfinished) == unfinished \union {c + 1 : c \in InFlight(i)}

\* The finished ids strictly below the lowest unsafe one.
SafeFinished(i, unfinished, finished) ==
    {s \in finished : \A u \in UnsafeFrom(i, unfinished) : s < u}

MarkFinished(t) ==
    LET i     == Home[t]
        unf   == unfinishedIds[i] \ ids[t]
        fin   == finishedIds[i] \union ids[t]
        safe  == SafeFinished(i, unf, fin)
        busy  == unf # {} \/ InFlight(i) # {}
        curr  == currentPositions[i][i]
        pos   == IF safe = {} THEN curr ELSE MaxOf2(curr, Max(safe))
        local == IF safe = {} THEN maxLocal[i] ELSE MaxOf2(maxLocal[i], pos)
        map   == [currentPositions[i] EXCEPT ![i] = pos]
    IN  /\ pc[t] \in {"committed", "failed"}
        \* stream_positions is only updated on the success path
        /\ pc' = [pc EXCEPT ![t] = IF @ = "committed" THEN "save" ELSE "idle"]
        /\ ids' = [ids EXCEPT ![t] = {}]
        /\ unfinishedIds' = [unfinishedIds EXCEPT ![i] = unf]
        /\ finishedIds' = [finishedIds EXCEPT ![i] = fin \ safe]
        /\ currentPositions' = [currentPositions EXCEPT ![i] = map]
        /\ persistedUpto' = [persistedUpto EXCEPT
               ![i] = AddPersistedUpto(i, map, busy, @, knownPersisted[i], ids[t])]
        /\ knownPersisted' = [knownPersisted EXCEPT
               ![i] = AddPersistedKnown(i, map, busy, persistedUpto[i], @, ids[t])]
        /\ maxLocal' = [maxLocal EXCEPT
               ![i] = AddPersistedLocal(i, map, busy, persistedUpto[i], knownPersisted[i],
                                        ids[t], maxSeen[i], local)]
        /\ UNCHANGED <<dbVars, maxSeen, need, cmax, token, sent, restarts>>

-----------------------------------------------------------------------------
(***************************************************************************)
(* _update_stream_positions_table_txn: read the local token, then upsert   *)
(* it, keeping the greatest.  It runs in the background and may fail.      *)
(***************************************************************************)
ReadToken(t) ==
    /\ pc[t] = "save"
    /\ pc'    = [pc EXCEPT ![t] = "upsert"]
    /\ token' = [token EXCEPT ![t] = maxLocal[Home[t]]]
    /\ UNCHANGED <<dbVars, genVars, need, ids, cmax, sent, restarts>>

\* Seeded fault: the row is overwritten.
UpsertedLast(old, new) == new

\* The value the upsert leaves in the row.
Upserted(old, new) == MaxOf2(old, new)

Upsert(t) ==
    /\ pc[t] = "upsert"
    /\ pc' = [pc EXCEPT ![t] = "idle"]
    /\ streamPositions' = [streamPositions EXCEPT ![Home[t]] = Upserted(@, token[t])]
    /\ token' = [token EXCEPT ![t] = 0]
    /\ UNCHANGED <<seq, rows, genVars, need, ids, cmax, sent, restarts>>

UpsertFails(t) ==
    /\ pc[t] = "upsert"
    /\ pc' = [pc EXCEPT ![t] = "idle"]
    /\ token' = [token EXCEPT ![t] = 0]
    /\ UNCHANGED <<dbVars, genVars, need, ids, cmax, sent, restarts>>

-----------------------------------------------------------------------------
(***************************************************************************)
(* Replication.  A writer announces its own token (POSITION) or the id of  *)
(* a row of its own up to that token (RDATA); each announcement reaches    *)
(* each other instance any number of times, in any order, or never.        *)
(***************************************************************************)
Announce(w, v) ==
    /\ \/ v = maxLocal[w]
       \/ <<w, v>> \in rows /\ v <= maxLocal[w]
    /\ <<w, v>> \notin sent
    /\ sent' = sent \union {<<w, v>>}
    /\ UNCHANGED <<dbVars, genVars, txnVars, restarts>>

Advance(i, w, v) ==
    LET map  == [currentPositions[i] EXCEPT ![w] = MaxOf2(v, @)]
        seen == MaxOf2(maxSeen[i], v)
        busy == unfinishedIds[i] # {} \/ InFlight(i) # {}
    IN  /\ i # w
        /\ <<w, v>> \in sent
        /\ currentPositions' = [currentPositions EXCEPT ![i] = map]
        /\ maxSeen' = [maxSeen EXCEPT ![i] = seen]
        /\ persistedUpto' = [persistedUpto EXCEPT
               ![i] = AddPersistedUpto(i, map, busy, @, knownPersisted[i], {v})]
        /\ knownPersisted' = [knownPersisted EXCEPT
               ![i] = AddPersistedKnown(i, map, busy, persistedUpto[i], @, {v})]
        /\ maxLocal' = [maxLocal EXCEPT
               ![i] = AddPersistedLocal(i, map, busy, persistedUpto[i], knownPersisted[i],
                                        {v}, seen, @)]
        /\ UNCHANGED <<dbVars, unfinishedIds, finishedIds, txnVars, sent, restarts>>

-----------------------------------------------------------------------------
(***************************************************************************)
(* __init__ and _load_current_ids                                          *)
(***************************************************************************)

\* The rows of stream_positions.
Saved == [w \in {x \in Writers : streamPositions[x] > 0} |-> streamPositions[w]]

RowIds == {r[2] : r \in rows}
LowestSaved == Min({Saved[w] : w \in DOMAIN Saved})

\* The rows that are read back, and the one that is visited last: rows are
\* sorted by the id as the table holds it, negated on a negative stream.
LoadedRows == {r \in rows : r[2] >= LowestSaved}
LoadedIds == {r[2] : r \in LoadedRows}
LastVisited(S) == IF Positive THEN Max(S) ELSE Min(S)
OwnLoaded(i) == {r[2] : r \in {q \in LoadedRows : q[1] = i}}

\* Seeded fault: rows of our own that were not saved are forgotten.
LoadedOwnSaved(i) == OurPosition(i, Saved)

\* Our own entry after the loop over the rows.
LoadedOwnPosition(i) ==
    IF OwnLoaded(i) = {} THEN OurPosition(i, Saved) ELSE LastVisited(OwnLoaded(i))

\* _persisted_upto_position after the loop: every visited row has called
\* _add_persisted_position, with our own entry set to the own rows visited
\* before it.
LoadedUpto(i) ==
    LET others == {Saved[w] : w \in DOMAIN Saved \ {i}}
        before == OwnLoaded(i) \ {LastVisited(LoadedIds)}
        base   == IF others # {} THEN Min(others) ELSE Max({LowestSaved} \union before)
    IN  CASE DOMAIN Saved = {} -> Max({1} \union RowIds)
          [] DOMAIN Saved # {} /\ LoadedRows = {} -> LowestSaved
          [] OTHER -> SkipForward(base, LoadedIds)

LoadedKnown(i) ==
    IF DOMAIN Saved = {} THEN {} ELSE {k \in LoadedIds : k > LoadedUpto(i)}

\* The position map, after setdefault() for the writers without an entry.
LoadedPositions(i) ==
    [w \in Writers |->
        CASE w = i /\ DOMAIN Saved # {} /\ LoadedOwnPosition(i) > 0 -> LoadedOwnPosition(i)
          [] w # i /\ w \in DOMAIN Saved -> Saved[w]
          [] OTHER -> LoadedUpto(i)]

LoadedMaxSeen(i) == Max({LoadedPositions(i)[w] : w \in Writers} \union {LoadedUpto(i)})

\* Process i dies, the database rolls back what it had open, and a new
\* process with its name starts.
Restart(i) ==
    /\ restarts < MaxRestarts
    /\ restarts' = restarts + 1
    /\ pc'   = [t \in Txns |-> IF Home[t] = i THEN "idle" ELSE pc[t]]
    /\ ids'  = [t \in Txns |-> IF Home[t] = i THEN {} ELSE ids[t]]
    /\ need' = [t \in Txns |-> IF Home[t] = i THEN 0 ELSE need[t]]
    /\ cmax' = [t \in Txns |-> IF Home[t] = i THEN 0 ELSE cmax[t]]
    /\ token' = [t \in Txns |-> IF Home[t] = i THEN 0 ELSE token[t]]
    /\ currentPositions' = [currentPositions EXCEPT ![i] = LoadedPositions(i)]
    /\ unfinishedIds' = [unfinishedIds EXCEPT ![i] = {}]
    /\ finishedIds'   = [finishedIds EXCEPT ![i] = {}]
    /\ persistedUpto' = [persistedUpto EXCEPT ![i] = LoadedUpto(i)]
    /\ knownPersisted' = [knownPersisted EXCEPT ![i] = LoadedKnown(i)]
    /\ maxSeen'  = [maxSeen EXCEPT ![i] = LoadedMaxSeen(i)]
    /\ maxLocal' = [maxLocal EXCEPT ![i] = LoadedMaxSeen(i)]
    /\ UNCHANGED <<dbVars, sent>>

-----------------------------------------------------------------------------
\* An empty stream, all processes just started: the first id will be 2.
Init ==
    /\ seq = 1
    /\ rows = {}
    /\ streamPositions = [w \in Writers |-> IF w \in FreshWriters THEN 0 ELSE 1]
    /\ currentPositions = [i \in Instances |-> [w \in Writers |-> 1]]
    /\ unfinishedIds = [i \in Instances |-> {}]
    /\ finishedIds = [i \in Instances |-> {}]
    /\ persistedUpto = [i \in Instances |-> 1]
    /\ knownPersisted = [i \in Instances |-> {}]
    /\ maxSeen = [i \in Instances |-> 1]
    /\ maxLocal = [i \in Instances |-> 1]
    /\ pc = [t \in Txns |-> "idle"]
    /\ need = [t \in Txns |-> 0]
    /\ ids = [t \in Txns |-> {}]
    /\ cmax = [t \in Txns |-> 0]
    /\ token = [t \in Txns |-> 0]
    /\ sent = {<<w, 1>> : w \in Writers}
    /\ restarts = 0

\* What a transaction does once it has started and the database works.
TxnStep(t) ==
    \/ NextVal(t)
    \/ AddUnfinished(t)
    \/ DropInFlight(t)
    \/ \E used \in SUBSET ids[t] : Commit(t, used)
    \/ Rollback(t)
    \/ MarkFinished(t)
    \/ ReadToken(t)
    \/ Upsert(t)

HealthyNext ==
    \/ \E t \in Txns : \E n \in 1 .. MaxBatch : StartFetch(t, n)
    \/ \E t \in Txns : TxnStep(t)
    \/ \E w \in Writers : \E v \in 1 .. seq : Announce(w, v)
    \/ \E i \in Instances : \E m \in sent : Advance(i, m[1], m[2])
    \/ \E i \in Instances : Restart(i)

Next ==
    \/ HealthyNext
    \/ \E t \in Txns : FetchFails(t)
    \/ \E t \in Txns : UpsertFails(t)

Spec == Init /\ [][Next]_vars

(***************************************************************************)
(* Fairness: database calls return and their callbacks run; the streamer   *)
(* is poked after every write and once a second, so a writer announces its *)
(* token; every instance eventually handles the highest announcement of    *)
(* each writer that it does not yet know of.                               *)
(***************************************************************************)
HandleNews(i, w) ==
    \E m \in sent : /\ m[1] = w
                    /\ m[2] > currentPositions[i][w]
                    /\ \A o \in sent : o[1] = w => o[2] <= m[2]
                    /\ Advance(i, w, m[2])

Fairness ==
    /\ \A t \in Txns : WF_vars(TxnStep(t))
    /\ \A w \in Writers : WF_vars(Announce(w, maxLocal[w]))
    /\ \A i \in Instances : \A w \in Writers : WF_vars(HandleNews(i, w))

HealthySpec == Init /\ [][HealthyNext]_vars /\ Fairness

-----------------------------------------------------------------------------
(***************************************************************************)
(* Properties                                                              *)
(***************************************************************************)

\* The fields of every generator, the transactions and the tables keep their
\* types: in particular no statement fetches more ids than it was asked for.
TypeOK ==
    /\ seq \in Nat
    /\ rows \in SUBSET (Writers \X Nat)
    /\ streamPositions \in [Writers -> Nat]
    /\ currentPositions \in [Instances -> [Writers -> Nat]]
    /\ unfinishedIds \in [Instances -> SUBSET Nat]
    /\ finishedIds \in [Instances -> SUBSET Nat]
    /\ persistedUpto \in [Instances -> Nat]
    /\ knownPersisted \in [Instances -> SUBSET Nat]
    /\ maxSeen \in [Instances -> Nat]
    /\ maxLocal \in [Instances -> Nat]
    /\ pc \in [Txns -> Phases]
    /\ need \in [Txns -> Nat]
    /\ ids \in [Txns -> SUBSET Nat]
    /\ cmax \in [Txns -> Nat]
    /\ token \in [Txns -> Nat]
    /\ sent \in SUBSET (Writers \X Nat)
    /\ restarts \in Nat

\* get_current_token: on every instance, whatever the other writers are doing,
\* no transaction that holds an id at or below _persisted_upto_position is
\* still going to write it.
PersistedUptoSound ==
    \A i \in Instances : \A id \in AllPending : persistedUpto[i] < id

\* get_current_token_for_writer on the writer itself, the value it announces
\* to the others and saves in stream_positions: it never covers an id the
\* writer still has in progress, even while ids are being fetched.
LocalTokenSound ==
    \A w \in Writers : \A id \in PendingOf(w) :
        maxLocal[w] < id /\ streamPositions[w] < id

\* A reader that has read the stream's table up to the current token of its
\* process never misses a row: rows only ever appear above that token.
NoLateRows ==
    [][\A r \in rows' \ rows : \A i \in Instances : persistedUpto[i] < r[2]]_vars

\* Tokens go back only when their process restarts, and the saved position
\* of a writer never does, in spite of upserts that carry an old token.
TokensNeverGoBack ==
    [][/\ restarts' = restarts => \A i \in Instances :
              /\ persistedUpto'[i] >= persistedUpto[i]
              /\ maxLocal'[i] >= maxLocal[i]
       /\ \A w \in Writers : streamPositions'[w] >= streamPositions[w]]_vars

\* _load_current_ids: "we don't want to overwrite the current_position of an
\* instance to a lower stream ID than we're actually at" (id_generators.py:553).
\* A restarted writer knows of every row it wrote before.
OwnRowsKept ==
    [][\A i \in Writers : Restart(i) =>
           \A r \in rows : r[1] = i => r[2] <= currentPositions'[i][i]]_vars

\* The class keeps the promise of AbstractStreamIdGenerator, with
\* _persisted_upto_position as the current token of each process.
Abstract == INSTANCE StreamTokens WITH
    last <- seq, pending <- AllPending, written <- RowIds, token <- persistedUpto

\* Every step of the writers, the readers and replication, and every restart,
\* is one that AbstractStreamIdGenerator allows.
ImplementsStreamTokens == Abstract!Spec

\* Once writes stop, every committed row is below the current token of every
\* instance: positions of idle writers are carried forward by the
\* announcements of the busy ones.
RowsBecomeVisible ==
    <>[](\A t \in Txns : pc[t] = "idle") =>
        <>[](\A i \in Instances : \A r \in rows : r[2] <= persistedUpto[i])

=============================================================================
