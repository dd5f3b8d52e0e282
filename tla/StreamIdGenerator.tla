-------------------------- MODULE StreamIdGenerator --------------------------
(***************************************************************************)
(* Stream positions of a stream with a single writer: the class            *)
(* StreamIdGenerator (synapse/storage/util/id_generators.py) in the        *)
(* process that writes the stream, and with is_writer = False in the       *)
(* others, which learn of its position over replication.                   *)
(*                                                                         *)
(* Ids are taken by magnitude: a stream with step -1 is the mirror image   *)
(* of one with step +1.                                                    *)
(***************************************************************************)
EXTENDS Integers, FiniteSetsExt

CONSTANTS
    Readers,            \* processes with is_writer = False
    Txns,               \* slots for the write transactions in progress
    Tables,             \* the stream's table and its extra_tables
    MaxId,              \* bound on ids
    MaxBatch,           \* bound on the n of get_next_mult
    MaxRestarts,        \* bound on the restarts of the writer
    MaxReaderRestarts   \* bound on the restarts of readers

ASSUME BoundsAssumption ==
    /\ Tables # {}
    /\ "writer" \notin Readers      \* it stands for the writer in Abstract
    /\ MaxId \in Nat /\ MaxBatch \in Nat /\ MaxRestarts \in Nat /\ MaxReaderRestarts \in Nat

VARIABLES
    current,            \* _current of the writer
    unfinishedIds,      \* _unfinished_ids of the writer
    readerCurrent,      \* _current of the readers
    rows,               \* rows of the tables: <<table, id>>
    pc, ids,            \* write transactions
    sent,               \* positions the writer has announced
    restarts, readerRestarts

vars == <<current, unfinishedIds, readerCurrent, rows, pc, ids, sent, restarts, readerRestarts>>

MaxOf2(x, y) == IF x >= y THEN x ELSE y

RowIds == {row[2] : row \in rows}
Pending == UNION {ids[t] : t \in {u \in Txns : pc[u] = "open"}}

\* Seeded fault: unfinished ids are forgotten.
CurrentTokenAhead == current

\* get_current_token on the writer: just below the oldest unfinished id.
CurrentToken == IF unfinishedIds = {} THEN current ELSE Min(unfinishedIds) - 1

\* Seeded faults: an empty table gives 0; the extra tables are not looked at.
LoadCurrentZero == Max({0} \union RowIds)
LoadCurrentMain ==
    Max({1} \union {row[2] : row \in {q \in rows : q[1] = CHOOSE x \in Tables : TRUE}})

\* __init__: the greatest id found in any of the tables (_load_current_id).
LoadCurrent == Max({1} \union RowIds)

-----------------------------------------------------------------------------
\* get_next, get_next_mult and get_next_txn: one section under the lock.
GetNext(t, n) ==
    /\ pc[t] = "idle"
    /\ current + n <= MaxId                                     \* bound
    /\ current' = current + n
    /\ ids' = [ids EXCEPT ![t] = current + 1 .. current + n]
    /\ unfinishedIds' = unfinishedIds \union (current + 1 .. current + n)
    /\ pc' = [pc EXCEPT ![t] = "open"]
    /\ UNCHANGED <<readerCurrent, rows, sent, restarts, readerRestarts>>

\* The caller's database transaction; ids may be left unused.
Commit(t, new) ==
    /\ pc[t] = "open"
    /\ rows' = rows \union new
    /\ pc' = [pc EXCEPT ![t] = "done"]
    /\ UNCHANGED <<current, unfinishedIds, readerCurrent, ids, sent, restarts, readerRestarts>>

Rollback(t) ==
    /\ pc[t] = "open"
    /\ pc' = [pc EXCEPT ![t] = "done"]
    /\ UNCHANGED <<current, unfinishedIds, readerCurrent, rows, ids, sent, restarts,
                   readerRestarts>>

\* The finally clause of the context manager, or clear_unfinished_id.
Finish(t) ==
    /\ pc[t] = "done"
    /\ unfinishedIds' = unfinishedIds \ ids[t]
    /\ ids' = [ids EXCEPT ![t] = {}]
    /\ pc' = [pc EXCEPT ![t] = "idle"]
    /\ UNCHANGED <<current, readerCurrent, rows, sent, restarts, readerRestarts>>

-----------------------------------------------------------------------------
\* Seeded fault: any row in the table is announced.
AnnounceRow(v) ==
    /\ v = CurrentToken \/ v \in RowIds
    /\ v \notin sent
    /\ sent' = sent \union {v}
    /\ UNCHANGED <<current, unfinishedIds, readerCurrent, rows, pc, ids, restarts,
                   readerRestarts>>

\* Replication: the writer announces its token, or a row up to it.  Each
\* announcement reaches a reader any number of times, in any order, or never.
Announce(v) ==
    /\ v = CurrentToken \/ (v \in RowIds /\ v <= CurrentToken)
    /\ v \notin sent
    /\ sent' = sent \union {v}
    /\ UNCHANGED <<current, unfinishedIds, readerCurrent, rows, pc, ids, restarts,
                   readerRestarts>>

Advance(i, v) ==
    /\ v \in sent
    /\ readerCurrent' = [readerCurrent EXCEPT ![i] = MaxOf2(@, v)]
    /\ UNCHANGED <<current, unfinishedIds, rows, pc, ids, sent, restarts, readerRestarts>>

-----------------------------------------------------------------------------
\* The writer dies and starts again; what it had open is rolled back.
Restart ==
    /\ restarts < MaxRestarts
    /\ restarts' = restarts + 1
    /\ current' = LoadCurrent
    /\ unfinishedIds' = {}
    /\ pc' = [t \in Txns |-> "idle"]
    /\ ids' = [t \in Txns |-> {}]
    /\ UNCHANGED <<readerCurrent, rows, sent, readerRestarts>>

\* So does a reader.
RestartReader(i) ==
    /\ readerRestarts < MaxReaderRestarts
    /\ readerRestarts' = readerRestarts + 1
    /\ readerCurrent' = [readerCurrent EXCEPT ![i] = LoadCurrent]
    /\ UNCHANGED <<current, unfinishedIds, rows, pc, ids, sent, restarts>>

-----------------------------------------------------------------------------
Init ==
    /\ current = 1
    /\ unfinishedIds = {}
    /\ readerCurrent = [i \in Readers |-> 1]
    /\ rows = {}
    /\ pc = [t \in Txns |-> "idle"]
    /\ ids = [t \in Txns |-> {}]
    /\ sent = {}
    /\ restarts = 0
    /\ readerRestarts = 0

Next ==
    \/ \E t \in Txns : \E n \in 1 .. MaxBatch : GetNext(t, n)
    \/ \E t \in Txns : \E new \in SUBSET (Tables \X ids[t]) : Commit(t, new)
    \/ \E t \in Txns : Rollback(t)
    \/ \E t \in Txns : Finish(t)
    \/ \E v \in 1 .. current : Announce(v)
    \/ \E i \in Readers : \E v \in sent : Advance(i, v)
    \/ Restart
    \/ \E i \in Readers : RestartReader(i)

Spec == Init /\ [][Next]_vars

-----------------------------------------------------------------------------
\* The variables of the class, its transactions and the tables keep their
\* types; positions are never 0, even when the table is empty.
TypeOK ==
    /\ current \in Nat \ {0}
    /\ unfinishedIds \in SUBSET Nat
    /\ readerCurrent \in [Readers -> Nat \ {0}]
    /\ rows \in SUBSET (Tables \X Nat)
    /\ pc \in [Txns -> {"idle", "open", "done"}]
    /\ ids \in [Txns -> SUBSET Nat]
    /\ sent \in SUBSET Nat
    /\ restarts \in Nat
    /\ readerRestarts \in Nat

\* get_current_token on the writer never covers an id that a transaction may
\* still write, in whatever order transactions finish, and across restarts.
WriterTokenSound == \A id \in Pending : CurrentToken < id

\* An id is never handed out while a row of one of the tables has it: after a
\* restart too, the ids of the tables are behind the generator.
FreshIds == \A id \in Pending : id \notin RowIds

\* The class shares the promise of AbstractStreamIdGenerator; "writer" stands
\* for the writing process.
Abstract == INSTANCE StreamTokens WITH
    Instances <- Readers \union {"writer"},
    last <- current,
    pending <- Pending,
    written <- RowIds,
    token <- [i \in Readers \union {"writer"} |->
                 IF i \in Readers THEN readerCurrent[i] ELSE CurrentToken]

\* Up to the first restart, every step of the writer and its readers is one
\* that AbstractStreamIdGenerator allows.  A restart may go back behind ids that
\* were rolled back, or ahead of a transaction in progress.
ImplementsStreamTokens ==
    /\ Abstract!Init
    /\ [][restarts' + readerRestarts' = 0 => Abstract!Next]_(Abstract!vars)
=============================================================================
