---------------------------- MODULE StreamIdLoops ----------------------------
(***************************************************************************)
(* The loops of MultiWriterIdGenerator, one iteration at a time            *)
(* (synapse/storage/util/id_generators.py): _add_persisted_position called *)
(* for a list of ids by _mark_ids_as_finished and advance, and for the     *)
(* rows of the table by _load_current_ids.  Module MultiWriterIdGenerator  *)
(* has closed forms for their results; this module runs the loops on every *)
(* small input and compares.                                               *)
(***************************************************************************)
EXTENDS Integers, Sequences, FiniteSetsExt

CONSTANTS Writers,      \* the writers of the stream
          Reader,       \* an instance that is not a writer
          MaxId         \* bound on ids

VARIABLES
    phase,      \* "add", "load", "init", "done"
    in,         \* the input, for the comparison
    todo,       \* rows <<instance, id>> still to visit
    positions, upto, heap, seen, local,
    inLoop      \* inside the while loop

vars == <<phase, in, todo, positions, upto, heap, seen, local, inLoop>>

\* The generator with the `positive` argument.
Gen(positive) == INSTANCE MultiWriterIdGenerator WITH Positive <- positive,
    Instances <- Writers \union {Reader}, Txns <- {}, Home <- <<>>, FreshWriters <- {},
    MaxBatch <- 1, MaxRestarts <- 0,
    seq <- MaxId, rows <- in.rows, streamPositions <- in.saved,
    currentPositions <- positions, unfinishedIds <- <<>>, finishedIds <- <<>>,
    persistedUpto <- upto, knownPersisted <- heap, maxSeen <- seen, maxLocal <- local,
    pc <- <<>>, need <- <<>>, ids <- <<>>, cmax <- <<>>, token <- <<>>, sent <- {},
    restarts <- 0

MaxOf2(x, y) == IF x >= y THEN x ELSE y

\* Seeded fault: rows are visited the other way round.
SortedRowsBackwards(S, positive) ==
    LET key(row) == IF positive THEN 0 - row[2] ELSE row[2]
    IN  CHOOSE s \in [1 .. Cardinality(S) -> S] :
            \A j, k \in DOMAIN s : j < k => key(s[j]) < key(s[k])

\* The rows of S in the order of rows.sort(): by the id as the table has it.
SortedRows(S, positive) ==
    LET key(row) == IF positive THEN row[2] ELSE 0 - row[2]
    IN  CHOOSE s \in [1 .. Cardinality(S) -> S] :
            \A j, k \in DOMAIN s : j < k => key(s[j]) < key(s[k])

\* Rows of two writers with different ids.
Tables == {S \in SUBSET (Writers \X (2 .. MaxId)) : \A p, q \in S : p # q => p[2] # q[2]}

-----------------------------------------------------------------------------
\* A call of _mark_ids_as_finished or advance that has come to its calls of
\* _add_persisted_position, for ids in increasing order.
AddInput ==
    \E self \in Writers \union {Reader}, busy \in BOOLEAN, u \in 1 .. MaxId :
    \E known \in SUBSET (u + 2 .. MaxId), new \in (SUBSET (1 .. MaxId)) \ {{}} :
        /\ self = Reader => ~busy
        /\ phase = "add"
        /\ positions \in [Writers -> 1 .. MaxId]
        /\ upto = u
        /\ heap = known
        /\ seen = MaxId
        /\ local \in 1 .. MaxId
        /\ inLoop = FALSE
        /\ in = [self |-> self, busy |-> busy, rows |-> {<<self, id>> : id \in new},
                 saved |-> positions, upto |-> u, known |-> known, local |-> local,
                 positive |-> TRUE]
        /\ todo = CHOOSE s \in [1 .. Cardinality(new) -> in.rows] :
                      \A j, k \in DOMAIN s : j < k => s[j][2] < s[k][2]

\* __init__ with a given content of the two tables.
LoadInput ==
    \E self \in Writers \union {Reader}, saved \in [Writers -> 0 .. MaxId], table \in Tables,
       positive \in BOOLEAN :
        LET known == {w \in Writers : saved[w] > 0}
            low   == Min({saved[w] : w \in known})
        IN  /\ phase = "load"
            /\ in = [self |-> self, busy |-> FALSE, rows |-> table, saved |-> saved,
                     upto |-> 0, known |-> {}, local |-> 0, positive |-> positive]
            /\ positions = [w \in known |-> saved[w]]
            /\ upto = IF known # {} THEN low ELSE Max({1} \union {row[2] : row \in table})
            /\ todo = IF known = {} THEN <<>>
                      ELSE SortedRows({row \in table : row[2] >= low}, positive)
            /\ heap = {}
            /\ seen = 1
            /\ local = 1
            /\ inLoop = FALSE

Init == AddInput \/ LoadInput

\* _add_persisted_position up to its loop.
Push ==
    LET base == MaxOf2(Gen(TRUE)!MinCurr(in.self, positions, in.busy), upto)
    IN  /\ todo # <<>>
        /\ ~inLoop
        /\ heap' = heap \union {Head(todo)[2]}
        /\ upto' = base
        /\ local' = IF in.busy THEN MaxOf2(local, base) ELSE MaxOf2(seen, MaxOf2(local, base))
        /\ inLoop' = TRUE
        /\ UNCHANGED <<phase, in, todo, positions, seen>>

\* while: the head of the heap is not above the position.
Discard ==
    /\ inLoop /\ heap # {} /\ Min(heap) <= upto
    /\ heap' = heap \ {Min(heap)}
    /\ UNCHANGED <<phase, in, todo, positions, upto, seen, local, inLoop>>

\* Seeded fault: the position stays behind.
SkipNothing ==
    /\ inLoop /\ heap # {} /\ Min(heap) = upto + 1
    /\ heap' = heap \ {Min(heap)}
    /\ UNCHANGED <<phase, in, todo, positions, upto, seen, local, inLoop>>

\* while: it is the next position.
Skip ==
    /\ inLoop /\ heap # {} /\ Min(heap) = upto + 1
    /\ heap' = heap \ {Min(heap)}
    /\ upto' = upto + 1
    /\ UNCHANGED <<phase, in, todo, positions, seen, local, inLoop>>

\* The loop ends; _load_current_ids then records a row of its own.
Leave ==
    LET row == Head(todo)
        own == phase = "load" /\ row[1] = in.self
    IN  /\ inLoop /\ \A k \in heap : k > upto + 1
        /\ inLoop' = FALSE
        /\ todo' = Tail(todo)
        /\ positions' = IF own THEN [w \in DOMAIN positions \union {row[1]} |->
                                        IF w = row[1] THEN row[2] ELSE positions[w]]
                        ELSE positions
        /\ UNCHANGED <<phase, in, upto, heap, seen, local>>

\* setdefault() for every writer.
SetDefault ==
    /\ phase = "load" /\ todo = <<>>
    /\ phase' = "init"
    /\ positions' = [w \in Writers |-> IF w \in DOMAIN positions THEN positions[w] ELSE upto]
    /\ UNCHANGED <<in, todo, upto, heap, seen, local, inLoop>>

\* The rest of __init__.
SetMaxima ==
    /\ phase = "init"
    /\ phase' = "done"
    /\ seen'  = MaxOf2(Max({positions[w] : w \in Writers}), upto)
    /\ local' = seen'
    /\ UNCHANGED <<in, todo, positions, upto, heap, inLoop>>

Next == Push \/ Discard \/ Skip \/ Leave \/ SetDefault \/ SetMaxima

Spec == Init /\ [][Next]_vars

-----------------------------------------------------------------------------
\* The calls of _add_persisted_position for the ids of a finished transaction
\* leave the state that AddPersistedUpto, AddPersistedKnown and
\* AddPersistedLocal say.
AddMatches ==
    phase = "add" /\ todo = <<>> =>
        LET new == {row[2] : row \in in.rows}
        IN  /\ upto = Gen(TRUE)!AddPersistedUpto(in.self, positions, in.busy, in.upto, in.known, new)
            /\ heap = Gen(TRUE)!AddPersistedKnown(in.self, positions, in.busy, in.upto, in.known, new)
            /\ local = Gen(TRUE)!AddPersistedLocal(in.self, positions, in.busy, in.upto, in.known, new,
                                             seen, in.local)

\* __init__ leaves the state that LoadedUpto, LoadedKnown, LoadedPositions and
\* LoadedMaxSeen say, for every content of the tables, on positive and negative streams.
LoadMatches ==
    phase = "done" => \A positive \in BOOLEAN : in.positive = positive =>
        /\ upto = Gen(positive)!LoadedUpto(in.self)
        /\ heap = Gen(positive)!LoadedKnown(in.self)
        /\ positions = Gen(positive)!LoadedPositions(in.self)
        /\ seen = Gen(positive)!LoadedMaxSeen(in.self)
        /\ local = seen
=============================================================================
