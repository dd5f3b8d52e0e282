----------------------------- MODULE Replication -----------------------------
(***************************************************************************)
(* How the rows of a stream reach another process: the ReplicationStreamer *)
(* of the writers (synapse/replication/tcp/resource.py), the Redis channel *)
(* and its connections (redis.py), and the ReplicationCommandHandler of a  *)
(* process that reads the stream (handler.py), which hands the rows to the *)
(* ReplicationDataHandler (client.py) and advances its id generator.       *)
(*                                                                         *)
(* One stream and one reading process: streams have queues and connection  *)
(* state of their own, and readers do not interact.  A write is one step   *)
(* here; module MultiWriterIdGenerator shows that the token of a writer    *)
(* never covers an id it still has in progress.                            *)
(***************************************************************************)
EXTENDS Integers, Sequences, FiniteSetsExt

CONSTANTS
    Writers,            \* the processes that write the stream
    Reader,             \* the process that follows it
    MaxId,              \* bound on ids
    MaxRows,            \* bound on the rows that share an id
    DeltaLimit,         \* reads may be cut short by their state deltas (events stream)
    MaxBreaks,          \* bound on the connections the reader loses
    MaxWriterBreaks     \* bound on the connections the writers lose

ASSUME ReplicationAssumption ==
    /\ Writers # {}
    /\ Reader \notin Writers
    /\ DeltaLimit \in BOOLEAN
    /\ MaxId \in Nat /\ MaxRows \in Nat /\ MaxBreaks \in Nat /\ MaxWriterBreaks \in Nat

VARIABLES
    seq,            \* the last id handed out
    rows,           \* the stream's table: <<writer, id, k>>
    \* one ReplicationStreamer per writer
    tok,            \* get_current_token_for_writer of the writer itself
    minTok,         \* get_minimal_local_current_token
    last,           \* Stream.last_token
    looping,        \* is_looping: in _run_notifier_loop, reading the database
    pend,           \* pending_updates
    fetch,          \* the range that is being read: <<from, to>>
    announce,       \* _should_announce_positions
    up,             \* the writer has a connection
    greet,          \* connected, its positions are not yet announced
    announced,      \* the highest token the writer has published
    \* Redis
    chan,           \* commands on their way to the reader
    asked,          \* writers that have yet to see a REPLICATE
    \* the reader
    conn, conns,    \* its connection, 0 for none; how many it has had
    queue,          \* _command_queues_by_stream
    connected,      \* connections c with the stream in _streams_by_connection[c]
    batch,          \* _pending_batches
    proc,           \* the POSITION that is being handled
    positions, upto, known,     \* its id generator
    applied,        \* rows handed to process_replication_rows
    breaks

writerVars == <<seq, rows, tok, minTok>>
streamVars == <<last, looping, pend, fetch, announce, announced>>
linkVars   == <<up, greet, conn, conns, breaks>>
readerVars == <<queue, connected, batch, proc, positions, upto, known, applied>>
vars == <<writerVars, streamVars, linkVars, readerVars, chan, asked>>

MaxOf2(x, y) == IF x >= y THEN x ELSE y

Rdata(w, token, row) == [type |-> "RDATA", w |-> w, token |-> token, row |-> row]
Position(w, prev, new) == [type |-> "POSITION", w |-> w, prev |-> prev, new |-> new]

\* Commands published by w while its connection is up reach whoever is
\* subscribed, in the order of publication.
Publish(w, cmds, token) ==
    /\ chan' = IF up[w] /\ conn # 0 THEN chan \o cmds ELSE chan
    /\ announced' = [announced EXCEPT ![w] =
                        IF up[w] /\ cmds # <<>> THEN MaxOf2(@, token) ELSE @]

-----------------------------------------------------------------------------
(***************************************************************************)
(* Writers                                                                 *)
(***************************************************************************)

\* A write transaction with n rows, or none when it was rolled back.
Write(w, n) ==
    /\ seq < MaxId                                      \* bound
    /\ seq' = seq + 1
    /\ rows' = rows \union {<<w, seq + 1, k>> : k \in 1 .. n}
    /\ tok' = [tok EXCEPT ![w] = seq + 1]
    /\ minTok' = [minTok EXCEPT ![w] = seq + 1]
    /\ UNCHANGED <<streamVars, linkVars, readerVars, chan, asked>>

\* An idle writer hears of a position of another one (advance).
Carry(w, x) ==
    /\ x # w
    /\ announced[x] > tok[w]
    /\ tok' = [tok EXCEPT ![w] = announced[x]]
    /\ UNCHANGED <<seq, rows, minTok, streamVars, linkVars, readerVars, chan, asked>>

(***************************************************************************)
(* One round of the loop of _run_notifier_loop, up to the read of the      *)
(* database in get_updates, with last_token = from: announce the position  *)
(* if asked to, then look for news.  The commands of sent were published   *)
(* just before.                                                            *)
(***************************************************************************)
Round(w, sent, from) ==
    LET hello == IF announce[w] THEN <<Position(w, from, from)>> ELSE <<>>
        moved == from # tok[w]
        wrote == from < minTok[w]
        skip  == IF moved /\ ~wrote THEN <<Position(w, from, tok[w])>> ELSE <<>>
    IN  /\ pend' = [pend EXCEPT ![w] = FALSE]
        /\ announce' = [announce EXCEPT ![w] = FALSE]
        /\ Publish(w, sent \o hello \o skip, IF skip # <<>> THEN tok[w] ELSE from)
        /\ last' = [last EXCEPT ![w] = IF wrote THEN from ELSE tok[w]]
        /\ looping' = [looping EXCEPT ![w] = wrote]
        /\ fetch' = [fetch EXCEPT ![w] = IF wrote THEN <<from, tok[w]>> ELSE <<0, 0>>]

\* on_notifier_poke
Poke(w) ==
    /\ announce[w] \/ last[w] # tok[w]
    /\ \/ /\ ~up[w]
          /\ last' = [last EXCEPT ![w] = tok[w]]        \* discard_updates_and_advance
          /\ UNCHANGED <<looping, pend, fetch, announce, announced, chan>>
       \/ /\ up[w] /\ looping[w]
          /\ pend' = [pend EXCEPT ![w] = TRUE]
          /\ UNCHANGED <<last, looping, fetch, announce, announced, chan>>
       \/ up[w] /\ ~looping[w] /\ Round(w, <<>>, last[w])
    /\ UNCHANGED <<writerVars, linkVars, readerVars, asked>>

Before(r, s) == r[2] < s[2] \/ (r[2] = s[2] /\ r[3] < s[3])

\* The rows of S in the order of the stream.
InOrder(S) ==
    [j \in 1 .. Cardinality(S) |->
        CHOOSE r \in S : Cardinality({s \in S : Before(s, r)}) = j - 1]

\* Seeded fault: every row carries its token.
NoBatches(w, S) ==
    LET sorted == InOrder(S)
    IN  [j \in 1 .. Len(sorted) |-> Rdata(w, sorted[j][2], sorted[j])]

\* The RDATA of a set of rows, in order; all rows of an id but the last have
\* no token (_batch_updates).
BatchUpdates(w, S) ==
    LET sorted == InOrder(S)
    IN  [j \in 1 .. Len(sorted) |->
            Rdata(w, IF j < Len(sorted) /\ sorted[j + 1][2] = sorted[j][2] THEN 0
                     ELSE sorted[j][2], sorted[j])]

RowsBetween(w, from, to) == {r \in rows : r[1] = w /\ from < r[2] /\ r[2] <= to}

(***************************************************************************)
(* Where a read of w's rows between two tokens may end: at the upper one,  *)
(* or, when the limit on the number of rows is hit, at a row; a read of    *)
(* state deltas leaves out the last id, and ends just below it.            *)
(***************************************************************************)
ReadEnds(w, from, to) ==
    LET found == {r[2] : r \in RowsBetween(w, from, to)}
    IN  {to} \union found \union
        IF DeltaLimit THEN {v \in from .. to : v + 1 \in found /\ \E id \in found : id <= v}
        ELSE {}

\* Seeded fault: the POSITION goes back to the token before the rows.
PositionFromLast(w, from, u, S) ==
    IF u \in {r[2] : r \in S} THEN <<>> ELSE <<Position(w, from, u)>>

\* The POSITION after the rows S between from and u, when they end before u.
PositionAfter(w, from, u, S) ==
    LET end == IF S = {} THEN from ELSE Max({r[2] : r \in S})
    IN  IF end < u THEN <<Position(w, end, u)>> ELSE <<>>

\* The database answers get_updates with the rows up to u; the loop goes on
\* if there are more of them, or a poke has come in the meantime.
GetUpdates(w, u) ==
    LET from == fetch[w][1]
        new  == RowsBetween(w, from, u)
        cmds == BatchUpdates(w, new) \o PositionAfter(w, from, u, new)
    IN  /\ looping[w]
        /\ u \in ReadEnds(w, from, fetch[w][2])
        /\ IF pend[w] \/ u < fetch[w][2]
           THEN Round(w, cmds, u)
           ELSE /\ Publish(w, cmds, u)
                /\ last' = [last EXCEPT ![w] = u]
                /\ looping' = [looping EXCEPT ![w] = FALSE]
                /\ fetch' = [fetch EXCEPT ![w] = <<0, 0>>]
                /\ UNCHANGED <<pend, announce>>
        /\ UNCHANGED <<writerVars, linkVars, readerVars, asked>>

\* The database fails: the loop ends, whatever was pending.
GetUpdatesFails(w) ==
    /\ looping[w]
    /\ looping' = [looping EXCEPT ![w] = FALSE]
    /\ pend' = [pend EXCEPT ![w] = FALSE]
    /\ fetch' = [fetch EXCEPT ![w] = <<0, 0>>]
    /\ UNCHANGED <<writerVars, last, announce, announced, linkVars, readerVars, chan, asked>>

\* Seeded fault: the request is not answered.
OnReplicateIgnored(w) ==
    /\ w \in asked
    /\ asked' = asked \ {w}
    /\ UNCHANGED <<writerVars, streamVars, linkVars, readerVars, chan>>

\* on_REPLICATE; a writer without connection does not see it.
OnReplicate(w) ==
    /\ w \in asked
    /\ asked' = asked \ {w}
    /\ announce' = [announce EXCEPT ![w] = @ \/ up[w]]
    /\ UNCHANGED <<writerVars, last, looping, pend, fetch, announced, linkVars, readerVars, chan>>

\* A writer loses its connection, and gets a new one (new_connection); it
\* asks the others for their positions, then announces its own.
WriterDown(w) ==
    /\ up[w]
    /\ breaks[2] < MaxWriterBreaks
    /\ breaks' = [breaks EXCEPT ![2] = @ + 1]
    /\ up' = [up EXCEPT ![w] = FALSE]
    /\ greet' = [greet EXCEPT ![w] = FALSE]
    /\ UNCHANGED <<writerVars, streamVars, conn, conns, readerVars, chan, asked>>

WriterUp(w) ==
    /\ ~up[w]
    /\ up' = [up EXCEPT ![w] = TRUE]
    /\ greet' = [greet EXCEPT ![w] = TRUE]
    /\ asked' = Writers
    /\ UNCHANGED <<writerVars, streamVars, conn, conns, breaks, readerVars, chan>>

SendPositionsToConnection(w) ==
    /\ greet[w]
    /\ greet' = [greet EXCEPT ![w] = FALSE]
    /\ announce' = [announce EXCEPT ![w] = TRUE]
    /\ UNCHANGED <<writerVars, last, looping, pend, fetch, announced, up, conn, conns, breaks,
                   readerVars, chan, asked>>

-----------------------------------------------------------------------------
(***************************************************************************)
(* The reader                                                              *)
(***************************************************************************)

Gen == INSTANCE MultiWriterIdGenerator WITH
    Instances <- Writers \union {Reader}, Txns <- {}, Home <- <<>>, FreshWriters <- {},
    Positive <- TRUE, MaxBatch <- 1, MaxRestarts <- 0,
    rows <- {}, streamPositions <- <<>>, currentPositions <- positions,
    unfinishedIds <- <<>>, finishedIds <- <<>>, persistedUpto <- upto,
    knownPersisted <- known, maxSeen <- <<>>, maxLocal <- <<>>,
    pc <- <<>>, need <- <<>>, ids <- <<>>, cmax <- <<>>, token <- <<>>, sent <- {},
    restarts <- 0

\* current_token(w) of the stream, on the reader.
CurrentToken(w) == MaxOf2(positions[w], upto)

\* on_rdata: the rows are handled, then the generator advances.  Both are calls
\* into memory with no await between them; what may wait and fail comes after
\* them (other handlers are told), and its exception, which the command queue
\* logs, leaves rows and position as they are here.
OnRdata(w, v, new) ==
    LET map == [positions EXCEPT ![w] = MaxOf2(v, @)]
    IN  /\ applied' = applied \union new
        /\ positions' = map
        /\ upto' = Gen!AddPersistedUpto(Reader, map, FALSE, upto, known, {v})
        /\ known' = Gen!AddPersistedKnown(Reader, map, FALSE, upto, known, {v})

\* Its connection is lost, with the commands on their way; it reconnects,
\* subscribes and sends REPLICATE.
ReaderDown ==
    /\ conn # 0
    /\ breaks[1] < MaxBreaks
    /\ breaks' = [breaks EXCEPT ![1] = @ + 1]
    /\ conn' = 0
    /\ chan' = <<>>
    /\ connected' = connected \ {conn}
    /\ UNCHANGED <<writerVars, streamVars, up, greet, conns, queue, batch, proc, positions,
                   upto, known, applied, asked>>

ReaderUp ==
    /\ conn = 0
    /\ conn' = conns + 1
    /\ conns' = conns + 1
    /\ asked' = Writers
    /\ UNCHANGED <<writerVars, streamVars, up, greet, breaks, readerVars, chan>>

\* A POSITION that tells nothing new, on a connected stream.
CanDiscard(cmd, c) == cmd.new <= CurrentToken(cmd.w) /\ c \in connected

\* on_RDATA and on_POSITION: commands are queued with their connection.
Deliver ==
    LET cmd == Head(chan)
    IN  /\ chan # <<>>
        /\ chan' = Tail(chan)
        /\ queue' = IF cmd.type = "POSITION" /\ CanDiscard(cmd, conn) THEN queue
                    ELSE Append(queue, [cmd |-> cmd, conn |-> conn])
        /\ UNCHANGED <<writerVars, streamVars, linkVars, connected, batch, proc, positions,
                       upto, known, applied, asked>>

Idle == [stage |-> "idle"]

\* is_stream_connected
StreamConnected(c) == c \in connected

\* _process_rdata
ProcessRdata ==
    LET cmd == Head(queue).cmd
        c   == Head(queue).conn
    IN  /\ proc = Idle
        /\ queue # <<>>
        /\ cmd.type = "RDATA"
        /\ queue' = Tail(queue)
        /\ \/ ~StreamConnected(c) /\ UNCHANGED <<batch, positions, upto, known, applied>>
           \/ /\ StreamConnected(c)
              /\ cmd.token = 0
              /\ batch' = batch \union {cmd.row}
              /\ UNCHANGED <<positions, upto, known, applied>>
           \/ /\ StreamConnected(c)
              /\ cmd.token # 0
              /\ batch' = {}
              /\ IF cmd.token <= CurrentToken(cmd.w)
                 THEN UNCHANGED <<positions, upto, known, applied>>
                 ELSE OnRdata(cmd.w, cmd.token, batch \union {cmd.row})
        /\ UNCHANGED <<writerVars, streamVars, linkVars, connected, proc, chan, asked>>

\* Seeded fault: a position the reader has not reached is taken for granted.
MissingNothing(cmd) == CurrentToken(cmd.w) > cmd.new

\* Are there updates between what we have and the position?
MissingUpdates(cmd) == ~(cmd.prev <= CurrentToken(cmd.w) /\ CurrentToken(cmd.w) <= cmd.new)

\* _process_position, up to the first read of the database.
ProcessPosition ==
    LET cmd == Head(queue).cmd
        c   == Head(queue).conn
    IN  /\ proc = Idle
        /\ queue # <<>>
        /\ cmd.type = "POSITION"
        /\ queue' = Tail(queue)
        /\ IF CanDiscard(cmd, c)
           THEN UNCHANGED <<connected, batch, proc>>
           ELSE /\ connected' = {}
                /\ batch' = {}
                /\ proc' = [stage |-> IF MissingUpdates(cmd) THEN "fetch" ELSE "caught_up",
                            cmd |-> cmd, conn |-> c, from |-> CurrentToken(cmd.w), todo |-> {}]
        /\ UNCHANGED <<writerVars, streamVars, linkVars, positions, upto, known, applied, chan,
                       asked>>

\* get_updates_since: the rows up to u.
GetUpdatesSince(u) ==
    /\ proc.stage = "fetch"
    /\ u \in ReadEnds(proc.cmd.w, proc.from, proc.cmd.new)
    /\ proc' = [proc EXCEPT !.stage = "apply", !.from = u,
                            !.todo = RowsBetween(proc.cmd.w, proc.from, u)]
    /\ UNCHANGED <<writerVars, streamVars, linkVars, queue, connected, batch, positions, upto,
                   known, applied, chan, asked>>

\* on_rdata for the rows of the lowest id.
ApplyUpdates ==
    LET id  == Min({r[2] : r \in proc.todo})
        new == {r \in proc.todo : r[2] = id}
    IN  /\ proc.stage = "apply"
        /\ proc.todo # {}
        /\ OnRdata(proc.cmd.w, id, new)
        /\ proc' = [proc EXCEPT !.todo = @ \ new]
        /\ UNCHANGED <<writerVars, streamVars, linkVars, queue, connected, batch, chan, asked>>

\* The loop goes round again, or on_position follows.
FetchedAll ==
    /\ proc.stage = "apply"
    /\ proc.todo = {}
    /\ proc' = [proc EXCEPT !.stage = IF proc.from < proc.cmd.new THEN "fetch" ELSE "caught_up"]
    /\ UNCHANGED <<writerVars, streamVars, linkVars, queue, connected, batch, positions, upto,
                   known, applied, chan, asked>>

OnPosition ==
    /\ proc.stage = "caught_up"
    /\ OnRdata(proc.cmd.w, proc.cmd.new, {})
    /\ proc' = [proc EXCEPT !.stage = "connect"]
    /\ UNCHANGED <<writerVars, streamVars, linkVars, queue, connected, batch, chan, asked>>

Connect ==
    /\ proc.stage = "connect"
    /\ connected' = connected \union {proc.conn}
    /\ proc' = Idle
    /\ UNCHANGED <<writerVars, streamVars, linkVars, queue, batch, positions, upto, known,
                   applied, chan, asked>>

\* An exception: the command is given up, the stream stays unconnected.
ProcessFails ==
    /\ proc.stage \in {"fetch", "apply", "connect"}
    /\ proc' = Idle
    /\ UNCHANGED <<writerVars, streamVars, linkVars, queue, connected, batch, positions, upto,
                   known, applied, chan, asked>>

-----------------------------------------------------------------------------
\* An empty stream; the reader is connected and has handled all positions.
Init ==
    /\ seq = 1
    /\ rows = {}
    /\ tok = [w \in Writers |-> 1]
    /\ minTok = [w \in Writers |-> 1]
    /\ last = [w \in Writers |-> 1]
    /\ looping = [w \in Writers |-> FALSE]
    /\ pend = [w \in Writers |-> FALSE]
    /\ fetch = [w \in Writers |-> <<0, 0>>]
    /\ announce = [w \in Writers |-> FALSE]
    /\ announced = [w \in Writers |-> 1]
    /\ up = [w \in Writers |-> TRUE]
    /\ greet = [w \in Writers |-> FALSE]
    /\ chan = <<>>
    /\ asked = {}
    /\ conn = 1
    /\ conns = 1
    /\ queue = <<>>
    /\ connected = {1}
    /\ batch = {}
    /\ proc = Idle
    /\ positions = [w \in Writers |-> 1]
    /\ upto = 1
    /\ known = {}
    /\ applied = {}
    /\ breaks = <<0, 0>>

Streamer(w) ==
    \/ Poke(w)
    \/ \E u \in 1 .. seq : GetUpdates(w, u)

Handler ==
    \/ ProcessRdata
    \/ ProcessPosition
    \/ \E u \in 1 .. seq : GetUpdatesSince(u)
    \/ ApplyUpdates
    \/ FetchedAll
    \/ OnPosition
    \/ Connect

\* What a writer and the reader do whether or not there are other writers.
AloneNext ==
    \/ \E w \in Writers, n \in 0 .. MaxRows : Write(w, n)
    \/ \E w \in Writers : \/ Streamer(w)
                          \/ OnReplicate(w)
                          \/ WriterDown(w)
                          \/ WriterUp(w)
                          \/ SendPositionsToConnection(w)
    \/ ReaderDown
    \/ ReaderUp
    \/ Deliver
    \/ Handler

HealthyNext ==
    \/ AloneNext
    \/ \E w, x \in Writers : Carry(w, x)

Failures ==
    \/ \E w \in Writers : GetUpdatesFails(w)
    \/ ProcessFails

Next == HealthyNext \/ Failures

Spec == Init /\ [][Next]_vars

(***************************************************************************)
(* Fairness: as long as a streamer can be poked or go on, Redis can        *)
(* deliver, a connection can be made again or a database call can return,  *)
(* one of them does.                                                       *)
(***************************************************************************)
Progress ==
    \/ \E w \in Writers : \/ Poke(w)
                          \/ \E u \in 1 .. seq : GetUpdates(w, u)
                          \/ OnReplicate(w)
                          \/ WriterUp(w)
                          \/ SendPositionsToConnection(w)
    \/ ReaderUp
    \/ Deliver
    \/ Handler

Fairness == WF_vars(Progress)

HealthySpec == Init /\ [][HealthyNext]_vars /\ Fairness

-----------------------------------------------------------------------------
\* The fields keep their types; the reader never knows a position of a writer
\* that the writer has not reached.
TypeOK ==
    /\ seq \in 1 .. MaxId
    /\ rows \in SUBSET (Writers \X (1 .. MaxId) \X (1 .. MaxRows))
    /\ \A w \in Writers : /\ last[w] \in 1 .. tok[w]
                          /\ minTok[w] \in 1 .. tok[w]
                          /\ positions[w] \in 1 .. tok[w]
    /\ applied \subseteq rows
    /\ batch \subseteq rows
    /\ connected \subseteq 1 .. conns
    /\ proc.stage \in {"idle", "fetch", "apply", "caught_up", "connect"}

\* A row at or below the reader's position for its writer has been handled
\* ("these include tokens which can be used to restart the stream on
\* connection errors", docs/tcp_replication.md:120): no row is missed across
\* lost connections, late commands and failed queries.
NoMissedRows == \A r \in rows : r[2] <= CurrentToken(r[1]) => r \in applied

\* POSITION: "no rows were written by the instance between the prev_token and
\* new_token" (commands.py:168), or the reader would not fetch them.
PositionsSkipNoRows ==
    \A j \in DOMAIN chan :
        chan[j].type = "POSITION" => RowsBetween(chan[j].w, chan[j].prev, chan[j].new) = {}

\* A reader handles a row exactly when its position passes the row's id.
Abstract == INSTANCE ReplicatedStream WITH
    current <- tok, position <- [w \in Writers |-> CurrentToken(w)]

\* With a single writer, the streamer, the channel and the handler implement
\* a stream of which the reader handles every row once and in order.
ImplementsReplicatedStream == Abstract!Spec

\* The reader's position for every writer catches up with the writer, as
\* wait_for_stream_position counts on, whoever loses connections: together with
\* NoMissedRows, every row is handled in the end.
PositionsArrive == <>[](\A w \in Writers : CurrentToken(w) >= tok[w])
=============================================================================
