---------------------------- MODULE MCComponents ----------------------------
(***************************************************************************)
(* The components that share no state, for TLC, in one run: each behaviour *)
(* is one of the component in focus, and the others stay as they are.      *)
(***************************************************************************)
EXTENDS Locks, Queues, Caches, Delivery, TLC

CONSTANTS
    Foci,                           \* the components of the run
    a, b, Writers, Reader, MaxId,   \* StreamIdLoops, Replication
    MaxRows                         \* Replication

VARIABLES
    focus,
    phase, in, todo, positions, upto, heap, seen, local, inLoop,
    seq, rows, tok, minTok, last, looping, pend, read, announce, announced, up, greet, conn,
    conns, breaks, repQueue, connected, batch, proc, repPositions, repUpto, known, applied,
    chan, asked

loopVars == <<phase, in, todo, positions, upto, heap, seen, local, inLoop>>
repVars == <<seq, rows, tok, minTok, last, looping, pend, read, announce, announced, up, greet,
    conn, conns, breaks, repQueue, connected, batch, proc, repPositions, repUpto, known, applied,
    chan, asked>>
allVars == <<focus, vars, linearizerVars, epqVars, cacheVars, taskVars, lockVars, loopVars, repVars,
    changeVars, serviceVars, pushVars>>

\* The users of the worker lock are on two workers, or on one.
Spread == <<"w1", "w1", "w2">>
Together == <<"w1", "w1", "w1">>
SpreadOrTogether == {Spread, Together}

Loops == INSTANCE StreamIdLoops
\* Two writers; nobody loses a connection and no query fails.
Rep == INSTANCE Replication WITH
    DeltaLimit <- FALSE, MaxBreaks <- 0, MaxWriterBreaks <- 0,
    fetch <- read, queue <- repQueue, positions <- repPositions, upto <- repUpto

\* The loops only matter in focus: they have one initial state otherwise.
NoLoops ==
    /\ phase = "none" /\ in = <<>> /\ todo = <<>> /\ positions = <<>>
    /\ upto = 0 /\ heap = {} /\ seen = 0 /\ local = 0 /\ inLoop = FALSE

ComponentsInit ==
    /\ focus \in Foci
    /\ Init /\ LinearizerInit /\ Epq!Init /\ Cache!Init /\ Scheduler!Init /\ Lock!Init
    /\ Rep!Init /\ ChangesInit /\ ServiceInit /\ Push!Init
    /\ focus # "lock" => home = Together
    /\ focus # "changes" => earliest = 0
    /\ IF focus = "loops" THEN Loops!Init ELSE NoLoops

ComponentsNext ==
    /\ UNCHANGED focus
    /\ \/ /\ focus = "rw" /\ Next
          /\ UNCHANGED <<linearizerVars, epqVars, cacheVars, taskVars, lockVars, loopVars, repVars,
                       changeVars, serviceVars, pushVars>>
       \/ /\ focus = "linearizer" /\ LinearizerNext
          /\ UNCHANGED <<vars, epqVars, cacheVars, taskVars, lockVars, loopVars, repVars,
                       changeVars, serviceVars, pushVars>>
       \/ /\ focus = "queue" /\ Epq!Next
          /\ UNCHANGED <<vars, linearizerVars, cacheVars, taskVars, lockVars, loopVars, repVars,
                       changeVars, serviceVars, pushVars>>
       \/ /\ focus = "cache" /\ Cache!Next
          /\ UNCHANGED <<vars, linearizerVars, epqVars, taskVars, lockVars, loopVars, repVars,
                       changeVars, serviceVars, pushVars>>
       \/ /\ focus = "scheduler" /\ Scheduler!Next
          /\ UNCHANGED <<vars, linearizerVars, epqVars, cacheVars, lockVars, loopVars, repVars,
                       changeVars, serviceVars, pushVars>>
       \/ /\ focus = "lock" /\ Lock!Next
          /\ UNCHANGED <<vars, linearizerVars, epqVars, cacheVars, taskVars, loopVars, repVars,
                       changeVars, serviceVars, pushVars>>
       \/ /\ focus = "loops" /\ Loops!Next
          /\ UNCHANGED <<vars, linearizerVars, epqVars, cacheVars, taskVars, lockVars, repVars,
                       changeVars, serviceVars, pushVars>>
       \/ /\ focus = "replication" /\ Rep!HealthyNext
          /\ UNCHANGED <<vars, linearizerVars, epqVars, cacheVars, taskVars, lockVars, loopVars,
                       changeVars, serviceVars, pushVars>>
       \/ /\ focus = "changes" /\ ChangesNext
          /\ UNCHANGED <<vars, linearizerVars, epqVars, cacheVars, taskVars, lockVars, loopVars,
                       repVars, serviceVars, pushVars>>
       \/ /\ focus = "appservice" /\ ServiceNext
          /\ UNCHANGED <<vars, linearizerVars, epqVars, cacheVars, taskVars, lockVars, loopVars,
                       repVars, changeVars, pushVars>>
       \/ /\ focus = "pusher" /\ Push!Next
          /\ UNCHANGED <<vars, linearizerVars, epqVars, cacheVars, taskVars, lockVars, loopVars,
                       repVars, changeVars, serviceVars>>

ComponentsSpec == ComponentsInit /\ [][ComponentsNext]_allVars

-----------------------------------------------------------------------------
\* The types of the variables of the component in focus (those of the others
\* keep their initial values), the capacity of the scheduler and the size of
\* the stream change cache.
ComponentTypes ==
    CASE focus = "rw" -> TypeOK
      [] focus = "linearizer" -> LinearizerTypeOK
      [] focus = "queue" -> Epq!TypeOK
      [] focus = "cache" -> Cache!TypeOK
      [] focus = "scheduler" -> Scheduler!TypeOK
      [] focus = "lock" -> Lock!TypeOK
      [] focus = "replication" -> Rep!TypeOK
      [] focus = "changes" -> ChangesTypeOK /\ SizeBounded
      [] focus = "appservice" -> ServiceTypeOK
      [] focus = "pusher" -> Push!TypeOK
      [] focus = "loops" -> TRUE

\* MultiWriterIdGenerator: the loop of _add_persisted_position computes its closed form.
AddMatches == Loops!AddMatches
\* MultiWriterIdGenerator: so do the loops of _load_current_ids and __init__.
LoadMatches == Loops!LoadMatches
\* Replication: with two writers and no lost connection the reader misses no row.
NoMissedRows == Rep!NoMissedRows
=============================================================================
