--------------------------- MODULE FederationSender ---------------------------
(***************************************************************************)
(* Sending events to one remote homeserver: the loop of FederationSender   *)
(* that takes new events from the database (federation/sender/__init__.py),*)
(* the PerDestinationQueue with its transmission loop and catch-up mode    *)
(* (per_destination_queue.py), the tables destinations, destination_rooms  *)
(* and federation_stream_position, and the back-off from a destination     *)
(* that does not answer (util/retryutils.py).                              *)
(*                                                                         *)
(* Every event is one this server must send to the destination, and its    *)
(* number is its stream ordering.  A step is what runs between two awaits. *)
(* EDUs appear only in that they start the transmission loop.              *)
(***************************************************************************)
EXTENDS Integers, Sequences, FiniteSets

CONSTANTS
    Rooms,
    RoundLimit,         \* events per round of the sender (100 in the code)
    TransactionLimit,   \* PDUs per transaction (50)
    CatchUpLimit,       \* rooms per round of catch-up (50)
    FirstContact,       \* may nothing have been sent to the destination yet?
    MaxEvents,          \* bound on the events
    MaxFaults,          \* bound on failing requests and database calls
    MaxLongBackOffs,    \* bound on the failures that lead to a long interval
    MaxCrashes          \* bound on the restarts of the process

ASSUME LimitsAssumption ==
    /\ RoundLimit \in Nat \ {0} /\ TransactionLimit \in Nat \ {0} /\ CatchUpLimit \in Nat \ {0}
    /\ FirstContact \in BOOLEAN
    /\ MaxEvents \in Nat /\ MaxFaults \in Nat /\ MaxLongBackOffs \in Nat /\ MaxCrashes \in Nat

Unknown == -1       \* None, NULL

VARIABLES
    \* the database
    events,             \* the room of each event
    outPos,             \* federation_stream_position of the sender
    destinationRooms,   \* stream_ordering in destination_rooms, 0 for no row
    lastSuccessful,     \* last_successful_stream_ordering in destinations
    retry,              \* retry_interval, and how far off the next retry is
    \* FederationSender
    processing,         \* where _process_event_queue_loop is
    nextToken,          \* next_token of the round
    handlers,           \* the calls of handle_room_events in progress
    \* PerDestinationQueue
    queue,              \* _pending_pdus
    catchingUp,         \* _catching_up
    lastSkipped,        \* _catchup_last_skipped
    lastKnown,          \* _last_successful_stream_ordering
    newData,            \* _new_data_to_send
    loop,               \* where _transaction_transmission_loop is
    firstCheck,         \* first_catch_up_check
    todo,               \* the PDUs it is sending
    \* the destination
    delivered,          \* events it has received
    \* history and bounds
    newest,             \* the newest event that ever was in destination_rooms
    offered,            \* events given to send_pdu in stream order, see HandOver
    faults, longBackOffs, crashes

database == <<events, outPos, destinationRooms, lastSuccessful, retry>>
sender == <<processing, nextToken, handlers>>
perDestinationQueue == <<queue, catchingUp, lastSkipped, lastKnown, newData, loop, firstCheck, todo>>
bounds == <<faults, longBackOffs, crashes>>
history == <<newest, offered>>
vars == <<database, sender, perDestinationQueue, delivered, history, bounds>>

Handlers == [events : Seq(1..MaxEvents), stored : BOOLEAN, orphan : BOOLEAN]
NoRetry == [interval |-> "none", wait |-> "due"]

\* The events of S in stream order, at most n of them.
InOrder(S, n) ==
    LET Rank(e) == Cardinality({f \in S : f <= e})
        len == IF Cardinality(S) < n THEN Cardinality(S) ELSE n
    IN  [i \in 1..len |-> CHOOSE e \in S : Rank(e) = i]

FirstOf(s, n) == SubSeq(s, 1, IF Len(s) < n THEN Len(s) ELSE n)

-----------------------------------------------------------------------------
(* New events and the sender's loop. *)

\* notify_new_events: a running loop will find the event by itself.
Poked == IF processing = "idle" THEN "query" ELSE processing

\* An event is persisted, and the notifier pokes the sender.
NewEvent(r) ==
    /\ Len(events) < MaxEvents                                  \* bound
    /\ events' = Append(events, r)
    /\ processing' = Poked
    /\ UNCHANGED <<outPos, destinationRooms, lastSuccessful, retry, nextToken, handlers,
                   perDestinationQueue, delivered, history, bounds>>

\* It is poked again for an event that is not for this destination, after a
\* restart or a failure.
Notify ==
    /\ processing = "idle"
    /\ outPos < Len(events)
    /\ processing' = Poked
    /\ UNCHANGED <<database, nextToken, handlers, perDestinationQueue, delivered, history, bounds>>

\* Seeded fault: the next round starts after the event that follows.
LimitedToNext == outPos + RoundLimit + 1

\* get_all_new_event_ids_stream: where a limited round ends.
LimitedTo == outPos + RoundLimit

\* The start of a round: events are grouped by room, and the rooms handled
\* side by side.
ReadNewEvents ==
    LET all == outPos + 1 .. Len(events)
        round == {e \in all : e <= outPos + RoundLimit}
        InRoom(r) == {e \in round : events[e] = r}
    IN  /\ processing = "query"
        /\ processing' = IF all = {} THEN "idle" ELSE "handle"
        /\ nextToken' = IF Cardinality(all) < RoundLimit THEN Len(events) ELSE LimitedTo
        /\ handlers' = handlers \union
              {[events |-> InOrder(InRoom(r), RoundLimit), stored |-> FALSE, orphan |-> FALSE] :
                    r \in {q \in Rooms : InRoom(q) # {}}}
        /\ UNCHANGED <<database, perDestinationQueue, delivered, history, bounds>>

\* attempt_new_transaction
AttemptNewTransaction ==
    /\ newData' = TRUE
    /\ loop' = IF loop = "idle" THEN "limiter" ELSE loop

\* send_pdu
SendPdu(e) ==
    /\ IF ~catchingUp \/ lastKnown = Unknown
       THEN queue' = Append(queue, e) /\ UNCHANGED lastSkipped
       ELSE lastSkipped' = e /\ UNCHANGED queue
    /\ AttemptNewTransaction

\* store_destination_rooms_entries.  A handler that goes on from a failed
\* round may set the row of its room back, and catch-up no longer knows of
\* the newer events of the room (offered).
StoreDestinationRoom(h) ==
    LET e == Head(h.events)
    IN  /\ h \in handlers /\ ~h.stored
        /\ destinationRooms' = [destinationRooms EXCEPT ![events[e]] = e]
        /\ handlers' = (handlers \ {h}) \union {[h EXCEPT !.stored = TRUE]}
        /\ offered' = IF destinationRooms[events[e]] <= e THEN offered
                      ELSE {f \in offered : events[f] # events[e]}
        /\ newest' = IF e > newest THEN e ELSE newest
        /\ UNCHANGED <<events, outPos, lastSuccessful, retry, processing, nextToken,
                       perDestinationQueue, delivered, bounds>>

\* The rest of _send_pdu: the destination is left out if its next retry is
\* more than CATCHUP_RETRY_INTERVAL away.  The event counts as offered if
\* nothing newer was stored before it: the rooms of a round are handled side
\* by side, and a newer event may already have been sent and recorded.  An
\* older event that is skipped hides the newer ones that were.
HandOver(h) ==
    LET e == Head(h.events)
        rest == [events |-> Tail(h.events), stored |-> FALSE, orphan |-> h.orphan]
    IN  /\ h \in handlers /\ h.stored
        /\ handlers' = (handlers \ {h}) \union (IF rest.events = <<>> THEN {} ELSE {rest})
        /\ IF retry.wait = "far"
           THEN UNCHANGED <<perDestinationQueue, offered>>
           ELSE /\ SendPdu(e)
                /\ offered' = {f \in offered : f <= lastSkipped' \/ f > lastSkipped}
                      \union {f \in {e} : e = newest /\ e = destinationRooms[events[e]]
                                            /\ lastSuccessful # Unknown}
                /\ UNCHANGED <<catchingUp, lastKnown, firstCheck, todo>>
        /\ UNCHANGED <<database, processing, nextToken, delivered, newest, bounds>>

\* One room fails: the loop ends at once, the other rooms carry on.
HandlerFails(h) ==
    /\ h \in handlers
    /\ faults < MaxFaults /\ faults' = faults + 1
    /\ IF h.orphan
       THEN handlers' = handlers \ {h} /\ UNCHANGED processing
       ELSE /\ handlers' = {[g EXCEPT !.orphan = TRUE] : g \in handlers \ {h}}
            /\ processing' = "idle"
    /\ UNCHANGED <<database, nextToken, perDestinationQueue, delivered, history,
                   longBackOffs, crashes>>

\* All rooms are done: update_federation_out_pos.
UpdateOutPos ==
    /\ processing = "handle"
    /\ \A h \in handlers : h.orphan
    /\ outPos' = nextToken
    /\ processing' = "query"
    /\ UNCHANGED <<events, destinationRooms, lastSuccessful, retry, nextToken, handlers,
                   perDestinationQueue, delivered, history, bounds>>

ProcessingFails ==
    /\ processing = "query" \/ (processing = "handle" /\ \A h \in handlers : h.orphan)
    /\ faults < MaxFaults /\ faults' = faults + 1
    /\ processing' = "idle"
    /\ UNCHANGED <<database, nextToken, handlers, perDestinationQueue, delivered,
                   history, longBackOffs, crashes>>

-----------------------------------------------------------------------------
(* The back-off. *)

\* Intervals grow with each failure in a row.
BackOff ==
    \/ /\ retry.interval \in {"none", "short"}
       /\ retry' = [interval |-> "short", wait |-> "soon"]
       /\ UNCHANGED longBackOffs
    \/ /\ retry.interval \in {"short", "long"}
       /\ longBackOffs < MaxLongBackOffs
       /\ longBackOffs' = longBackOffs + 1
       /\ retry' = [interval |-> "long", wait |-> "far"]

\* Time passes: first the next retry is less than an hour away, then due.
TimePasses ==
    /\ retry.wait # "due"
    /\ retry' = [retry EXCEPT !.wait = IF @ = "far" THEN "soon" ELSE "due"]
    /\ UNCHANGED <<events, outPos, destinationRooms, lastSuccessful, sender, perDestinationQueue,
                   delivered, history, bounds>>

\* Another request of ours to the destination fails.
OtherRequestFails ==
    /\ faults < MaxFaults /\ faults' = faults + 1
    /\ retry.wait = "due"
    /\ BackOff
    /\ UNCHANGED <<events, outPos, destinationRooms, lastSuccessful, sender, perDestinationQueue,
                   delivered, history, crashes>>

\* notify_remote_server_up: another request succeeds, or one comes in.
RemoteServerUp ==
    /\ retry.interval # "none"
    /\ retry' = NoRetry
    /\ AttemptNewTransaction
    /\ UNCHANGED <<events, outPos, destinationRooms, lastSuccessful, sender, queue, catchingUp,
                   lastSkipped, lastKnown, firstCheck, todo, delivered, history, bounds>>

-----------------------------------------------------------------------------
(* The transmission loop. *)

\* An EDU, or anything else that calls attempt_new_transaction.
SendEdu ==
    /\ AttemptNewTransaction
    /\ UNCHANGED <<database, sender, queue, catchingUp, lastSkipped, lastKnown, firstCheck, todo,
                   delivered, history, bounds>>

\* Seeded fault: only destinations that have not failed are woken.
NeedsWakingUnfailed ==
    /\ lastSuccessful # Unknown
    /\ \E r \in Rooms : destinationRooms[r] > lastSuccessful
    /\ retry.interval = "none"

\* get_catch_up_outstanding_destinations
NeedsWaking ==
    /\ lastSuccessful # Unknown
    /\ \E r \in Rooms : destinationRooms[r] > lastSuccessful
    /\ retry.wait = "due"

\* _wake_destinations_needing_catchup
WakeDestination ==
    /\ NeedsWaking
    /\ AttemptNewTransaction
    /\ UNCHANGED <<database, sender, queue, catchingUp, lastSkipped, lastKnown, firstCheck, todo,
                   delivered, history, bounds>>

\* _start_catching_up
StartCatchingUp ==
    /\ catchingUp' = TRUE
    /\ queue' = <<>>

\* The loop ends; its local variables are gone.
EndLoop == loop' = "idle" /\ firstCheck' = FALSE /\ todo' = <<>>

\* NotRetryingDestination ends the loop.
NotRetrying ==
    /\ EndLoop
    /\ IF retry.interval = "long"
       THEN StartCatchingUp
       ELSE UNCHANGED <<catchingUp, queue>>

\* The next round of the loop, up to the first await.
NextTransaction ==
    /\ loop' = "select"
    /\ newData' = FALSE

\* get_retry_limiter
CheckLimiter ==
    /\ loop = "limiter"
    /\ IF retry.wait # "due"
       THEN NotRetrying /\ UNCHANGED newData
       ELSE /\ UNCHANGED <<queue, catchingUp, todo>>
            /\ IF catchingUp
               THEN /\ loop' = IF lastKnown = Unknown THEN "read_last" ELSE "look"
                    /\ firstCheck' = (lastKnown = Unknown)
                    /\ UNCHANGED newData
               ELSE NextTransaction /\ UNCHANGED firstCheck
    /\ UNCHANGED <<database, sender, lastSkipped, lastKnown, delivered, history, bounds>>

\* get_destination_last_successful_stream_ordering
ReadLastSuccessful ==
    /\ loop = "read_last"
    /\ lastKnown' = lastSuccessful
    /\ IF lastSuccessful = Unknown
       THEN catchingUp' = FALSE /\ NextTransaction /\ firstCheck' = FALSE
       ELSE loop' = "look" /\ UNCHANGED <<catchingUp, newData, firstCheck>>
    /\ UNCHANGED <<database, sender, queue, lastSkipped, todo, delivered, history, bounds>>

Outstanding == {destinationRooms[r] : r \in Rooms} \ (0..lastKnown)

\* get_catch_up_room_event_ids
LookForMissed ==
    /\ loop = "look"
    /\ todo' = InOrder(Outstanding, CatchUpLimit)
    /\ loop' = "looked"
    /\ UNCHANGED <<database, sender, queue, catchingUp, lastSkipped, lastKnown, newData, firstCheck,
                   delivered, history, bounds>>

\* Seeded fault: events that were skipped since are not looked for.
CaughtUpAsLooked == todo = <<>>

CaughtUp == todo = <<>> /\ lastSkipped <= lastKnown

\* The answer is there: catch-up ends, looks again or goes on.
DecideOnCatchUp ==
    /\ loop = "looked"
    /\ \/ /\ CaughtUp
          /\ catchingUp' = FALSE
          /\ firstCheck' = FALSE
          /\ NextTransaction
          /\ UNCHANGED queue
       \/ /\ todo = <<>> /\ ~CaughtUp
          /\ loop' = "look"
          /\ UNCHANGED <<queue, catchingUp, newData, firstCheck>>
       \/ /\ todo # <<>>
          /\ loop' = "catch_up"
          /\ IF firstCheck THEN StartCatchingUp ELSE UNCHANGED <<catchingUp, queue>>
          /\ UNCHANGED <<newData, firstCheck>>
    /\ UNCHANGED <<database, sender, lastSkipped, lastKnown, todo, delivered, history, bounds>>

Latest(r) == CHOOSE e \in 1..Len(events) :
    events[e] = r /\ \A f \in 1..Len(events) : events[f] = r => f <= e

\* What is sent: the transaction from the queue, or for a room that is
\* caught up on, its newest event (or the missed one, if the destination may
\* not see that).
Transactions ==
    IF loop = "send"
    THEN {{todo[i] : i \in DOMAIN todo}}
    ELSE {{Head(todo)}, {Latest(events[Head(todo)])}}

Sending == loop \in {"send", "catch_up"}

\* __aexit__: PDUs that came in meanwhile stay.
Dequeue == SubSeq(queue, Len(todo) + 1, Len(queue))

\* send_new_transaction succeeds.
TransactionSent ==
    /\ Sending
    /\ retry.wait = "due"
    /\ \E pdus \in Transactions : delivered' = delivered \union pdus
    /\ retry' = NoRetry
    /\ IF loop = "send"
       THEN loop' = "mark" /\ queue' = Dequeue /\ UNCHANGED lastKnown
       ELSE loop' = "record" /\ lastKnown' = Head(todo) /\ UNCHANGED queue
    /\ UNCHANGED <<events, outPos, destinationRooms, lastSuccessful, sender, catchingUp,
                   lastSkipped, newData, firstCheck, todo, history, bounds>>

\* It fails: with no answer, although the destination may have received it,
\* or with an error code that is no reason to back off.
TransactionFails ==
    /\ Sending
    /\ retry.wait = "due"
    /\ faults < MaxFaults /\ faults' = faults + 1
    /\ delivered' \in {delivered} \union {delivered \union pdus : pdus \in Transactions}
    /\ BackOff \/ UNCHANGED <<retry, longBackOffs>>
    /\ EndLoop
    /\ UNCHANGED <<events, outPos, destinationRooms, lastSuccessful, sender, queue, catchingUp,
                   lastSkipped, lastKnown, newData, history, crashes>>

\* The back-off has begun since the loop looked: the HTTP client refuses.
TransactionRefused ==
    /\ Sending
    /\ retry.wait # "due"
    /\ NotRetrying
    /\ UNCHANGED <<database, sender, lastSkipped, lastKnown, newData, delivered, history,
                   bounds>>

\* set_destination_last_successful_stream_ordering, in catch-up
RecordCaughtUp ==
    /\ loop = "record"
    /\ lastSuccessful' = Head(todo)
    /\ todo' = Tail(todo)
    /\ loop' = IF Tail(todo) = <<>> THEN "look" ELSE "catch_up"
    /\ UNCHANGED <<events, outPos, destinationRooms, retry, sender, queue, catchingUp, lastSkipped,
                   lastKnown, newData, firstCheck, delivered, history, bounds>>

\* __aenter__, after the EDUs are read.
SelectPdus ==
    /\ loop = "select"
    /\ todo' = FirstOf(queue, TransactionLimit)
    /\ IF queue # <<>>
       THEN loop' = "send" /\ UNCHANGED newData
       ELSE IF newData
            THEN NextTransaction
            ELSE loop' = "idle" /\ UNCHANGED newData
    /\ UNCHANGED <<database, sender, queue, catchingUp, lastSkipped, lastKnown, firstCheck,
                   delivered, history, bounds>>

\* __aexit__: set_destination_last_successful_stream_ordering
MarkSent ==
    /\ loop = "mark"
    /\ lastSuccessful' = todo[Len(todo)]
    /\ todo' = <<>>
    /\ NextTransaction
    /\ UNCHANGED <<events, outPos, destinationRooms, retry, sender, queue, catchingUp, lastSkipped,
                   lastKnown, firstCheck, delivered, history, bounds>>

\* A database call fails.
LoopFails ==
    /\ loop \in {"limiter", "read_last", "look", "record", "select", "mark"}
    /\ faults < MaxFaults /\ faults' = faults + 1
    /\ EndLoop
    /\ UNCHANGED <<database, sender, queue, catchingUp, lastSkipped, lastKnown, newData, delivered,
                   history, longBackOffs, crashes>>

-----------------------------------------------------------------------------
\* The process dies and starts again.
Restart ==
    /\ crashes < MaxCrashes /\ crashes' = crashes + 1
    /\ processing' = "idle" /\ nextToken' = 0 /\ handlers' = {}
    /\ queue' = <<>> /\ catchingUp' = TRUE /\ lastSkipped' = 0 /\ lastKnown' = Unknown
    /\ newData' = FALSE /\ loop' = "idle" /\ firstCheck' = FALSE /\ todo' = <<>>
    /\ UNCHANGED <<database, delivered, history, faults, longBackOffs>>

Init ==
    /\ events = <<>> /\ outPos = 0
    /\ retry \in {NoRetry, [interval |-> "short", wait |-> "due"]}
    /\ destinationRooms = [r \in Rooms |-> 0]
    /\ lastSuccessful \in IF FirstContact THEN {Unknown, 0} ELSE {0}
    /\ processing = "idle" /\ nextToken = 0 /\ handlers = {}
    /\ queue = <<>> /\ catchingUp = TRUE /\ lastSkipped = 0 /\ lastKnown = Unknown
    /\ newData = FALSE /\ loop = "idle" /\ firstCheck = FALSE /\ todo = <<>>
    /\ delivered = {} /\ newest = 0 /\ offered = {}
    /\ faults = 0 /\ longBackOffs = 0 /\ crashes = 0

LoopStep ==
    \/ CheckLimiter \/ ReadLastSuccessful \/ LookForMissed \/ DecideOnCatchUp
    \/ TransactionSent \/ TransactionRefused \/ RecordCaughtUp \/ SelectPdus \/ MarkSent

Next ==
    \/ \E r \in Rooms : NewEvent(r)
    \/ Notify \/ ReadNewEvents \/ UpdateOutPos \/ ProcessingFails
    \/ \E h \in handlers : StoreDestinationRoom(h) \/ HandOver(h) \/ HandlerFails(h)
    \/ TimePasses \/ OtherRequestFails \/ RemoteServerUp
    \/ SendEdu \/ WakeDestination
    \/ LoopStep \/ TransactionFails \/ LoopFails
    \/ Restart

\* The loop's awaits return, back-offs run out, and the sender looks for
\* destinations to wake every minute.
Fairness == WF_vars(LoopStep) /\ WF_vars(TimePasses) /\ WF_vars(WakeDestination)

Spec == Init /\ [][Next]_vars /\ Fairness

-----------------------------------------------------------------------------
TypeOK ==
    /\ events \in Seq(Rooms) /\ Len(events) <= MaxEvents
    /\ outPos \in 0..Len(events)
    /\ destinationRooms \in [Rooms -> 0..MaxEvents]
    /\ lastSuccessful \in {Unknown} \union (0..MaxEvents)
    /\ retry \in [interval : {"none", "short", "long"}, wait : {"due", "soon", "far"}]
    /\ processing \in {"idle", "query", "handle"}
    /\ nextToken \in 0..Len(events)
    /\ handlers \subseteq Handlers
    /\ queue \in Seq(1..MaxEvents) /\ todo \in Seq(1..MaxEvents)
    /\ {catchingUp, newData, firstCheck} \subseteq BOOLEAN
    /\ lastSkipped \in 0..MaxEvents
    /\ lastKnown \in {Unknown} \union (0..MaxEvents)
    /\ loop \in {"idle", "limiter", "read_last", "look", "looked", "catch_up", "record", "select",
                 "send", "mark"}
    /\ delivered \subseteq 1..Len(events)
    /\ newest \in 0..MaxEvents /\ offered \subseteq 1..MaxEvents
    /\ faults \in 0..MaxFaults /\ longBackOffs \in 0..MaxLongBackOffs /\ crashes \in 0..MaxCrashes

\* The destination has the event or a later one of the room, from which it
\* finds the earlier ones.
Reached(e) == \E d \in delivered : events[d] = events[e] /\ d >= e

\* The event is still to be sent from the queue.
Queued(e) == \E i \in DOMAIN queue : queue[i] = e

\* Catch-up will come to the room of the event, before and after a restart.
AwaitsCatchUp(e) ==
    LET row == destinationRooms[events[e]]
    IN  catchingUp /\ row >= e /\ row > lastSuccessful /\ row > lastKnown

\* An event given to the queue in stream order is never forgotten, whatever
\* rooms are handled beside its own, handlers, transactions and database
\* calls fail, back-offs begin and end, and restarts empty the queue: until
\* the destination has it, it is queued, or catch-up is due and has its room
\* ahead of it.
EventsKept == \A e \in offered : Reached(e) \/ Queued(e) \/ AwaitsCatchUp(e)

\* What catch-up is documented to do: every event that the sender is done
\* with, in whatever order, is sent, queued or still to be caught up on.
NoEventForgotten == \A e \in 1..outPos : Reached(e) \/ Queued(e) \/ AwaitsCatchUp(e)

\* What last_successful_stream_ordering is documented to mean: the events up
\* to it have been sent, so that catch-up may start above it.
SentUpToLastSuccessful ==
    \A r \in Rooms : destinationRooms[r] \in 1..lastSuccessful => Reached(destinationRooms[r])

\* Once failures stop, the destination gets every event given to the queue in
\* stream order (and not overtaken since, which takes it out of offered).
EventsArrive ==
    \A e \in 1..MaxEvents : (e \in offered) ~> (e \in offered => Reached(e))
=============================================================================
