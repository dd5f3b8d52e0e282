------------------------ MODULE AppServiceScheduler ------------------------
(***************************************************************************)
(* From the events stream to one application service                       *)
(* (synapse/handlers/appservice.py, synapse/appservice/scheduler.py,       *)
(* synapse/storage/databases/main/appservice.py): the loop that hands      *)
(* events over, the queuer, the transaction controller, recoverers, and    *)
(* what of it is in the database.                                          *)
(*                                                                         *)
(* Every event is of interest to the service, and they are in one room.    *)
(* Ephemeral events, to-device messages and device lists, which are never  *)
(* sent again, are left out.                                               *)
(***************************************************************************)
EXTENDS Integers, Sequences, FiniteSetsExt, SequencesExt

CONSTANTS
    MaxEvents, MaxTxns,     \* bounds on events and transactions
    RoundLimit, TxnLimit,   \* events in a round of the handler, in a transaction
    MaxRecoverers,          \* bound on the recoverers of a process
    MaxFaults,              \* bound on database calls that fail
    MaxRestarts             \* bound on restarts

Events == 1..MaxEvents
Txns == 1..MaxTxns
Recoverers == 1..MaxRecoverers
None == 0

VARIABLES
    currentMax,         \* the events stream (current_max)
    lastPos,            \* appservice_stream_position
    round,              \* the round of _notify_interested_services
    boot,               \* start(): "no", "starting", "done" or "failed"
    queued,             \* queued_events
    sender,             \* _send_request, with send() of the controller
    txns, lastTxn,      \* application_services_txns: the events of a transaction; its ids
    state,              \* application_services_state
    failing, starting,  \* _on_txn_fail: before the state is set, before the recoverer is started
    recoverers,         \* the recoverers, by number
    registered,         \* the one in the dictionary
    received,           \* events that the service has received
    dropped,            \* history: events lost with the process or a failed call
    faults, restarts

serviceVars == <<currentMax, lastPos, round, boot, queued, sender, txns, lastTxn, state, failing, starting,
          recoverers, registered, received, dropped, faults, restarts>>

handlerVars == <<currentMax, lastPos, round, boot>>
recovererVars == <<failing, starting, recoverers, registered>>

NoRound == [at |-> "idle", upper |-> 0, todo |-> <<>>]
Idle == [at |-> "idle", up |-> FALSE, events |-> <<>>, txn |-> None]
Gone == [at |-> "none", txn |-> None]
Waiting == [at |-> "waiting", txn |-> None]

Stored == {t \in Txns : txns[t] # <<>>}

Fault == faults < MaxFaults /\ faults' = faults + 1

-----------------------------------------------------------------------------
(* ApplicationServicesHandler *)

NewEvent ==
    /\ currentMax < MaxEvents
    /\ currentMax' = currentMax + 1
    /\ UNCHANGED <<lastPos, round, boot, queued, sender, txns, lastTxn, state, recovererVars, received,
                   dropped, faults, restarts>>

\* notify_interested_services, and the turn of the loop.  It runs when it is
\* notified; that it need not wait for that here only adds behaviours.
ReadNewEvents ==
    /\ round.at = "idle" /\ lastPos < currentMax
    /\ LET upper == Min({currentMax, lastPos + RoundLimit})
       IN  round' = [at |-> "events", upper |-> upper,
                     todo |-> [k \in 1 .. upper - lastPos |-> lastPos + k]]
    /\ UNCHANGED <<currentMax, lastPos, boot, queued, sender, txns, lastTxn, state, recovererVars,
                   received, dropped, faults, restarts>>

\* The first transaction of a queue, and an idle sender if there is none.
NextTxn(q) ==
    IF q = <<>> THEN Idle
    ELSE [Idle EXCEPT !.at = "check", !.events = SubSeq(q, 1, Min({TxnLimit, Len(q)}))]

AfterNextTxn(q) == SubSeq(q, TxnLimit + 1, Len(q))

\* handle_event: start() with the first event, then enqueue_for_appservice.
HandleEvent ==
    /\ round.at = "events" /\ round.todo # <<>>
    /\ round' = [round EXCEPT !.todo = Tail(@)]
    /\ boot' = IF boot = "no" THEN "starting" ELSE boot
    /\ LET q == Append(queued, Head(round.todo))
       IN  IF sender.at = "idle"
           THEN sender' = NextTxn(q) /\ queued' = AfterNextTxn(q)
           ELSE queued' = q /\ UNCHANGED sender
    /\ UNCHANGED <<currentMax, lastPos, txns, lastTxn, state, recovererVars, received, dropped, faults,
                   restarts>>

\* set_appservice_last_pos
SetLastPos ==
    /\ round.at = "events" /\ round.todo = <<>>
    /\ lastPos' = round.upper
    /\ round' = NoRound
    /\ UNCHANGED <<currentMax, boot, queued, sender, txns, lastTxn, state, recovererVars, received,
                   dropped, faults, restarts>>

\* The loop fails; the events it has handed over will come again.
RoundFails ==
    /\ round.at = "events" /\ Fault
    /\ round' = NoRound
    /\ UNCHANGED <<currentMax, lastPos, boot, queued, sender, txns, lastTxn, state, recovererVars,
                   received, dropped, restarts>>

-----------------------------------------------------------------------------
(* _ServiceQueuer and _TransactionController *)

\* The loop of _send_request goes on.
NextRequest ==
    /\ sender' = NextTxn(queued)
    /\ queued' = AfterNextTxn(queued)

\* _is_service_up
CheckUp ==
    /\ sender.at = "check"
    /\ sender' = [sender EXCEPT !.at = "create", !.up = (state = "up")]
    /\ UNCHANGED <<handlerVars, queued, txns, lastTxn, state, recovererVars, received, dropped,
                   faults, restarts>>

\* create_appservice_txn; a service that is down is left to its recoverer.
CreateTxn ==
    /\ sender.at = "create" /\ lastTxn < MaxTxns
    /\ lastTxn' = lastTxn + 1
    /\ txns' = [txns EXCEPT ![lastTxn + 1] = sender.events]
    /\ IF sender.up
       THEN sender' = [sender EXCEPT !.at = "send", !.txn = lastTxn + 1] /\ UNCHANGED queued
       ELSE NextRequest
    /\ UNCHANGED <<handlerVars, state, recovererVars, received, dropped, faults, restarts>>

\* _is_service_up or create_appservice_txn raises: the events are gone.
CreateFails ==
    /\ sender.at \in {"check", "create"} /\ Fault
    /\ dropped' = dropped \union ToSet(sender.events)
    /\ failing' = failing + 1
    /\ NextRequest
    /\ UNCHANGED <<handlerVars, txns, lastTxn, state, starting, recoverers, registered, received, restarts>>

\* txn.send: the service gets it and answers; or its answer, if any, is lost.
Send(sent) ==
    /\ sender.at = "send"
    /\ \E arrived \in {TRUE, sent} :
          received' = IF arrived THEN received \union ToSet(sender.events) ELSE received
    /\ IF sent
       THEN sender' = [sender EXCEPT !.at = "complete"] /\ UNCHANGED <<queued, failing>>
       ELSE NextRequest /\ failing' = failing + 1
    /\ UNCHANGED <<handlerVars, txns, lastTxn, state, starting, recoverers, registered, dropped, faults,
                   restarts>>

\* complete_appservice_txn
Complete ==
    /\ sender.at = "complete"
    /\ txns' = [txns EXCEPT ![sender.txn] = <<>>]
    /\ NextRequest
    /\ UNCHANGED <<handlerVars, lastTxn, state, recovererVars, received, dropped, faults, restarts>>

CompleteFails ==
    /\ sender.at = "complete" /\ Fault
    /\ failing' = failing + 1
    /\ NextRequest
    /\ UNCHANGED <<handlerVars, txns, lastTxn, state, starting, recoverers, registered, received, dropped,
                   restarts>>

-----------------------------------------------------------------------------
(* _on_txn_fail and start: they start recoverers *)

\* start_recoverer, with its assertion
StartRecoverer ==
    LET free == {r \in Recoverers : recoverers[r] = Gone}
    IN  IF registered # None
        THEN UNCHANGED <<recoverers, registered>>
        ELSE /\ free # {}                                       \* bound
             /\ recoverers' = [recoverers EXCEPT ![Min(free)] = Waiting]
             /\ registered' = Min(free)

SetDown ==
    /\ failing > 0
    /\ failing' = failing - 1
    /\ starting' = starting + 1
    /\ state' = "down"
    /\ UNCHANGED <<handlerVars, queued, sender, txns, lastTxn, recoverers, registered, received, dropped,
                   faults, restarts>>

\* "Error starting AS recoverer"
SetDownFails ==
    /\ failing > 0 /\ Fault
    /\ failing' = failing - 1
    /\ UNCHANGED <<handlerVars, queued, sender, txns, lastTxn, state, starting, recoverers, registered,
                   received, dropped, restarts>>

AfterSetDown ==
    /\ starting > 0
    /\ starting' = starting - 1
    /\ StartRecoverer
    /\ UNCHANGED <<handlerVars, queued, sender, txns, lastTxn, state, failing, received, dropped, faults,
                   restarts>>

\* start: recoverers for the services that are down
StartScheduler ==
    /\ boot = "starting"
    /\ boot' = "done"
    /\ IF state = "down" THEN StartRecoverer ELSE UNCHANGED <<recoverers, registered>>
    /\ UNCHANGED <<currentMax, lastPos, round, queued, sender, txns, lastTxn, state, failing, starting,
                   received, dropped, faults, restarts>>

StartSchedulerFails ==
    /\ boot = "starting" /\ Fault
    /\ boot' = "failed"
    /\ UNCHANGED <<currentMax, lastPos, round, queued, sender, txns, lastTxn, state, recovererVars,
                   received, dropped, restarts>>

-----------------------------------------------------------------------------
(* _Recoverer *)

Becomes(r, rec) == recoverers' = [recoverers EXCEPT ![r] = rec]

\* retry, when the delay is over and after each transaction: the oldest one
Look(r) ==
    /\ recoverers[r].at \in {"waiting", "look"} /\ Stored # {}
    /\ Becomes(r, [at |-> "send", txn |-> Min(Stored)])
    /\ UNCHANGED <<handlerVars, queued, sender, txns, lastTxn, state, failing, starting, registered,
                   received, dropped, faults, restarts>>

\* Seeded fault: the recoverer stays in the dictionary.
NothingLeftKept(r) ==
    /\ recoverers[r].at \in {"waiting", "look"} /\ Stored = {}
    /\ Becomes(r, [at |-> "up", txn |-> None])
    /\ UNCHANGED <<handlerVars, queued, sender, txns, lastTxn, state, failing, starting, registered,
                   received, dropped, faults, restarts>>

\* on_recovered: pop() takes whichever recoverer is there, and raises if none is.
NothingLeft(r) ==
    /\ recoverers[r].at \in {"waiting", "look"} /\ Stored = {}
    /\ Becomes(r, IF registered = None THEN Waiting ELSE [at |-> "up", txn |-> None])
    /\ registered' = None
    /\ UNCHANGED <<handlerVars, queued, sender, txns, lastTxn, state, failing, starting, received,
                   dropped, faults, restarts>>

SetUp(r) ==
    /\ recoverers[r].at = "up"
    /\ state' = "up"
    /\ Becomes(r, Gone)
    /\ UNCHANGED <<handlerVars, queued, sender, txns, lastTxn, failing, starting, registered, received,
                   dropped, faults, restarts>>

\* Seeded fault: a transaction that was not sent counts as sent.
ResendUnchecked(r, sent) ==
    /\ recoverers[r].at = "send"
    /\ \E arrived \in {TRUE, sent} :
          received' = IF arrived THEN received \union ToSet(txns[recoverers[r].txn]) ELSE received
    /\ Becomes(r, [recoverers[r] EXCEPT !.at = "complete"])
    /\ UNCHANGED <<handlerVars, queued, sender, txns, lastTxn, state, failing, starting, registered,
                   dropped, faults, restarts>>

\* The transaction was read in Look.  When its row is gone by now, somebody
\* else has sent it: its events are received already.
Resend(r, sent) ==
    /\ recoverers[r].at = "send"
    /\ \E arrived \in {TRUE, sent} :
          received' = IF arrived THEN received \union ToSet(txns[recoverers[r].txn]) ELSE received
    /\ Becomes(r, IF sent THEN [recoverers[r] EXCEPT !.at = "complete"] ELSE Waiting)
    /\ UNCHANGED <<handlerVars, queued, sender, txns, lastTxn, state, failing, starting, registered,
                   dropped, faults, restarts>>

CompleteResent(r) ==
    /\ recoverers[r].at = "complete"
    /\ txns' = [txns EXCEPT ![recoverers[r].txn] = <<>>]
    /\ Becomes(r, [at |-> "look", txn |-> None])
    /\ UNCHANGED <<handlerVars, queued, sender, lastTxn, state, failing, starting, registered, received,
                   dropped, faults, restarts>>

\* A database call of retry or on_recovered fails: _backoff.
RetryFails(r) ==
    /\ recoverers[r].at \in {"waiting", "look", "complete", "up"} /\ Fault
    /\ Becomes(r, Waiting)
    /\ UNCHANGED <<handlerVars, queued, sender, txns, lastTxn, state, failing, starting, registered,
                   received, dropped, restarts>>

-----------------------------------------------------------------------------
\* The process stops, and starts again from the database.
Restart ==
    /\ restarts < MaxRestarts
    /\ restarts' = restarts + 1
    /\ dropped' = dropped \union
          {e \in 1 .. lastPos : e \in ToSet(queued) \/ (e \in ToSet(sender.events) /\ sender.txn = None)}
    /\ round' = NoRound
    /\ boot' = "no"
    /\ queued' = <<>>
    /\ sender' = Idle
    /\ failing' = 0
    /\ starting' = 0
    /\ recoverers' = [r \in Recoverers |-> Gone]
    /\ registered' = None
    /\ UNCHANGED <<currentMax, lastPos, txns, lastTxn, state, received, faults>>

ServiceInit ==
    /\ currentMax = 0
    /\ lastPos = 0
    /\ round = NoRound
    /\ boot = "no"
    /\ queued = <<>>
    /\ sender = Idle
    /\ txns = [t \in Txns |-> <<>>]
    /\ lastTxn = 0
    /\ state = "up"
    /\ failing = 0
    /\ starting = 0
    /\ recoverers = [r \in Recoverers |-> Gone]
    /\ registered = None
    /\ received = {}
    /\ dropped = {}
    /\ faults = 0
    /\ restarts = 0

Recover(r) ==
    \/ Look(r)
    \/ NothingLeft(r)
    \/ SetUp(r)
    \/ \E sent \in BOOLEAN : Resend(r, sent)
    \/ CompleteResent(r)

ServiceNext ==
    \/ NewEvent
    \/ ReadNewEvents
    \/ HandleEvent
    \/ SetLastPos
    \/ RoundFails
    \/ CheckUp
    \/ CreateTxn
    \/ CreateFails
    \/ \E sent \in BOOLEAN : Send(sent)
    \/ Complete
    \/ CompleteFails
    \/ SetDown
    \/ SetDownFails
    \/ AfterSetDown
    \/ StartScheduler
    \/ StartSchedulerFails
    \/ \E r \in Recoverers : Recover(r) \/ RetryFails(r)
    \/ Restart

ServiceSpec == ServiceInit /\ [][ServiceNext]_serviceVars

-----------------------------------------------------------------------------
ServiceTypeOK ==
    /\ currentMax \in 0 .. MaxEvents
    /\ lastPos \in 0 .. currentMax
    /\ round.at \in {"idle", "events"}
    /\ boot \in {"no", "starting", "done", "failed"}
    /\ queued \in Seq(Events)
    /\ sender.at \in {"idle", "check", "create", "send", "complete"}
    /\ state \in {"up", "down"}
    /\ failing \in Nat /\ starting \in Nat
    /\ recoverers \in [Recoverers -> [at : {"none", "waiting", "look", "send", "complete", "up"},
                                      txn : Txns \union {None}]]
    /\ registered \in Recoverers \union {None}
    /\ received \subseteq Events /\ dropped \subseteq Events

\* An event the handler is done with has been received by the service, or is
\* in memory, or in a transaction in the database, whatever was sent twice or
\* by both the queuer and a recoverer; only what had not reached the database
\* is lost with the process or with a failed call.
NothingForgotten ==
    \A e \in 1 .. lastPos :
        \/ e \in received \union dropped \union ToSet(queued) \union ToSet(sender.events)
        \/ \E t \in Stored : e \in ToSet(txns[t])

\* The queuer leaves a service that is down alone, so somebody has to recover
\* it: a recoverer is there, or is about to be started.
DownIsRecovered ==
    state = "down" /\ boot = "done" =>
        starting > 0 \/ \E r \in Recoverers : recoverers[r] # Gone
=============================================================================
