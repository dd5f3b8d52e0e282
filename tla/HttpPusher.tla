----------------------------- MODULE HttpPusher -----------------------------
(***************************************************************************)
(* Push notifications of one user to one push gateway: HttpPusher          *)
(* (synapse/push/httppusher.py) as the PusherPool starts, replaces and     *)
(* stops it (pusherpool.py), over the row of the table pushers             *)
(* (storage/databases/main/pusher.py).                                     *)
(*                                                                         *)
(* Every event notifies the user, is no highlight and is not redacted; its *)
(* number is its stream ordering.  A pusher that was replaced goes on with *)
(* what it is doing, next to the new one, so there may be several.         *)
(***************************************************************************)
EXTENDS Integers, Sequences, FiniteSetsExt, SequencesExt

CONSTANTS
    Limit,              \* push actions per query (20 in the code)
    MaxEvents,          \* bound on the events
    MaxPushers,         \* bound on the pusher objects of a process
    MaxFaults           \* bound on failing requests and database calls and on restarts

Events == 1..MaxEvents
Pushers == 1..MaxPushers
None == 0

VARIABLES
    latest,             \* the events so far
    receipt,            \* the user has read the events up to this one
    removed,            \* the rows of event_push_actions up to it were removed
    row,                \* the row of pushers
    pushers,            \* the HttpPusher objects
    pool,               \* the one in the PusherPool
    changed,            \* the row was added or found at the start: process_pusher_change_by_id
    owed,               \* history: the events since the row was added that were neither
                        \* taken by the gateway, nor read, given up or removed
    faults

vars == <<latest, receipt, removed, row, pushers, pool, changed, owed, faults>>

\* failing_since: "no", or whether it is longer ago than GIVE_UP_AFTER_MS
NoRow == [exists |-> FALSE, last |-> 0, failing |-> "no"]
Gone == [at |-> "gone", last |-> 0, max |-> 0, startingMax |-> 0, todo |-> <<>>, failing |-> "no",
         timed |-> FALSE, oldTimers |-> 0]

Unused == {p \in Pushers : pushers[p] = Gone}
Fault == faults < MaxFaults /\ faults' = faults + 1
Becomes(p, obj) == pushers' = [pushers EXCEPT ![p] = obj]

-----------------------------------------------------------------------------
(* Outside the pusher *)

NewEvent ==
    /\ latest < MaxEvents
    /\ latest' = latest + 1
    /\ owed' = owed \union {latest'}
    /\ UNCHANGED <<receipt, removed, row, pushers, pool, changed, faults>>

ReadReceipt ==
    /\ receipt < latest
    /\ receipt' = latest
    /\ owed' = {}
    /\ UNCHANGED <<latest, removed, row, pushers, pool, changed, faults>>

\* What has been failing for a short time has been for a long time.
TimePasses ==
    LET Aged(f) == IF f = "recent" THEN "long" ELSE f
    IN  /\ row' = [row EXCEPT !.failing = Aged(@)]
        /\ pushers' = [p \in Pushers |-> [pushers[p] EXCEPT !.failing = Aged(@)]]
        /\ <<row, pushers>>' # <<row, pushers>>
        /\ UNCHANGED <<latest, receipt, removed, pool, changed, owed, faults>>

\* The oldest row is deleted once it is counted: because it was read
\* (_handle_new_receipts_for_notifs_txn), or because it is more than a day old,
\* read or not (_remove_old_push_actions_that_have_rotated); only highlights
\* stay.  The age of a row is not modelled: any may get that old.
RemoveOldPushActions ==
    /\ removed < latest
    /\ removed' = removed + 1
    /\ owed' = owed \ {removed'}
    /\ UNCHANGED <<latest, receipt, row, pushers, pool, changed, faults>>

-----------------------------------------------------------------------------
(* PusherPool *)

\* A turn of the loop in _process, with its starting_max_ordering.
Turn(obj) == [obj EXCEPT !.at = "fetch", !.startingMax = obj.max]

StartProcessing(obj) == IF obj.at = "idle" THEN Turn(obj) ELSE obj

\* on_stop cancels the latest timer only.
Stopped(obj) == [obj EXCEPT !.timed = FALSE]

\* add_or_update_pusher: it has read the position of the stream two awaits
\* before the upsert, which leaves failing_since as it is.
AddOrUpdatePusher ==
    /\ ~changed /\ Unused # {}                                  \* bound
    /\ \E position \in 0 .. latest :
          /\ row' = [row EXCEPT !.exists = TRUE, !.last = position]
          /\ owed' = owed \ (1 .. position)
    /\ changed' = TRUE
    /\ UNCHANGED <<latest, receipt, removed, pushers, pool, faults>>

\* process_pusher_change_by_id and _start_pusher: the previous one is stopped.
StartPusher ==
    /\ changed
    /\ changed' = FALSE
    /\ LET new == [Gone EXCEPT !.at = "idle", !.last = row.last, !.max = latest, !.failing = row.failing]
       IN  IF row.exists
           THEN /\ pushers' = [p \in Pushers |->
                      IF p = Min(Unused) THEN StartProcessing(new)
                      ELSE IF p = pool THEN Stopped(pushers[p]) ELSE pushers[p]]
                /\ pool' = Min(Unused)
           ELSE UNCHANGED <<pushers, pool>>
    /\ UNCHANGED <<latest, receipt, removed, row, owed, faults>>

OnNewNotifications ==
    /\ pool # None /\ pushers[pool].max < latest
    /\ Becomes(pool, StartProcessing([pushers[pool] EXCEPT !.max = latest]))
    /\ UNCHANGED <<latest, receipt, removed, row, pool, changed, owed, faults>>

-----------------------------------------------------------------------------
(* HttpPusher *)

\* on_timer, for the latest timer and for those it has replaced
OnTimer(p) ==
    /\ \/ /\ pushers[p].timed
          /\ Becomes(p, StartProcessing([pushers[p] EXCEPT !.timed = FALSE]))
       \/ /\ pushers[p].oldTimers > 0
          /\ Becomes(p, StartProcessing([pushers[p] EXCEPT !.oldTimers = @ - 1]))
    /\ UNCHANGED <<latest, receipt, removed, row, pool, changed, owed, faults>>

\* _unsafe_process is over: again, if there is something new.
EndOfRound(obj) ==
    LET ended == [obj EXCEPT !.todo = <<>>, !.startingMax = 0]
    IN  IF obj.max = obj.startingMax THEN [ended EXCEPT !.at = "idle"] ELSE Turn(ended)

\* The loop over push actions goes on after the first one.
NextAction(obj) ==
    IF Len(obj.todo) > 1 THEN [obj EXCEPT !.at = "push", !.todo = Tail(@)] ELSE EndOfRound(obj)

\* The rows of event_push_actions that are left come after this one.
RowsAfter(obj) == Max({obj.last, removed})

\* Seeded fault: the newest rows of the range.
UnprocessedNewest(from, upto) ==
    LET first == Max({from, receipt, upto - Limit})
    IN  [k \in 1 .. upto - first |-> first + k]

\* get_unread_push_actions_for_user_in_range_for_http: the oldest rows of the
\* range, and then only those that were not read.
Unprocessed(from, upto) ==
    LET first == Max({from, receipt})
    IN  [k \in 1 .. Min({from + Limit, upto}) - first |-> first + k]

Fetch(p) ==
    LET obj == pushers[p]
        todo == Unprocessed(RowsAfter(obj), obj.startingMax)
    IN  /\ obj.at = "fetch"
        /\ Becomes(p, IF todo = <<>> THEN EndOfRound(obj) ELSE [obj EXCEPT !.at = "push", !.todo = todo])
        /\ UNCHANGED <<latest, receipt, removed, row, pool, changed, owed, faults>>

\* _process_one succeeds, the gateway has taken it: last_stream_ordering
\* moves in memory first.
Processed(obj) == [obj EXCEPT !.at = "store", !.last = Head(obj.todo)]

PushSent(p) ==
    /\ pushers[p].at = "push"
    /\ owed' = owed \ {Head(pushers[p].todo)}
    /\ Becomes(p, Processed(pushers[p]))
    /\ UNCHANGED <<latest, receipt, removed, row, pool, changed, faults>>

\* The gateway rejects the key: remove_pusher stops whoever is in the pool.
PushRejected(p) ==
    /\ pushers[p].at = "push"
    /\ owed' = owed \ {Head(pushers[p].todo)}
    /\ pushers' = [q \in Pushers |->
          LET obj == IF q = pool THEN Stopped(pushers[q]) ELSE pushers[q]
          IN  IF q = p THEN [obj EXCEPT !.at = "remove"] ELSE obj]
    /\ pool' = None
    /\ UNCHANGED <<latest, receipt, removed, row, changed, faults>>

DeletePusher(p) ==
    /\ pushers[p].at = "remove"
    /\ row' = NoRow
    /\ Becomes(p, Processed(pushers[p]))
    /\ UNCHANGED <<latest, receipt, removed, pool, changed, owed, faults>>

\* update_pusher_last_stream_ordering_and_success, and whether the row is there
StorePosition(p) ==
    LET obj == pushers[p]
    IN  /\ obj.at = "store"
        /\ IF row.exists
           THEN /\ row' = [row EXCEPT !.last = obj.last]
                /\ Becomes(p, IF obj.failing = "no" THEN NextAction(obj)
                              ELSE [obj EXCEPT !.at = "clear", !.failing = "no"])
           ELSE Becomes(p, EndOfRound(Stopped(obj))) /\ UNCHANGED row
        /\ UNCHANGED <<latest, receipt, removed, pool, changed, owed, faults>>

\* update_pusher_failing_since with None
ClearFailing(p) ==
    /\ pushers[p].at = "clear"
    /\ row' = IF row.exists THEN [row EXCEPT !.failing = "no"] ELSE row
    /\ Becomes(p, NextAction(pushers[p]))
    /\ UNCHANGED <<latest, receipt, removed, pool, changed, owed, faults>>

\* The request fails, or its answer is lost: the gateway is not known to have
\* taken it.
PushFails(p) ==
    LET obj == pushers[p]
    IN  /\ obj.at = "push" /\ Fault
        /\ Becomes(p, IF obj.failing = "no" THEN [obj EXCEPT !.at = "failing", !.failing = "recent"]
                      ELSE [obj EXCEPT !.at = "failed"])
        /\ UNCHANGED <<latest, receipt, removed, row, pool, changed, owed>>

\* update_pusher_failing_since with the time
StoreFailing(p) ==
    /\ pushers[p].at = "failing"
    /\ row' = IF row.exists THEN [row EXCEPT !.failing = pushers[p].failing] ELSE row
    /\ Becomes(p, [pushers[p] EXCEPT !.at = "failed"])
    /\ UNCHANGED <<latest, receipt, removed, pool, changed, owed, faults>>

\* Try again later, with a new timer
Delay(p) ==
    LET obj == pushers[p]
    IN  /\ obj.at = "failed" /\ obj.failing # "long"
        /\ Becomes(p, EndOfRound([obj EXCEPT !.timed = TRUE,
                                             !.oldTimers = IF obj.timed THEN @ + 1 ELSE @]))
        /\ UNCHANGED <<latest, receipt, removed, row, pool, changed, owed, faults>>

\* "Giving up on a notification"
GiveUp(p) ==
    LET obj == pushers[p]
    IN  /\ obj.at = "failed" /\ obj.failing = "long"
        /\ owed' = owed \ {Head(obj.todo)}
        /\ Becomes(p, [obj EXCEPT !.at = "skip", !.last = Head(obj.todo)])
        /\ UNCHANGED <<latest, receipt, removed, row, pool, changed, faults>>

\* update_pusher_last_stream_ordering, which raises if there is no row
StoreSkipped(p) ==
    LET obj == pushers[p]
    IN  /\ obj.at = "skip"
        /\ IF row.exists
           THEN /\ row' = [row EXCEPT !.last = obj.last]
                /\ Becomes(p, [obj EXCEPT !.at = "clear", !.failing = "no"])
           ELSE Becomes(p, EndOfRound(obj)) /\ UNCHANGED row
        /\ UNCHANGED <<latest, receipt, removed, pool, changed, owed, faults>>

\* "Exception processing notifs"
ProcessFails(p) ==
    /\ pushers[p].at \in {"fetch", "push", "remove", "store", "clear", "failing", "skip"} /\ Fault
    /\ Becomes(p, EndOfRound(pushers[p]))
    /\ UNCHANGED <<latest, receipt, removed, row, pool, changed, owed>>

-----------------------------------------------------------------------------
\* The process stops, and _start_pushers finds the row.
Restart ==
    /\ Fault
    /\ pushers' = [p \in Pushers |-> Gone]
    /\ pool' = None
    /\ changed' = row.exists
    /\ UNCHANGED <<latest, receipt, removed, row, owed>>

Init ==
    /\ latest = 0 /\ receipt = 0 /\ removed = 0
    /\ row = NoRow
    /\ pushers = [p \in Pushers |-> Gone]
    /\ pool = None /\ changed = FALSE
    /\ owed = {}
    /\ faults = 0

Process(p) ==
    \/ Fetch(p) \/ PushSent(p) \/ PushRejected(p) \/ DeletePusher(p) \/ StorePosition(p)
    \/ ClearFailing(p) \/ PushFails(p) \/ StoreFailing(p) \/ Delay(p) \/ GiveUp(p) \/ StoreSkipped(p)

Next ==
    \/ NewEvent \/ ReadReceipt \/ TimePasses \/ RemoveOldPushActions
    \/ AddOrUpdatePusher \/ StartPusher \/ OnNewNotifications
    \/ \E p \in Pushers : OnTimer(p) \/ Process(p) \/ ProcessFails(p)
    \/ Restart

Spec == Init /\ [][Next]_vars

-----------------------------------------------------------------------------
TypeOK ==
    /\ latest \in 0 .. MaxEvents /\ receipt \in 0 .. latest /\ removed \in 0 .. latest
    /\ row \in [exists : BOOLEAN, last : 0 .. MaxEvents, failing : {"no", "recent", "long"}]
    /\ pool \in Pushers \union {None} /\ changed \in BOOLEAN
    /\ \A p \in Pushers :
        /\ pushers[p].at \in {"gone", "idle", "fetch", "push", "remove", "store", "clear", "failing",
                              "failed", "skip"}
        /\ pushers[p].todo \in Seq(Events)
        /\ pushers[p].last <= latest /\ pushers[p].max <= latest
    /\ owed \subseteq 1 .. latest

\* The position in the database steps over no notification: each event since
\* the pusher was added, up to it, was taken by the gateway, or read by the
\* user, or given up after failing for long, or its row was removed when it was
\* more than a day old, whatever fails, and although a replaced pusher writes
\* the same row as its successor.
NothingSteppedOver == row.exists => \A e \in owed : e > row.last
=============================================================================
