------------------------ MODULE EventPersistenceQueue ------------------------
(***************************************************************************)
(* The queue of tasks of one room in the process that persists its events: *)
(* _EventPeristenceQueue in synapse/storage/controllers/persist_events.py. *)
(* Rooms share nothing but the class.                                      *)
(*                                                                         *)
(* Tasks are numbered in the order in which add_to_queue is called.  The   *)
(* callers wait on the deferred of the item their task was merged into.    *)
(***************************************************************************)
EXTENDS Integers, Sequences

CONSTANT MaxTasks       \* bound on the tasks

Tasks == 1..MaxTasks
Kinds == {"new", "backfilled", "state"}
NoItem == <<>>

VARIABLES
    added,              \* number of tasks so far
    kind,               \* what they are to do
    queue,              \* _event_persist_queues[room_id]: items, each a sequence of tasks
    persisting,         \* is the room in _currently_persisting_rooms?
    item,               \* the item handle_queue_loop is at
    done,               \* the tasks whose item was processed, in order
    outcome,            \* what became of each of them
    answer              \* what its caller was told

vars == <<added, kind, queue, persisting, item, done, outcome, answer>>

\* Seeded fault: a task is merged into any item of its kind.
MergedAnywhere(t, k) ==
    LET fitting == {i \in DOMAIN queue : kind[queue[i][1]] = k}
    IN  IF fitting # {}
        THEN LET i == CHOOSE j \in fitting : TRUE
             IN  [queue EXCEPT ![i] = Append(@, t)]
        ELSE Append(queue, <<t>>)

\* try_merge with the last item, or an item of its own.
Merged(t, k) ==
    IF queue # <<>> /\ kind[queue[Len(queue)][1]] = k
    THEN [queue EXCEPT ![Len(queue)] = Append(@, t)]
    ELSE Append(queue, <<t>>)

\* add_to_queue and _handle_queue: if nobody handles the queue, the loop
\* starts at once and takes the item off the queue.
AddToQueue(k) ==
    LET t == added + 1
    IN  /\ added < MaxTasks                                     \* bound
        /\ added' = t
        /\ kind' = [kind EXCEPT ![t] = k]
        /\ IF persisting
           THEN queue' = Merged(t, k) /\ UNCHANGED <<persisting, item>>
           ELSE /\ persisting' = TRUE
                /\ item' = Merged(t, k)[1]
                /\ queue' = Tail(Merged(t, k))
        /\ UNCHANGED <<done, outcome, answer>>

\* The callback's database work: events are persisted in chunks, and what was
\* persisted before a chunk fails stays so.  n tasks are persisted as a whole.
Process(n) ==
    /\ item # NoItem
    /\ outcome[item[1]] = "none"
    /\ n \in 0..Len(item)
    /\ kind[item[1]] = "state" => n \in {0, Len(item)}
    /\ outcome' = [t \in Tasks |-> IF \E i \in 1..n : item[i] = t THEN "ok"
                                   ELSE IF \E i \in DOMAIN item : item[i] = t THEN "failed"
                                   ELSE outcome[t]]
    /\ done' = done \o item
    /\ UNCHANGED <<added, kind, queue, persisting, item, answer>>

\* The item's deferred is resolved: it has failed unless its last task was
\* persisted too.  The callers go on, and may come back with new tasks before
\* the loop takes the next item.
Answer ==
    /\ item # NoItem
    /\ outcome[item[1]] # "none"
    /\ answer' = [t \in Tasks |-> IF \E i \in DOMAIN item : item[i] = t
                                  THEN outcome[item[Len(item)]]
                                  ELSE answer[t]]
    /\ item' = NoItem
    /\ UNCHANGED <<added, kind, queue, persisting, done, outcome>>

\* Seeded fault: the loop ends after each item.
NextItemNone ==
    /\ persisting /\ item = NoItem
    /\ persisting' = FALSE
    /\ UNCHANGED <<added, kind, queue, item, done, outcome, answer>>

\* _get_drainining_queue: the next item, or the end of the loop.
NextItem ==
    /\ persisting /\ item = NoItem
    /\ IF queue # <<>>
       THEN item' = Head(queue) /\ queue' = Tail(queue) /\ UNCHANGED persisting
       ELSE persisting' = FALSE /\ UNCHANGED <<item, queue>>
    /\ UNCHANGED <<added, kind, done, outcome, answer>>

Init ==
    /\ added = 0
    /\ kind = [t \in Tasks |-> "none"]
    /\ queue = <<>> /\ persisting = FALSE /\ item = NoItem
    /\ done = <<>>
    /\ outcome = [t \in Tasks |-> "none"]
    /\ answer = [t \in Tasks |-> "none"]

LoopStep == (\E n \in 0..MaxTasks : Process(n)) \/ Answer \/ NextItem

Next == (\E k \in Kinds : AddToQueue(k)) \/ LoopStep

\* Database calls return.
Fairness == WF_vars(LoopStep)

Spec == Init /\ [][Next]_vars /\ Fairness

-----------------------------------------------------------------------------
TypeOK ==
    /\ added \in 0..MaxTasks
    /\ kind \in [Tasks -> Kinds \union {"none"}]
    /\ queue \in Seq(Seq(Tasks)) /\ item \in Seq(Tasks) /\ done \in Seq(Tasks)
    /\ persisting \in BOOLEAN
    /\ {outcome, answer} \subseteq [Tasks -> {"none", "ok", "failed"}]

\* The tasks of a room are handled once each, in the order in which they were
\* handed in, with other kinds of tasks in their place, whichever batches
\* they were merged into and whichever of those failed.
OrderOfArrival == \A i \in DOMAIN done : done[i] = i

\* The caller knows no better than is true, and fears nothing without cause:
\* its task was persisted, or one that may have been in its batch was not.
Told(t) ==
    /\ answer[t] # "none"
    /\ answer[t] = "ok" => outcome[t] = "ok"
    /\ answer[t] = "failed" => \E u \in t..added : outcome[u] = "failed"

\* No task is left in the queue and no caller without an answer: whenever the
\* loop is over, every caller has been told, and who was told that its events
\* were persisted was told the truth.
EveryoneAnswered == ~persisting => queue = <<>> /\ \A t \in 1..added : Told(t)
==============================================================================
