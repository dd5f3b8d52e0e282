---------------------------- MODULE TaskScheduler ----------------------------
(***************************************************************************)
(* The scheduler of background tasks: synapse/util/task_scheduler.py over  *)
(* the table scheduled_tasks.  One worker runs the tasks; any worker may   *)
(* schedule one.  Every action is registered, and functions return         *)
(* COMPLETE or FAILED, as all those of the repository do.                  *)
(***************************************************************************)
EXTENDS Integers, Sequences, FiniteSets, SequencesExt

CONSTANTS
    Capacity,           \* MAX_CONCURRENT_RUNNING_TASKS
    MaxTasks,           \* bound on the tasks
    MaxFaults,          \* bound on failing updates
    MaxRestarts         \* bound on restarts of the worker

Tasks == 1..MaxTasks
NoTask == 0

VARIABLES
    status,             \* scheduled_tasks.status, with COMPLETE and FAILED as "over"
    order,              \* the tasks by timestamp
    due,                \* tasks whose timestamp has passed
    commands,           \* NEW_ACTIVE_TASK on its way, if it arrives
    fetched,            \* rows that were read or inserted, about to be given to _launch_task
    running,            \* _running_tasks
    stage,              \* how far each of them is
    loop,               \* _launch_scheduled_tasks: its place, the rows left, the launch it waits for
    faults, restarts

vars == <<status, order, due, commands, fetched, running, stage, loop, faults, restarts>>

Resting == [at |-> "resting", todo |-> <<>>, launching |-> NoTask]
Unfinished == {"scheduled", "active"}

\* The rows ORDER BY timestamp LIMIT Capacity
Rows(selected) ==
    LET all == SelectSeq(order, LAMBDA t : t \in selected)
    IN  SubSeq(all, 1, IF Len(all) < Capacity THEN Len(all) ELSE Capacity)

Moved(t) == Append(SelectSeq(order, LAMBDA u : u # t), t)

\* Seeded fault: the callers have looked at the room already.
CanLaunchAnyway(t) == t \notin running

\* _launch_task up to its await: is there room, and is it not running?
CanLaunch(t) == Cardinality(running) < Capacity /\ t \notin running

Launch(t) ==
    /\ running' = running \union {t}
    /\ stage' = [stage EXCEPT ![t] = "starting"]

TryLaunch(t) ==
    IF CanLaunch(t) THEN Launch(t) ELSE UNCHANGED <<running, stage>>

\* Tasks are numbered in the order in which they are scheduled.
IsNext(t) == status[t] = "none" /\ \A u \in 1..t-1 : status[u] # "none"

\* schedule_task for a later time, on any worker
ScheduleLater(t) ==
    /\ IsNext(t)
    /\ status' = [status EXCEPT ![t] = "scheduled"]
    /\ order' = Append(order, t)
    /\ UNCHANGED <<due, commands, fetched, running, stage, loop, faults, restarts>>

\* ... for now, on the worker that runs tasks: insert_scheduled_task is awaited
ScheduleHere(t) ==
    /\ IsNext(t)
    /\ status' = [status EXCEPT ![t] = "active"]
    /\ order' = Append(order, t)
    /\ fetched' = fetched \union {t}
    /\ UNCHANGED <<due, commands, running, stage, loop, faults, restarts>>

\* ... and on another one: send_new_active_task
ScheduleElsewhere(t) ==
    /\ IsNext(t)
    /\ status' = [status EXCEPT ![t] = "active"]
    /\ order' = Append(order, t)
    /\ commands' = commands \union {t}
    /\ UNCHANGED <<due, fetched, running, stage, loop, faults, restarts>>

TimeComes(t) ==
    /\ status[t] = "scheduled" /\ t \notin due
    /\ due' = due \union {t}
    /\ UNCHANGED <<status, order, commands, fetched, running, stage, loop, faults, restarts>>

\* launch_task_by_id: get_task returns the row, whatever its status.
LaunchTaskById(t) ==
    /\ t \in commands
    /\ commands' = commands \ {t}
    /\ fetched' = IF Cardinality(running) < Capacity THEN fetched \union {t} ELSE fetched
    /\ UNCHANGED <<status, order, due, running, stage, loop, faults, restarts>>

\* The call of _launch_task, in schedule_task or _launch_task_by_id
LaunchFetched(t) ==
    /\ t \in fetched
    /\ fetched' = fetched \ {t}
    /\ TryLaunch(t)
    /\ UNCHANGED <<status, order, due, commands, loop, faults, restarts>>

-----------------------------------------------------------------------------
\* _launch_scheduled_tasks: every minute, and when a task is over.
LoopStart ==
    /\ loop.at = "resting"
    /\ Cardinality(running) < Capacity
    /\ loop' = [Resting EXCEPT !.at = "active", !.todo = Rows({t \in Tasks : status[t] = "active"})]
    /\ UNCHANGED <<status, order, due, commands, fetched, running, stage, faults, restarts>>

\* One row of the list: if the task is launched, its update is awaited.
LoopLaunch ==
    /\ loop.todo # <<>> /\ loop.launching = NoTask
    /\ LET t == Head(loop.todo)
       IN  /\ TryLaunch(t)
           /\ loop' = [loop EXCEPT !.todo = Tail(@),
                                   !.launching = IF CanLaunch(t) THEN t ELSE NoTask]
    /\ UNCHANGED <<status, order, due, commands, fetched, faults, restarts>>

\* The end of the first list, and of the second.
LoopTurn ==
    /\ loop.at # "resting" /\ loop.todo = <<>> /\ loop.launching = NoTask
    /\ loop' = IF loop.at = "active"
               THEN [Resting EXCEPT
                        !.at = "scheduled",
                        !.todo = Rows({t \in due : status[t] = "scheduled"})]
               ELSE Resting
    /\ UNCHANGED <<status, order, due, commands, fetched, running, stage, faults, restarts>>

-----------------------------------------------------------------------------
\* The loop goes on if it waits for t.
LoopGoesOn(t) == IF loop.launching = t THEN [loop EXCEPT !.launching = NoTask] ELSE loop

\* Seeded fault: the function starts although the row says otherwise.
StartUnrecorded(t) ==
    /\ stage[t] = "starting"
    /\ order' = Moved(t)
    /\ stage' = [stage EXCEPT ![t] = "executing"]
    /\ loop' = LoopGoesOn(t)
    /\ UNCHANGED <<status, due, commands, fetched, running, faults, restarts>>

\* update_task(status=ACTIVE), and wrapper starts.
Start(t) ==
    /\ stage[t] = "starting"
    /\ status' = [status EXCEPT ![t] = "active"]
    /\ order' = Moved(t)
    /\ due' = due \ {t}
    /\ stage' = [stage EXCEPT ![t] = "executing"]
    /\ loop' = LoopGoesOn(t)
    /\ UNCHANGED <<commands, fetched, running, faults, restarts>>

\* The update fails: the task stays in _running_tasks, and the exception
\* ends the loop, if that launched it.
StartFails(t) ==
    /\ stage[t] = "starting"
    /\ faults < MaxFaults                                       \* bound
    /\ faults' = faults + 1
    /\ stage' = [stage EXCEPT ![t] = "stuck"]
    /\ loop' = IF loop.launching = t THEN Resting ELSE loop
    /\ UNCHANGED <<status, order, due, commands, fetched, running, restarts>>

\* The function returns or raises, and update_scheduled_task is done ...
Record(t) ==
    /\ stage[t] = "executing"
    /\ status' = [status EXCEPT ![t] = "over"]
    /\ order' = Moved(t)
    /\ stage' = [stage EXCEPT ![t] = "recorded"]
    /\ UNCHANGED <<due, commands, fetched, running, loop, faults, restarts>>

\* ... or fails: the task stays in _running_tasks.
RecordFails(t) ==
    /\ stage[t] = "executing"
    /\ faults < MaxFaults                                       \* bound
    /\ faults' = faults + 1
    /\ stage' = [stage EXCEPT ![t] = "stuck"]
    /\ UNCHANGED <<status, order, due, commands, fetched, running, loop, restarts>>

\* Seeded fault: the task is not taken out of _running_tasks.
FinishKeeping(t) ==
    /\ stage[t] = "recorded"
    /\ stage' = [stage EXCEPT ![t] = "idle"]
    /\ UNCHANGED <<status, order, due, commands, fetched, running, loop, faults, restarts>>

Finish(t) ==
    /\ stage[t] = "recorded"
    /\ running' = running \ {t}
    /\ stage' = [stage EXCEPT ![t] = "idle"]
    /\ UNCHANGED <<status, order, due, commands, fetched, loop, faults, restarts>>

\* The worker dies and comes back: the table is what is left.
Restart ==
    /\ restarts < MaxRestarts                                   \* bound
    /\ restarts' = restarts + 1
    /\ running' = {} /\ fetched' = {} /\ commands' = {}
    /\ stage' = [t \in Tasks |-> "idle"]
    /\ loop' = Resting
    /\ UNCHANGED <<status, order, due, faults>>

-----------------------------------------------------------------------------
Init ==
    /\ status = [t \in Tasks |-> "none"]
    /\ order = <<>>
    /\ due = {} /\ commands = {} /\ fetched = {} /\ running = {}
    /\ stage = [t \in Tasks |-> "idle"]
    /\ loop = Resting
    /\ faults = 0 /\ restarts = 0

Loop == LoopStart \/ LoopLaunch \/ LoopTurn
Work(t) == Start(t) \/ Record(t) \/ Finish(t)

Next ==
    \/ Loop
    \/ Restart
    \/ \E t \in Tasks :
        \/ ScheduleLater(t) \/ ScheduleHere(t) \/ ScheduleElsewhere(t) \/ TimeComes(t)
        \/ LaunchTaskById(t) \/ LaunchFetched(t)
        \/ Work(t) \/ StartFails(t) \/ RecordFails(t)

\* The looping call goes on, time passes, and the functions of tasks end; a
\* command may never arrive.
Spec ==
    /\ Init /\ [][Next]_vars
    /\ WF_vars(Loop)
    /\ \A t \in Tasks : WF_vars(Work(t)) /\ WF_vars(TimeComes(t))

-----------------------------------------------------------------------------
\* Never more than Capacity at once, although three paths launch tasks.
TypeOK ==
    /\ Cardinality(running) <= Capacity
    /\ status \in [Tasks -> {"none", "over"} \union Unfinished]
    /\ order \in Seq(Tasks) /\ loop.todo \in Seq(Tasks)
    /\ due \union commands \union fetched \union running \subseteq Tasks
    /\ stage \in [Tasks -> {"idle", "starting", "executing", "recorded", "stuck"}]
    /\ loop.at \in {"resting", "active", "scheduled"} /\ loop.launching \in Tasks \union {NoTask}

\* A restart loses no work: whatever has been started and is not over is
\* ACTIVE in the table, so that the next process resumes it, however its row
\* was read, and a task is over only if its status says so.
WorkSurvivesRestart ==
    \A t \in Tasks :
        /\ stage[t] = "executing" => status[t] = "active"
        /\ stage[t] = "recorded" => status[t] = "over"
        /\ stage[t] # "idle" <=> t \in running

\* When no more tasks come, all of them have come to an end, whatever commands
\* were lost and however many tasks there were, except one whose row could not be
\* updated: it has to wait for a restart, and with Capacity of them all tasks have to.
Stuck == {t \in Tasks : stage[t] = "stuck"}
EveryTaskEnds ==
    <>[](\A t \in Tasks :
            status[t] \in Unfinished => t \in Stuck \/ Cardinality(Stuck) = Capacity)

=============================================================================
