-------------------------------- MODULE Queues --------------------------------
(***************************************************************************)
(* What lines up within a process: users of a Linearizer, events to        *)
(* persist, and background tasks.  The three share no state.               *)
(***************************************************************************)
EXTENDS Linearizer

CONSTANTS
    QueueTasks,                                             \* EventPersistenceQueue
    Capacity, MaxTasks, MaxTaskFaults, MaxTaskRestarts      \* TaskScheduler

VARIABLES
    added, taskKind, queue, persisting, item, done, outcome, answer,
    status, order, due, commands, fetched, running, stage, loop, taskFaults, taskRestarts

Epq == INSTANCE EventPersistenceQueue WITH MaxTasks <- QueueTasks, kind <- taskKind

Scheduler == INSTANCE TaskScheduler WITH
    MaxFaults <- MaxTaskFaults, MaxRestarts <- MaxTaskRestarts,
    faults <- taskFaults, restarts <- taskRestarts

epqVars == <<added, taskKind, queue, persisting, item, done, outcome, answer>>
taskVars == <<status, order, due, commands, fetched, running, stage, loop, taskFaults, taskRestarts>>

\* _EventPeristenceQueue: events are persisted once, in the order of arrival.
OrderOfArrival == Epq!OrderOfArrival
\* _EventPeristenceQueue: every caller learns what became of its own events.
EveryoneAnswered == Epq!EveryoneAnswered
\* TaskScheduler: what was started and is not over is resumed after a restart.
WorkSurvivesRestart == Scheduler!WorkSurvivesRestart
=============================================================================
