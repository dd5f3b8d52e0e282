-------------------------------- MODULE MCLive --------------------------------
(***************************************************************************)
(* What replication, the task scheduler and the worker lock must get done  *)
(* in the end, for TLC, in one run: each behaviour is one of the component *)
(* in focus, and the others stay as they are.                              *)
(***************************************************************************)
EXTENDS Replication, TLC

CONSTANTS
    Foci,                                                   \* the components of the run
    a, b,
    Capacity, MaxTasks, MaxTaskFaults, MaxTaskRestarts,     \* TaskScheduler
    Workers, LockUsers, Homes, RenewEvery, Timeout, MaxDelay, MaxLate, MaxCrashes  \* WorkerLock

VARIABLES
    focus,
    status, order, due, commands, fetched, running, stage, loop, taskFaults, taskRestarts,
    home, row, pc, lookedAt, askAge, renewIn, live, acquiring, late, confused, crashes

taskVars == <<status, order, due, commands, fetched, running, stage, loop, taskFaults, taskRestarts>>
lockVars == <<home, row, pc, lookedAt, askAge, renewIn, live, acquiring, late, confused, crashes>>
liveVars == <<focus, vars, taskVars, lockVars>>

\* The users of the worker lock are on two workers, or on one.
Spread == <<"w1", "w1", "w2">>
Together == <<"w1", "w1", "w1">>
SpreadOrTogether == {Spread, Together}

Scheduler == INSTANCE TaskScheduler WITH
    MaxFaults <- MaxTaskFaults, MaxRestarts <- MaxTaskRestarts,
    faults <- taskFaults, restarts <- taskRestarts
Lock == INSTANCE WorkerLock WITH Users <- LockUsers

LiveInit ==
    /\ focus \in Foci
    /\ Init /\ Scheduler!Init /\ Lock!Init
    /\ focus # "lock" => home = Together

LiveNext ==
    /\ UNCHANGED focus
    /\ \/ focus = "replication" /\ AloneNext /\ UNCHANGED <<taskVars, lockVars>>
       \/ focus = "scheduler" /\ Scheduler!Next /\ UNCHANGED <<vars, lockVars>>
       \/ focus = "lock" /\ Lock!Next /\ UNCHANGED <<vars, taskVars>>

\* The fairness of each component, in focus.
LiveFairness ==
    /\ WF_vars(focus = "replication" /\ Progress)
    /\ WF_taskVars(focus = "scheduler" /\ Scheduler!Loop)
    /\ \A t \in Scheduler!Tasks : WF_taskVars(focus = "scheduler" /\ Scheduler!Work(t))
    /\ WF_taskVars(focus = "scheduler" /\ \E t \in Scheduler!Tasks : Scheduler!TimeComes(t))
    /\ SF_lockVars(focus = "lock" /\ Lock!Tick)
    /\ \A u \in LockUsers : WF_lockVars(focus = "lock" /\ Lock!Proceed(u))

LiveSpec == LiveInit /\ [][LiveNext]_liveVars /\ LiveFairness

-----------------------------------------------------------------------------
\* TaskScheduler: every task comes to an end, unless an update of its row failed.
EveryTaskEnds == Scheduler!EveryTaskEnds
\* WaitingLock: everyone gets the lock in the end.
EveryoneGetsLock == Lock!EveryoneGetsLock
=============================================================================
