-------------------------------- MODULE Locks --------------------------------
(***************************************************************************)
(* The lock within a process (ReadWriteLock) and the lock between workers  *)
(* (WorkerLock) side by side; they share no state.                         *)
(***************************************************************************)
EXTENDS ReadWriteLock

CONSTANTS
    Workers, LockUsers, Homes, RenewEvery, Timeout, MaxDelay, MaxLate, MaxCrashes

VARIABLES
    home, row, lockPc, lookedAt, askAge, renewIn, live, acquiring, late, confused, crashes

Lock == INSTANCE WorkerLock WITH Users <- LockUsers, pc <- lockPc

lockVars == <<home, row, lockPc, lookedAt, askAge, renewIn, live, acquiring, late, confused, crashes>>

\* LockStore: who renews in time keeps the lock.
KeptInTime == Lock!KeptInTime
=============================================================================
