----------------------------- MODULE WorkerLock -----------------------------
(***************************************************************************)
(* The distributed lock of LockStore and Lock                              *)
(* (synapse/storage/databases/main/lock.py) as WaitingLock waits for it    *)
(* (synapse/handlers/worker_lock.py): one lock, users on several workers,  *)
(* one row of worker_locks.  A user is one use of acquire_lock, and stands *)
(* for its Lock object and token.                                          *)
(*                                                                         *)
(* Times are kept as ages, in steps of RenewEvery's unit.  The steps of a  *)
(* user are no later than MaxDelay, unless it is in late.                  *)
(***************************************************************************)
EXTENDS Integers, FiniteSets

CONSTANTS
    Workers,
    Users,              \* numbers
    Homes,              \* the ways in which users may be spread over workers
    RenewEvery,         \* _RENEWAL_INTERVAL_MS
    Timeout,            \* _LOCK_TIMEOUT_MS
    MaxDelay,           \* bound on the delay of a database call
    MaxLate,            \* bound on the users that are not in time
    MaxCrashes          \* bound on crashes

NoUser == 0
Dead == "dead"          \* the instance id of a process that is gone
NoRow == [token |-> NoUser, instance |-> Dead, age |-> 0]

\* Ages beyond these make no difference.
MaxAsk == Timeout + 1
MaxAge == Timeout + MaxAsk + 1

VARIABLES
    home,               \* the worker of each user
    row,                \* the row, with the age of last_renewed_ts
    pc,                 \* how far each user is
    lookedAt,           \* the lock whose is_still_valid it waits for
    askAge,             \* the age of `now` in _try_acquire_lock
    renewIn,            \* the time to the next renewal
    live,               \* _live_lock_tokens of each worker
    acquiring,          \* _acquiring_locks of each worker
    late,               \* users that were too slow
    confused,           \* workers where a release popped the token of another lock
    crashes

vars == <<home, row, pc, lookedAt, askAge, renewIn, live, acquiring, late, confused, crashes>>

AtMost(x, m) == IF x > m THEN m ELSE x

\* __aenter__, and after each attempt its timer or the deferred: the first
\* lines of try_acquire_lock.
TryAcquire(u) ==
    LET w == home[u]
    IN  /\ pc[u] \in {"idle", "waiting"}
        /\ IF acquiring[w]
           THEN pc' = [pc EXCEPT ![u] = "waiting"] /\ UNCHANGED <<lookedAt, acquiring>>
           ELSE /\ acquiring' = [acquiring EXCEPT ![w] = TRUE]
                /\ pc' = [pc EXCEPT ![u] = IF live[w] # NoUser THEN "checking" ELSE "trying"]
                /\ lookedAt' = [lookedAt EXCEPT ![u] = live[w]]
        /\ askAge' = [askAge EXCEPT ![u] = 0]
        /\ UNCHANGED <<home, row, renewIn, live, late, confused, crashes>>

\* is_still_valid of a lock
StillValid(t) == row.token = t /\ row.age < Timeout

Checked(u) ==
    /\ pc[u] = "checking"
    /\ lookedAt' = [lookedAt EXCEPT ![u] = NoUser]
    /\ askAge' = [askAge EXCEPT ![u] = 0]
    /\ IF StillValid(lookedAt[u])
       THEN /\ acquiring' = [acquiring EXCEPT ![home[u]] = FALSE]
            /\ pc' = [pc EXCEPT ![u] = "waiting"]
       ELSE pc' = [pc EXCEPT ![u] = "trying"] /\ UNCHANGED acquiring
    /\ UNCHANGED <<home, row, renewIn, live, late, confused, crashes>>

\* Seeded fault: only a row that was deleted is free.
MayTakeFreed(u) == row.token = NoUser \/ row.instance = home[u]

\* There is no row, it has timed out, or it is of this instance.
MayTake(u) == row.token = NoUser \/ row.age - askAge[u] > Timeout \/ row.instance = home[u]

\* _try_acquire_lock_txn
Upsert(u) ==
    /\ pc[u] = "trying"
    /\ IF MayTake(u)
       THEN /\ row' = [token |-> u, instance |-> home[u], age |-> askAge[u]]
            /\ pc' = [pc EXCEPT ![u] = "locked"]
       ELSE pc' = [pc EXCEPT ![u] = "refused"] /\ UNCHANGED row
    /\ UNCHANGED <<home, lookedAt, askAge, renewIn, live, acquiring, late, confused, crashes>>

\* The query has returned.
Answered(u) ==
    /\ pc[u] \in {"locked", "refused"}
    /\ acquiring' = [acquiring EXCEPT ![home[u]] = FALSE]
    /\ askAge' = [askAge EXCEPT ![u] = 0]
    /\ IF pc[u] = "locked"
       THEN /\ pc' = [pc EXCEPT ![u] = "holding"]
            /\ live' = [live EXCEPT ![home[u]] = u]
            /\ renewIn' = [renewIn EXCEPT ![u] = RenewEvery]
       ELSE pc' = [pc EXCEPT ![u] = "waiting"] /\ UNCHANGED <<live, renewIn>>
    /\ UNCHANGED <<home, row, lookedAt, late, confused, crashes>>

\* _renew: only the row with the token, with the time at which it was called.
Renew(u) ==
    /\ pc[u] = "holding" /\ renewIn[u] <= 0
    /\ row' = IF row.token = u THEN [row EXCEPT !.age = 0 - renewIn[u]] ELSE row
    /\ renewIn' = [renewIn EXCEPT ![u] = RenewEvery]
    /\ UNCHANGED <<home, pc, lookedAt, askAge, live, acquiring, late, confused, crashes>>

\* The body ends: the looping call is stopped ...
Release(u) ==
    /\ pc[u] = "holding"
    /\ pc' = [pc EXCEPT ![u] = "releasing"]
    /\ renewIn' = [renewIn EXCEPT ![u] = 0]
    /\ UNCHANGED <<home, row, lookedAt, askAge, live, acquiring, late, confused, crashes>>

\* Seeded fault: the row is deleted whoever holds it.
DeleteRowAny(u) ==
    /\ pc[u] = "releasing"
    /\ row' = NoRow
    /\ pc' = [pc EXCEPT ![u] = "deleted"]
    /\ UNCHANGED <<home, lookedAt, askAge, renewIn, live, acquiring, late, confused, crashes>>

\* ... the row with the token is deleted ...
DeleteRow(u) ==
    /\ pc[u] = "releasing"
    /\ row' = IF row.token = u THEN NoRow ELSE row
    /\ pc' = [pc EXCEPT ![u] = "deleted"]
    /\ UNCHANGED <<home, lookedAt, askAge, renewIn, live, acquiring, late, confused, crashes>>

\* ... and whatever is in _live_lock_tokens is popped.
Drop(u) ==
    /\ pc[u] = "deleted"
    /\ pc' = [pc EXCEPT ![u] = "gone"]
    /\ confused' = IF live[home[u]] \in {u, NoUser} THEN confused ELSE confused \union {home[u]}
    /\ live' = [live EXCEPT ![home[u]] = NoUser]
    /\ UNCHANGED <<home, row, lookedAt, askAge, renewIn, acquiring, late, crashes>>

\* Time passes, unless someone who is not late has to do something first.
InTime(u) ==
    /\ pc[u] \in {"trying", "locked", "refused"} => askAge[u] < MaxDelay
    /\ pc[u] = "holding" => renewIn[u] > 0 - MaxDelay

Tick ==
    /\ \A u \in Users \ late : InTime(u)
    /\ row' = IF row.token = NoUser THEN row ELSE [row EXCEPT !.age = AtMost(@ + 1, MaxAge)]
    /\ askAge' = [u \in Users |-> IF pc[u] \in {"trying", "locked", "refused"}
                                  THEN AtMost(askAge[u] + 1, MaxAsk) ELSE 0]
    /\ renewIn' = [u \in Users |-> IF pc[u] = "holding" /\ renewIn[u] > 0 - MaxAsk
                                   THEN renewIn[u] - 1 ELSE renewIn[u]]
    /\ UNCHANGED <<home, pc, lookedAt, live, acquiring, late, confused, crashes>>

\* A user's database calls, or its whole process, are held up.
FallBehind(u) ==
    /\ u \notin late /\ pc[u] \in {"trying", "locked", "holding"}
    /\ Cardinality(late) < MaxLate                              \* bound
    /\ late' = late \union {u}
    /\ UNCHANGED <<home, row, pc, lookedAt, askAge, renewIn, live, acquiring, confused, crashes>>

\* A process dies.  Its successor has a new instance id.
Crash(w) ==
    /\ crashes < MaxCrashes                                     \* bound
    /\ crashes' = crashes + 1
    /\ row' = IF row.instance = w THEN [row EXCEPT !.instance = Dead] ELSE row
    /\ pc' = [u \in Users |-> IF home[u] = w /\ pc[u] # "idle" THEN "gone" ELSE pc[u]]
    /\ lookedAt' = [u \in Users |-> IF home[u] = w THEN NoUser ELSE lookedAt[u]]
    /\ askAge' = [u \in Users |-> IF home[u] = w THEN 0 ELSE askAge[u]]
    /\ renewIn' = [u \in Users |-> IF home[u] = w THEN 0 ELSE renewIn[u]]
    /\ live' = [live EXCEPT ![w] = NoUser]
    /\ acquiring' = [acquiring EXCEPT ![w] = FALSE]
    /\ confused' = confused \ {w}
    /\ UNCHANGED <<home, late>>

Init ==
    /\ home \in Homes
    /\ row = NoRow
    /\ pc = [u \in Users |-> "idle"]
    /\ lookedAt = [u \in Users |-> NoUser]
    /\ askAge = [u \in Users |-> 0]
    /\ renewIn = [u \in Users |-> 0]
    /\ live = [w \in Workers |-> NoUser]
    /\ acquiring = [w \in Workers |-> FALSE]
    /\ late = {} /\ confused = {} /\ crashes = 0

Proceed(u) ==
    \/ pc[u] = "waiting" /\ TryAcquire(u)
    \/ Checked(u) \/ Upsert(u) \/ Answered(u) \/ Release(u) \/ DeleteRow(u) \/ Drop(u)

Next ==
    \/ \E u \in Users : TryAcquire(u) \/ Checked(u) \/ Upsert(u) \/ Answered(u) \/ Renew(u)
                          \/ Release(u) \/ DeleteRow(u) \/ Drop(u) \/ FallBehind(u)
    \/ Tick
    \/ \E w \in Workers : Crash(w)

\* Database calls return, bodies end, timers go off and time goes on.
Fairness == SF_vars(Tick) /\ \A u \in Users : WF_vars(Proceed(u))

Spec == Init /\ [][Next]_vars /\ Fairness

-----------------------------------------------------------------------------
TypeOK ==
    /\ home \in Homes
    /\ row.token \in Users \union {NoUser} /\ row.instance \in Workers \union {Dead}
    /\ row.age \in 0..MaxAge
    /\ pc \in [Users -> {"idle", "waiting", "checking", "trying", "locked", "refused", "holding",
                         "releasing", "deleted", "gone"}]
    /\ lookedAt \in [Users -> Users \union {NoUser}]
    /\ askAge \in [Users -> 0..MaxAsk] /\ renewIn \in [Users -> (0 - MaxAsk)..RenewEvery]
    /\ live \in [Workers -> Users \union {NoUser}] /\ acquiring \in [Workers -> BOOLEAN]
    /\ late \subseteq Users /\ confused \subseteq Workers

\* Who renews in time keeps the lock until it releases it, even next to users
\* whose lock timed out while they worked, whose renewals and releases come late,
\* and to workers that die: there is one holder, of those that are in time.
\* The exception is a worker on which a release has popped the token of another
\* lock: the next user there may take the lock from its holder.
KeptInTime ==
    \A u \in Users :
        pc[u] \in {"locked", "holding"} /\ u \notin late /\ home[u] \notin confused => row.token = u

\* When no more users come, all of them get the lock and give it back, or die,
\* also if a holder dies.
EveryoneGetsLock == <>[](\A u \in Users : pc[u] \in {"idle", "gone"})
=============================================================================
