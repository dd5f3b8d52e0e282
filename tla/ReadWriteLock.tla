---------------------------- MODULE ReadWriteLock ----------------------------
(***************************************************************************)
(* The in-process read/write lock of synapse/util/async_helpers.py, for    *)
(* one key: keys share nothing.                                            *)
(*                                                                         *)
(* Each use of read() or write() is a user, and users are numbered in the  *)
(* order in which they arrive.  A user makes a deferred, waits for those   *)
(* of some earlier users, and resolves its own when it leaves.  Resolving  *)
(* runs whoever waits, before the user takes itself out of the lock's      *)
(* tables: those are two steps.                                            *)
(***************************************************************************)
EXTENDS Integers

CONSTANT MaxUsers       \* bound on the users

ASSUME MaxUsersAssumption == MaxUsers \in Nat

Users == 1..MaxUsers
NoUser == 0

VARIABLES
    arrived,            \* number of users so far
    kind,               \* what each of them does
    pc,                 \* how far it is
    waitOn,             \* the deferreds it waits for
    resolved,           \* users whose deferred is resolved
    cancelled,          \* writers cancelled while they wait
    currentReaders,     \* key_to_current_readers
    currentWriter       \* key_to_current_writer

vars == <<arrived, kind, pc, waitOn, resolved, cancelled, currentReaders, currentWriter>>

Conflict(t, u) == kind[t] = "write" \/ kind[u] = "write"

\* Seeded fault: a writer waits for the latest writer only if there is no
\* reader since.
WriterWaitsForReaders ==
    IF currentReaders # {} THEN currentReaders ELSE {currentWriter} \ {NoUser}

\* The deferreds a new reader and a new writer wait for.
ReaderWaitsFor == {currentWriter} \ {NoUser}
WriterWaitsFor == currentReaders \union ({currentWriter} \ {NoUser})

Arrive(k, deferreds) ==
    /\ arrived < MaxUsers                                       \* bound
    /\ arrived' = arrived + 1
    /\ kind' = [kind EXCEPT ![arrived + 1] = k]
    /\ pc' = [pc EXCEPT ![arrived + 1] = "waiting"]
    /\ waitOn' = [waitOn EXCEPT ![arrived + 1] = deferreds]
    /\ UNCHANGED <<resolved, cancelled>>

\* read, up to its await
Read ==
    /\ Arrive("read", ReaderWaitsFor)
    /\ currentReaders' = currentReaders \union {arrived + 1}
    /\ UNCHANGED currentWriter

\* write, up to its await
Write ==
    /\ Arrive("write", WriterWaitsFor)
    /\ currentReaders' = {}
    /\ currentWriter' = arrived + 1

\* The deferreds are resolved: the body of the context manager runs.
Enter(t) ==
    /\ pc[t] = "waiting"
    /\ waitOn[t] \subseteq resolved
    /\ t \notin cancelled
    /\ pc' = [pc EXCEPT ![t] = "holding"]
    /\ UNCHANGED <<arrived, kind, waitOn, resolved, cancelled, currentReaders, currentWriter>>

\* new_defer.callback
Resolve(t) ==
    /\ resolved' = resolved \union {t}
    /\ pc' = [pc EXCEPT ![t] = "leaving"]
    /\ UNCHANGED <<arrived, kind, waitOn, cancelled, currentReaders, currentWriter>>

\* The body ends: the finally clause.
Release(t) == pc[t] = "holding" /\ Resolve(t)

\* A reader that is cancelled while it waits leaves at once (stop_cancellation).
CancelReader(t) ==
    /\ pc[t] = "waiting" /\ kind[t] = "read"
    /\ Resolve(t)

\* Seeded fault: so does a writer.
CancelWriterAtOnce(t) ==
    /\ pc[t] = "waiting" /\ kind[t] = "write" /\ t \notin cancelled
    /\ Resolve(t)

\* A writer has to wait for its turn first (delay_cancellation) ...
CancelWriter(t) ==
    /\ pc[t] = "waiting" /\ kind[t] = "write" /\ t \notin cancelled
    /\ cancelled' = cancelled \union {t}
    /\ UNCHANGED <<arrived, kind, pc, waitOn, resolved, currentReaders, currentWriter>>

\* ... and then leaves without entering.
CancelledWriterLeaves(t) ==
    /\ pc[t] = "waiting" /\ t \in cancelled
    /\ waitOn[t] \subseteq resolved
    /\ Resolve(t)

\* Seeded fault: a reader takes itself out of the current readers only if there
\* is no writer.
CleanUpLazily(t) ==
    /\ pc[t] = "leaving"
    /\ pc' = [pc EXCEPT ![t] = "gone"]
    /\ currentReaders' = IF currentWriter = NoUser THEN currentReaders \ {t} ELSE currentReaders
    /\ currentWriter' = IF currentWriter = t THEN NoUser ELSE currentWriter
    /\ UNCHANGED <<arrived, kind, waitOn, resolved, cancelled>>

\* The user takes itself out of the tables, unless a later writer has.
CleanUp(t) ==
    /\ pc[t] = "leaving"
    /\ pc' = [pc EXCEPT ![t] = "gone"]
    /\ currentReaders' = currentReaders \ {t}
    /\ currentWriter' = IF currentWriter = t THEN NoUser ELSE currentWriter
    /\ UNCHANGED <<arrived, kind, waitOn, resolved, cancelled>>

Init ==
    /\ arrived = 0
    /\ kind = [t \in Users |-> "none"]
    /\ pc = [t \in Users |-> "absent"]
    /\ waitOn = [t \in Users |-> {}]
    /\ resolved = {}
    /\ cancelled = {}
    /\ currentReaders = {}
    /\ currentWriter = NoUser

\* What a user does once it has arrived, if nothing is cancelled.
Proceed(t) == Enter(t) \/ Release(t) \/ CancelledWriterLeaves(t) \/ CleanUp(t)

Next ==
    \/ Read \/ Write
    \/ \E t \in Users : Proceed(t) \/ CancelReader(t) \/ CancelWriter(t)

\* Callbacks run, and the bodies end.
Fairness == \A t \in Users : WF_vars(Proceed(t))

Spec == Init /\ [][Next]_vars /\ Fairness

-----------------------------------------------------------------------------
TypeOK ==
    /\ arrived \in 0..MaxUsers
    /\ kind \in [Users -> {"none", "read", "write"}]
    /\ pc \in [Users -> {"absent", "waiting", "holding", "leaving", "gone"}]
    /\ waitOn \in [Users -> SUBSET Users]
    /\ resolved \subseteq Users /\ cancelled \subseteq Users /\ currentReaders \subseteq Users
    /\ currentWriter \in Users \union {NoUser}

\* A writer inside is alone, whoever is cancelled, and although only the
\* latest writer and the readers since are remembered.
Exclusion ==
    \A t, u \in Users : t # u /\ pc[t] = "holding" /\ pc[u] = "holding" => ~Conflict(t, u)

\* Nobody is inside before an earlier user it conflicts with has left: a
\* stream of readers does not starve a writer, nor the other way round.
ArrivalOrder ==
    \A t, u \in Users : pc[t] = "holding" /\ u < t /\ Conflict(t, u) => u \in resolved

Ready(t) ==
    \/ pc[t] \in {"holding", "leaving"}
    \/ pc[t] = "waiting" /\ waitOn[t] \subseteq resolved

\* Nobody is left behind: as long as someone is not through, someone can go on,
\* whatever was cancelled; and when all are through the tables are empty.
NobodyStuck ==
    (\A t \in Users : ~Ready(t)) =>
        /\ \A t \in Users : pc[t] \in {"absent", "gone"}
        /\ currentReaders = {} /\ currentWriter = NoUser
=============================================================================
