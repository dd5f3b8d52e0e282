------------------------------ MODULE Linearizer ------------------------------
(***************************************************************************)
(* The Linearizer of synapse/util/async_helpers.py, for one key: at most   *)
(* MaxCount callers at a time, the others queue.  Callers are numbered in  *)
(* the order in which they call queue().                                   *)
(***************************************************************************)
EXTENDS Integers, FiniteSets, SequencesExt

CONSTANTS
    MaxCount,           \* max_count
    MaxCallers          \* bound on the callers

Callers == 1..MaxCallers

VARIABLES
    called,             \* number of callers so far
    progress,           \* how far each of them is
    present,            \* is there an entry in key_to_defer?
    count,              \* its count
    deferreds           \* its deferreds: the callers that queue

linearizerVars == <<called, progress, present, count, deferreds>>

\* _acquire_lock, up to its first await
Acquire ==
    /\ called < MaxCallers                                     \* bound
    /\ called' = called + 1
    /\ present' = TRUE
    /\ IF count < MaxCount
       THEN /\ count' = count + 1
            /\ progress' = [progress EXCEPT ![called + 1] = "holding"]
            /\ UNCHANGED deferreds
       ELSE /\ deferreds' = Append(deferreds, called + 1)
            /\ progress' = [progress EXCEPT ![called + 1] = "queued"]
            /\ UNCHANGED count

\* Seeded fault: the entry is dropped as soon as nobody queues.
ReleaseLockEarly(t) ==
    /\ IF deferreds # <<>>
       THEN /\ deferreds' = Tail(deferreds)
            /\ progress' = [progress EXCEPT ![t] = "gone", ![Head(deferreds)] = "waking"]
            /\ UNCHANGED <<present, count>>
       ELSE /\ count' = 0
            /\ present' = FALSE
            /\ progress' = [progress EXCEPT ![t] = "gone"]
            /\ UNCHANGED deferreds
    /\ UNCHANGED called

\* _release_lock: the callback of the first deferred runs its caller up to the
\* sleep(0), so that the count goes down and up again.
ReleaseLock(t) ==
    /\ IF deferreds # <<>>
       THEN /\ deferreds' = Tail(deferreds)
            /\ progress' = [progress EXCEPT ![t] = "gone", ![Head(deferreds)] = "waking"]
            /\ UNCHANGED <<present, count>>
       ELSE /\ count' = count - 1
            /\ present' = (count > 1)
            /\ progress' = [progress EXCEPT ![t] = "gone"]
            /\ UNCHANGED deferreds
    /\ UNCHANGED called

\* sleep(0) is over.
Wake(t) ==
    /\ progress[t] = "waking"
    /\ progress' = [progress EXCEPT ![t] = "holding"]
    /\ UNCHANGED <<called, present, count, deferreds>>

\* The body ends.
Leave(t) == progress[t] = "holding" /\ ReleaseLock(t)

\* A caller is cancelled while it queues ...
CancelQueued(t) ==
    /\ progress[t] = "queued"
    /\ \E i \in DOMAIN deferreds : deferreds[i] = t /\ deferreds' = RemoveAt(deferreds, i)
    /\ progress' = [progress EXCEPT ![t] = "gone"]
    /\ UNCHANGED <<called, present, count>>

\* ... or when it has its turn already, during sleep(0).
CancelWaking(t) == progress[t] = "waking" /\ ReleaseLock(t)

LinearizerInit ==
    /\ called = 0
    /\ progress = [t \in Callers |-> "absent"]
    /\ present = FALSE
    /\ count = 0
    /\ deferreds = <<>>

CallerProceeds(t) == Wake(t) \/ Leave(t)

LinearizerNext ==
    \/ Acquire
    \/ \E t \in Callers : CallerProceeds(t) \/ CancelQueued(t) \/ CancelWaking(t)

\* Callbacks run, and the bodies end.
LinearizerFairness == \A t \in Callers : WF_linearizerVars(CallerProceeds(t))

LinearizerSpec == LinearizerInit /\ [][LinearizerNext]_linearizerVars /\ LinearizerFairness

-----------------------------------------------------------------------------
LinearizerTypeOK ==
    /\ called \in 0..MaxCallers
    /\ progress \in [Callers -> {"absent", "queued", "waking", "holding", "gone"}]
    /\ present \in BOOLEAN
    /\ count \in 0..MaxCount
    /\ deferreds \in Seq(Callers)

Inside == {t \in Callers : progress[t] \in {"waking", "holding"}}

\* The entry always agrees with its callers, so that no place is lost or given
\* twice: as many are inside as it counts, the others queue in the order in
\* which they came, behind a full house, and an entry is there exactly
\* while someone uses it.  So nobody queues for ever: with a full house there
\* is someone whose body ends.
PlacesAccountedFor ==
    /\ Cardinality(Inside) = count
    /\ \A t \in Callers : progress[t] = "queued" <=> \E i \in DOMAIN deferreds : deferreds[i] = t
    /\ \A i, j \in DOMAIN deferreds : i < j => deferreds[i] < deferreds[j]
    /\ deferreds # <<>> => count = MaxCount
    /\ present <=> count > 0
=============================================================================
