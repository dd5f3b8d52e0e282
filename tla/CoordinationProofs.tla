-------------------------- MODULE CoordinationProofs --------------------------
(***************************************************************************)
(* Proofs about who waits for whom, for any number of users and tasks:     *)
(* the locks ReadWriteLock and WorkerLock, the Linearizer, the event       *)
(* persistence queue of a room, and the scheduler of background tasks.     *)
(*                                                                         *)
(* ReadWriteLock remembers only the latest writer and the readers since    *)
(* then.  That is enough because a deferred stands for all the earlier     *)
(* ones: a writer's is resolved only when those of all users before it     *)
(* are.                                                                    *)
(*                                                                         *)
(* The worker lock's row is taken from its holder when it has timed out,   *)
(* or by a user of the same worker.  The first does not happen to a holder *)
(* that is in time, since the age of the row and the time to the renewal   *)
(* bound each other; the second does not because that user asks the live   *)
(* lock first, which is the holder's.                                      *)
(***************************************************************************)
EXTENDS Locks, Queues, FiniteSetTheorems, WellFoundedInduction, TLAPS

-----------------------------------------------------------------------------
(* ReadWriteLock *)

\* Who is there, and where the tables and the wait sets may point.
Bookkeeping ==
    /\ \A t \in Users : t <= arrived => kind[t] \in {"read", "write"}
    /\ \A t \in Users : t > arrived => kind[t] = "none" /\ pc[t] = "absent" /\ t \notin resolved
    /\ \A t \in resolved : pc[t] \in {"leaving", "gone"}
    /\ \A t \in Users : pc[t] \in {"leaving", "gone"} => t \in resolved
    /\ \A t \in currentReaders : t <= arrived
    /\ currentWriter # NoUser => currentWriter <= arrived /\ kind[currentWriter] = "write"
    /\ \A t \in Users : \A w \in waitOn[t] : w <= arrived

\* The users a waiting user must let pass are waited for, themselves or by a
\* later writer that is waited for.
WaitsCover ==
    \A v, u \in Users :
        pc[v] = "waiting" /\ u < v /\ Conflict(v, u) /\ u \notin resolved
            => \/ u \in waitOn[v]
               \/ \E w \in waitOn[v] : u < w /\ kind[w] = "write"

\* A writer's deferred is resolved after those of all users before it.
WritersInOrder ==
    \A w, u \in Users : kind[w] = "write" /\ w \in resolved /\ u < w => u \in resolved

\* The tables have every user that is not resolved, or a later writer.
TablesCover ==
    \A u \in Users : u \notin resolved =>
        /\ kind[u] = "read" => u \in currentReaders \/ u < currentWriter
        /\ kind[u] = "write" => u <= currentWriter

IInv ==
    /\ TypeOK /\ Bookkeeping /\ WaitsCover /\ WritersInOrder /\ TablesCover /\ ArrivalOrder

-----------------------------------------------------------------------------
\* When all that a user waits for is resolved, so are all the earlier users
\* it conflicts with.
LEMMA WaitIsEnough ==
    ASSUME IInv, NEW t \in Users, pc[t] = "waiting", waitOn[t] \subseteq resolved,
           NEW u \in Users, u < t, Conflict(t, u)
    PROVE  u \in resolved
<1> SUFFICES ASSUME u \notin resolved
             PROVE  FALSE
    OBVIOUS
<1>1. PICK w \in waitOn[t] : u < w /\ kind[w] = "write"
    BY DEF IInv, WaitsCover
<1>2. w \in Users /\ w \in resolved
    BY <1>1 DEF IInv, TypeOK
<1> QED
    BY <1>1, <1>2 DEF IInv, WritersInOrder

\* The initial state satisfies the invariant.
LEMMA InitIInv == Init => IInv
BY MaxUsersAssumption
   DEF Init, IInv, TypeOK, Bookkeeping, WaitsCover, WritersInOrder, TablesCover, ArrivalOrder,
       Conflict, Users, NoUser

\* A new reader waits for the latest writer.
LEMMA ReadIInv == IInv /\ Read => IInv'
<1> SUFFICES ASSUME IInv, Read
             PROVE  IInv'
    OBVIOUS
<1> DEFINE n == arrived + 1
<1> USE MaxUsersAssumption DEF IInv
<1>1. n \in Users /\ arrived \in Nat /\ n = arrived + 1
    BY DEF Read, Arrive, TypeOK, Users
<1>2. /\ arrived' = n
      /\ kind' = [kind EXCEPT ![n] = "read"]
      /\ pc' = [pc EXCEPT ![n] = "waiting"]
      /\ waitOn' = [waitOn EXCEPT ![n] = ReaderWaitsFor]
      /\ resolved' = resolved /\ cancelled' = cancelled
      /\ currentReaders' = currentReaders \union {n} /\ currentWriter' = currentWriter
    BY DEF Read, Arrive
<1>3. /\ ReaderWaitsFor \subseteq Users
      /\ \A w \in ReaderWaitsFor : w <= arrived
    BY DEF ReaderWaitsFor, TypeOK, Bookkeeping, Users, NoUser
<1> HIDE DEF n
<1>4. TypeOK'
    BY <1>1, <1>2, <1>3 DEF TypeOK, Users
<1>5. Bookkeeping'
    BY <1>1, <1>2, <1>3 DEF TypeOK, Bookkeeping, Users, NoUser
<1>6. WaitsCover'
  <2> SUFFICES ASSUME NEW v \in Users, NEW u \in Users,
                      pc'[v] = "waiting", u < v, Conflict(v, u)', u \notin resolved'
               PROVE  \/ u \in waitOn'[v]
                      \/ \E w \in waitOn'[v] : u < w /\ kind'[w] = "write"
      BY DEF WaitsCover
  <2>1. CASE v = n
    <3>1. kind[u] = "write" /\ u \notin resolved
        BY <2>1, <1>1, <1>2 DEF Conflict, TypeOK
    <3>2. u <= currentWriter
        BY <3>1 DEF TablesCover
    <3>3. currentWriter \in Users /\ kind[currentWriter] = "write" /\ currentWriter # n
        BY <3>2, <1>1 DEF TypeOK, Bookkeeping, Users, NoUser
    <3>4. waitOn'[v] = {currentWriter} /\ kind'[currentWriter] = "write"
        BY <2>1, <1>1, <1>2, <3>3 DEF TypeOK, ReaderWaitsFor, Users, NoUser
    <3> QED
        BY <3>2, <3>3, <3>4 DEF Users
  <2>2. CASE v # n
    <3>1. v < n /\ u < n
        BY <2>2, <1>1, <1>2 DEF TypeOK, Bookkeeping, Users
    <3>2. pc[v] = "waiting" /\ waitOn'[v] = waitOn[v] /\ Conflict(v, u) /\ u \notin resolved
        BY <2>2, <3>1, <1>1, <1>2 DEF TypeOK, Conflict
    <3>3. \A w \in waitOn[v] : w \in Users /\ (kind[w] = "write" => kind'[w] = "write")
        BY <1>1, <1>2 DEF TypeOK, Bookkeeping
    <3> QED
        BY <3>2, <3>3 DEF WaitsCover
  <2> QED
      BY <2>1, <2>2
<1>7. WritersInOrder'
    BY <1>1, <1>2 DEF TypeOK, WritersInOrder
<1>8. TablesCover'
    BY <1>1, <1>2 DEF TypeOK, TablesCover
<1>9. ArrivalOrder'
    BY <1>1, <1>2 DEF TypeOK, Bookkeeping, ArrivalOrder, Conflict, Users
<1> QED
    BY <1>4, <1>5, <1>6, <1>7, <1>8, <1>9

\* A new writer waits for all that the tables hold, and takes their place.
LEMMA WriteIInv == IInv /\ Write => IInv'
<1> SUFFICES ASSUME IInv, Write
             PROVE  IInv'
    OBVIOUS
<1> DEFINE n == arrived + 1
<1> USE MaxUsersAssumption DEF IInv
<1>1. n \in Users /\ arrived \in Nat /\ n = arrived + 1
    BY DEF Write, Arrive, TypeOK, Users
<1>2. /\ arrived' = n
      /\ kind' = [kind EXCEPT ![n] = "write"]
      /\ pc' = [pc EXCEPT ![n] = "waiting"]
      /\ waitOn' = [waitOn EXCEPT ![n] = WriterWaitsFor]
      /\ resolved' = resolved /\ cancelled' = cancelled
      /\ currentReaders' = {} /\ currentWriter' = n
    BY DEF Write, Arrive
<1>3. /\ WriterWaitsFor \subseteq Users
      /\ \A w \in WriterWaitsFor : w <= arrived
    BY DEF WriterWaitsFor, TypeOK, Bookkeeping, Users, NoUser
<1> HIDE DEF n
<1>4. TypeOK'
    BY <1>1, <1>2, <1>3 DEF TypeOK, Users
<1>5. Bookkeeping'
    BY <1>1, <1>2, <1>3 DEF TypeOK, Bookkeeping, Users, NoUser
<1>6. WaitsCover'
  <2> SUFFICES ASSUME NEW v \in Users, NEW u \in Users,
                      pc'[v] = "waiting", u < v, Conflict(v, u)', u \notin resolved'
               PROVE  \/ u \in waitOn'[v]
                      \/ \E w \in waitOn'[v] : u < w /\ kind'[w] = "write"
      BY DEF WaitsCover
  <2>0. u < n /\ u <= arrived /\ u \notin resolved
      BY <1>1, <1>2 DEF TypeOK, Bookkeeping, Users
  <2>1. CASE v = n
    <3>1. u \in currentReaders \/ u <= currentWriter
        BY <2>0 DEF TablesCover, Bookkeeping, TypeOK, Users, NoUser
    <3>2. waitOn'[v] = currentReaders \union ({currentWriter} \ {NoUser})
        BY <2>1, <1>1, <1>2 DEF TypeOK, WriterWaitsFor
    <3>3. CASE u \in currentReaders
        BY <3>2, <3>3
    <3>4. CASE u <= currentWriter
      <4>1. currentWriter \in Users /\ kind[currentWriter] = "write" /\ currentWriter # n
          BY <3>4, <1>1 DEF TypeOK, Bookkeeping, Users, NoUser
      <4>2. currentWriter \in waitOn'[v] /\ kind'[currentWriter] = "write"
          BY <4>1, <3>2, <1>1, <1>2 DEF TypeOK, Users, NoUser
      <4> QED
          BY <3>4, <4>1, <4>2 DEF Users
    <3> QED
        BY <3>1, <3>3, <3>4
  <2>2. CASE v # n
    <3>1. pc[v] = "waiting" /\ waitOn'[v] = waitOn[v] /\ v < n
        BY <2>2, <1>1, <1>2 DEF TypeOK, Bookkeeping, Users
    <3>2. Conflict(v, u)
        BY <3>1, <2>0, <1>1, <1>2 DEF TypeOK, Conflict, Users
    <3>3. \A w \in waitOn[v] : w \in Users /\ (kind[w] = "write" => kind'[w] = "write")
        BY <1>1, <1>2 DEF TypeOK, Bookkeeping
    <3> QED
        BY <2>0, <3>1, <3>2, <3>3 DEF WaitsCover
  <2> QED
      BY <2>1, <2>2
<1>7. WritersInOrder'
    BY <1>1, <1>2 DEF TypeOK, Bookkeeping, WritersInOrder
<1>8. TablesCover'
    BY <1>1, <1>2 DEF TypeOK, TablesCover, Bookkeeping, Users
<1>9. ArrivalOrder'
    BY <1>1, <1>2 DEF TypeOK, Bookkeeping, ArrivalOrder, Conflict, Users
<1> QED
    BY <1>4, <1>5, <1>6, <1>7, <1>8, <1>9

\* A user enters when the earlier ones it conflicts with have left.
LEMMA EnterIInv == ASSUME IInv, NEW t \in Users, Enter(t) PROVE IInv'
<1>1. \A u \in Users : u < t /\ Conflict(t, u) => u \in resolved
    BY WaitIsEnough DEF Enter
<1>2. TypeOK' /\ Bookkeeping'
    BY DEF IInv, TypeOK, Bookkeeping, Enter
<1>3. WaitsCover' /\ WritersInOrder' /\ TablesCover'
    BY DEF IInv, TypeOK, WaitsCover, WritersInOrder, TablesCover, Enter, Conflict
<1>4. ArrivalOrder'
    BY <1>1 DEF IInv, TypeOK, ArrivalOrder, Enter, Conflict
<1> QED
    BY <1>2, <1>3, <1>4 DEF IInv

\* A deferred may be resolved if, for a writer, the earlier ones all are.
LEMMA ResolveIInv ==
    ASSUME IInv, NEW t \in Users, Resolve(t), pc[t] \in {"waiting", "holding"},
           kind[t] = "write" => \A u \in Users : u < t => u \in resolved
    PROVE  IInv'
<1>1. t <= arrived
    BY MaxUsersAssumption DEF IInv, TypeOK, Bookkeeping, Users
<1>2. TypeOK' /\ Bookkeeping'
    BY <1>1, MaxUsersAssumption DEF IInv, TypeOK, Bookkeeping, Resolve, Users
<1>3. WaitsCover' /\ TablesCover'
    BY DEF IInv, TypeOK, WaitsCover, TablesCover, Resolve, Conflict
<1>4. WritersInOrder'
    BY DEF IInv, TypeOK, WritersInOrder, Resolve
<1>5. ArrivalOrder'
    BY DEF IInv, TypeOK, ArrivalOrder, Resolve, Conflict
<1> QED
    BY <1>2, <1>3, <1>4, <1>5 DEF IInv

\* The ways to leave.
LEMMA LeaveIInv ==
    ASSUME IInv, NEW t \in Users, Release(t) \/ CancelReader(t) \/ CancelledWriterLeaves(t)
    PROVE  IInv'
<1>1. CASE Release(t)
  <2>1. kind[t] = "write" => \A u \in Users : u < t => u \in resolved
      BY <1>1 DEF IInv, ArrivalOrder, Conflict, Release
  <2> QED
      BY <1>1, <2>1, ResolveIInv DEF Release
<1>2. CASE CancelReader(t)
    BY <1>2, ResolveIInv DEF CancelReader
<1>3. CASE CancelledWriterLeaves(t)
  <2>1. kind[t] = "write" => \A u \in Users : u < t => u \in resolved
      BY <1>3, WaitIsEnough DEF CancelledWriterLeaves, Conflict
  <2> QED
      BY <1>3, <2>1, ResolveIInv DEF CancelledWriterLeaves
<1> QED
    BY <1>1, <1>2, <1>3

\* Taking a resolved user out of the tables loses nothing: if it is the
\* latest writer, everyone before it is resolved.
LEMMA CleanUpIInv == ASSUME IInv, NEW t \in Users, CleanUp(t) PROVE IInv'
<1>1. t \in resolved
    BY DEF IInv, Bookkeeping, CleanUp
<1>2. TypeOK' /\ Bookkeeping'
    BY <1>1 DEF IInv, TypeOK, Bookkeeping, CleanUp
<1>3. WaitsCover' /\ WritersInOrder' /\ ArrivalOrder'
    BY DEF IInv, TypeOK, WaitsCover, WritersInOrder, ArrivalOrder, CleanUp, Conflict
<1>4. TablesCover'
  <2>1. CASE currentWriter = t
    <3>1. \A u \in Users : u <= t => u \in resolved
        BY <2>1, <1>1, MaxUsersAssumption
           DEF IInv, TypeOK, Bookkeeping, WritersInOrder, Users, NoUser
    <3> QED
        BY <2>1, <3>1, <1>1 DEF IInv, TypeOK, TablesCover, CleanUp, Users
  <2>2. CASE currentWriter # t
      BY <2>2, <1>1 DEF IInv, TypeOK, TablesCover, CleanUp
  <2> QED
      BY <2>1, <2>2
<1> QED
    BY <1>2, <1>3, <1>4 DEF IInv

\* Every step preserves the invariant.
LEMMA NextIInv == IInv /\ [Next]_vars => IInv'
<1> SUFFICES ASSUME IInv, [Next]_vars
             PROVE  IInv'
    OBVIOUS
<1>1. CASE Read
    BY <1>1, ReadIInv
<1>2. CASE Write
    BY <1>2, WriteIInv
<1>3. ASSUME NEW t \in Users, Proceed(t) \/ CancelReader(t)
      PROVE  IInv'
    BY <1>3, EnterIInv, LeaveIInv, CleanUpIInv DEF Proceed
<1>4. ASSUME NEW t \in Users, CancelWriter(t)
      PROVE  IInv'
    BY <1>4 DEF CancelWriter, IInv, TypeOK, Bookkeeping, WaitsCover, WritersInOrder, TablesCover,
                ArrivalOrder, Conflict
<1>5. CASE UNCHANGED vars
    BY <1>5 DEF vars, IInv, TypeOK, Bookkeeping, WaitsCover, WritersInOrder, TablesCover,
                ArrivalOrder, Conflict
<1> QED
    BY <1>1, <1>2, <1>3, <1>4, <1>5 DEF Next

\* The invariant holds throughout.
THEOREM IInvHolds == Spec => []IInv
BY InitIInv, NextIInv, PTL DEF Spec

\* The lock's tables and the users keep their types.
THEOREM TypeCorrect == Spec => []TypeOK
<1>1. IInv => TypeOK
    BY DEF IInv
<1> QED
    BY <1>1, IInvHolds, PTL

\* Nobody is inside before the earlier users it conflicts with have left,
\* for any number of users and cancellations.
THEOREM InArrivalOrder == Spec => []ArrivalOrder
<1>1. IInv => ArrivalOrder
    BY DEF IInv
<1> QED
    BY <1>1, IInvHolds, PTL

\* A writer inside is alone.
THEOREM WritersExclude == Spec => []Exclusion
<1>1. IInv => Exclusion
  <2> SUFFICES ASSUME IInv, NEW t \in Users, NEW u \in Users, t # u,
                      pc[t] = "holding", pc[u] = "holding", Conflict(t, u)
               PROVE  FALSE
      BY DEF Exclusion
  <2>1. t \notin resolved /\ u \notin resolved
      BY DEF IInv, Bookkeeping
  <2>2. CASE u < t
      BY <2>1, <2>2 DEF IInv, ArrivalOrder
  <2>3. CASE t < u
      BY <2>1, <2>3 DEF IInv, ArrivalOrder, Conflict
  <2> QED
      BY <2>2, <2>3, MaxUsersAssumption DEF Users
<1> QED
    BY <1>1, IInvHolds, PTL
-----------------------------------------------------------------------------
\* Nobody waits for a later user, and the tables have only users that are
\* still there.
Present ==
    /\ \A t \in Users : t <= arrived => pc[t] # "absent"
    /\ \A t \in Users : \A w \in waitOn[t] : w < t
    /\ \A t \in currentReaders : pc[t] # "gone"
    /\ currentWriter # NoUser => pc[currentWriter] # "gone"

\* Arriving users wait for earlier ones.
LEMMA ArrivePresent ==
    ASSUME IInv, Present, Read \/ Write
    PROVE  Present'
<1>1. /\ arrived \in Nat /\ arrived' = arrived + 1 /\ arrived + 1 \in Users
      /\ pc' = [pc EXCEPT ![arrived + 1] = "waiting"]
    BY MaxUsersAssumption DEF Read, Write, Arrive, IInv, TypeOK, Users
<1>2. PICK ds : /\ waitOn' = [waitOn EXCEPT ![arrived + 1] = ds]
                /\ ds \subseteq currentReaders \union ({currentWriter} \ {NoUser})
    BY DEF Read, Write, Arrive, ReaderWaitsFor, WriterWaitsFor
<1>3. \A w \in ds : w \in Users /\ w <= arrived
    BY <1>2 DEF IInv, TypeOK, Bookkeeping
<1>4. \A t \in Users : t <= arrived + 1 => pc'[t] # "absent"
    BY <1>1 DEF IInv, TypeOK, Present, Users
<1>5. \A t \in Users : \A w \in waitOn'[t] : w < t
    BY <1>1, <1>2, <1>3 DEF IInv, TypeOK, Present, Users
<1>6. currentReaders' \subseteq currentReaders \union {arrived + 1}
    BY DEF Read, Write
<1>7. currentWriter' \in {currentWriter, arrived + 1}
    BY DEF Read, Write
<1>8. \A t \in Users : pc[t] # "gone" => pc'[t] # "gone"
    BY <1>1 DEF IInv, TypeOK
<1>9. pc'[arrived + 1] # "gone"
    BY <1>1 DEF IInv, TypeOK
<1> QED
    BY <1>1, <1>4, <1>5, <1>6, <1>7, <1>8, <1>9 DEF Present, IInv, TypeOK

\* The steps of a user that has arrived keep what Present says.
LEMMA NextPresent == IInv /\ Present /\ [Next]_vars => Present'
<1> SUFFICES ASSUME IInv, Present, [Next]_vars
             PROVE  Present'
    OBVIOUS
<1>1. CASE Read \/ Write
    BY <1>1, ArrivePresent
<1>2. ASSUME NEW t \in Users, Enter(t)
      PROVE  Present'
    BY <1>2 DEF Enter, Present, IInv, TypeOK
<1>3. ASSUME NEW t \in Users, Release(t) \/ CancelReader(t) \/ CancelledWriterLeaves(t)
      PROVE  Present'
    BY <1>3 DEF Release, CancelReader, CancelledWriterLeaves, Resolve, Present, IInv, TypeOK
<1>4. ASSUME NEW t \in Users, CleanUp(t)
      PROVE  Present'
    BY <1>4 DEF CleanUp, Present, IInv, TypeOK
<1>5. ASSUME NEW t \in Users, CancelWriter(t)
      PROVE  Present'
    BY <1>5 DEF CancelWriter, Present
<1>6. CASE UNCHANGED vars
    BY <1>6 DEF vars, Present
<1> QED
    BY <1>1, <1>2, <1>3, <1>4, <1>5, <1>6 DEF Next, Proceed

\* A set of users that is not empty has a first one.
LEMMA FirstUser ==
    ASSUME NEW S \in SUBSET Users, S # {}
    PROVE  \E v \in S : \A u \in S : v <= u
<1> DEFINE R == OpToRel(<, Nat)
<1>1. S \subseteq Nat
    BY MaxUsersAssumption DEF Users
<1>2. IsWellFoundedOn(R, Nat)
    BY NatLessThanWellFounded, Zenon
<1> HIDE DEF R
<1>3. PICK v \in S : \A u \in S : ~(<<u, v>> \in R)
    BY <1>1, <1>2, WFMin
<1>4. \A u \in S : ~(u < v)
    BY <1>1, <1>3 DEF R, OpToRel
<1> QED
    BY <1>1, <1>3, <1>4

\* The first of those that wait has nobody left to wait for.
LEMMA FirstIsReady ==
    ASSUME IInv, Present, NEW v \in Users, pc[v] = "waiting",
           \A u \in Users : u < v => pc[u] \in {"absent", "gone"}
    PROVE  Ready(v)
<1> SUFFICES ASSUME NEW w \in waitOn[v]
             PROVE  w \in resolved
    BY DEF Ready
<1>1. w \in Users /\ w < v /\ w <= arrived
    BY DEF IInv, TypeOK, Bookkeeping, Present
<1>2. pc[w] = "gone"
    BY <1>1 DEF Present
<1> QED
    BY <1>1, <1>2 DEF IInv, Bookkeeping

\* As long as someone is not through, someone can go on, for any number of
\* users and cancellations; and nothing of them is left in the tables.
THEOREM NobodyIsStuck == Spec => []NobodyStuck
<1>1. Init => Present
    BY MaxUsersAssumption DEF Init, Present, Users, NoUser
<1>2. IInv /\ Present => NobodyStuck
  <2> SUFFICES ASSUME IInv, Present, \A t \in Users : ~Ready(t)
               PROVE  /\ \A t \in Users : pc[t] \in {"absent", "gone"}
                      /\ currentReaders = {} /\ currentWriter = NoUser
      BY DEF NobodyStuck
  <2> DEFINE S == {t \in Users : pc[t] \notin {"absent", "gone"}}
  <2>1. \A t \in S : pc[t] = "waiting"
      BY DEF Ready, IInv, TypeOK
  <2>2. S = {}
    <3> SUFFICES ASSUME S # {}
                 PROVE  FALSE
        OBVIOUS
    <3>1. PICK v \in S : \A u \in S : v <= u
        BY FirstUser
    <3>2. \A u \in Users : u < v => pc[u] \in {"absent", "gone"}
        BY <3>1, MaxUsersAssumption DEF Users
    <3> QED
        BY <2>1, <3>1, <3>2, FirstIsReady
  <2>3. \A t \in Users : t <= arrived => pc[t] = "gone"
      BY <2>2 DEF Present
  <2> QED
      BY <2>2, <2>3 DEF Present, IInv, TypeOK, Bookkeeping
<1> QED
    BY <1>1, <1>2, IInvHolds, NextPresent, PTL DEF Spec

-----------------------------------------------------------------------------
(* WorkerLock *)

\* What the theorem asks of the numbers: a lock outlives a renewal interval and
\* two database calls.  The code has 30 seconds and 2 minutes, so that calls
\* may take up to 45 seconds.
LockConstants ==
    /\ RenewEvery \in Nat /\ MaxDelay \in Nat /\ Timeout \in Nat
    /\ RenewEvery + 2 * MaxDelay < Timeout
    /\ Lock!NoUser \notin LockUsers
    /\ Homes \subseteq [LockUsers -> Workers]

LockTypes ==
    /\ Lock!TypeOK
    /\ row \in [token : LockUsers \union {Lock!NoUser}, instance : Workers \union {Lock!Dead},
                age : 0..Lock!MaxAge]

\* _acquiring_locks keeps the users of a worker apart.
Asking == {"checking", "trying", "locked", "refused"}
OneAsks ==
    \A u \in LockUsers : lockPc[u] \in Asking =>
        /\ acquiring[home[u]] = TRUE
        /\ \A v \in LockUsers : lockPc[v] \in Asking /\ home[v] = home[u] => v = u

\* The database calls of those that are in time are short.
AnsweredInTime ==
    \A u \in LockUsers \ late : lockPc[u] \in {"trying", "locked"} => askAge[u] <= MaxDelay

\* A user that has the lock, on a worker where no token was lost, and is in
\* time: the row is its own and young, and the other users of the worker know
\* of it.
Keeper(u) ==
    lockPc[u] \in {"locked", "holding"} /\ u \notin late /\ home[u] \notin confused
Secure(u) ==
    /\ row.token = u /\ row.instance = home[u]
    /\ lockPc[u] = "locked" => row.age <= askAge[u]
    /\ lockPc[u] = "holding" =>
         /\ row.age + renewIn[u] <= RenewEvery + MaxDelay
         /\ renewIn[u] >= 0 - MaxDelay
         /\ live[home[u]] = u
         /\ \A v \in LockUsers : home[v] = home[u] =>
              /\ lockPc[v] \notin {"trying", "locked"}
              /\ lockPc[v] = "checking" => lookedAt[v] = u

LockInv ==
    /\ LockTypes /\ OneAsks /\ AnsweredInTime
    /\ \A u \in LockUsers : Keeper(u) => Secure(u)

\* A row that is secure is valid, whoever looks.
LEMMA SecureIsValid ==
    ASSUME LockConstants, LockInv, NEW u \in LockUsers, Keeper(u)
    PROVE  row.token = u /\ row.instance = home[u] /\ row.age < Timeout
<1>1. Secure(u)
    BY DEF LockInv
<1>2. row.age \in Nat /\ askAge[u] \in Nat /\ renewIn[u] \in Int
    BY DEF LockInv, LockTypes, Lock!TypeOK, Lock!MaxAge, Lock!MaxAsk, LockConstants
<1>3. CASE lockPc[u] = "locked"
  <2>1. askAge[u] <= MaxDelay /\ row.age <= askAge[u]
    BY <1>1, <1>3 DEF LockInv, AnsweredInTime, Keeper, Secure
  <2> QED
    BY <2>1, <1>1, <1>2 DEF Secure, LockConstants
<1>4. CASE lockPc[u] = "holding"
  <2>1. row.age + renewIn[u] <= RenewEvery + MaxDelay /\ renewIn[u] >= 0 - MaxDelay
    BY <1>1, <1>4 DEF Secure
  <2> QED
    BY <2>1, <1>1, <1>2 DEF Secure, LockConstants
<1> QED
    BY <1>3, <1>4 DEF Keeper

LEMMA LockInitial == LockConstants /\ Lock!Init => LockInv
<1> SUFFICES ASSUME LockConstants, Lock!Init
             PROVE  LockInv
    OBVIOUS
<1>1. row = [token |-> Lock!NoUser, instance |-> Lock!Dead, age |-> 0] /\ home \in Homes
    BY DEF Lock!Init, Lock!NoRow
<1>2. 0 \in 0..Lock!MaxAge /\ 0 \in 0..Lock!MaxAsk /\ 0 \in (0 - Lock!MaxAsk)..RenewEvery
    BY DEF LockConstants, Lock!MaxAge, Lock!MaxAsk
<1>3. LockTypes
    BY <1>1, <1>2 DEF LockTypes, Lock!TypeOK, Lock!Init
<1> QED
    BY <1>3 DEF LockInv, OneAsks, AnsweredInTime, Keeper, Asking, Lock!Init

\* The steps of a user that leave the row alone.
LEMMA LockTryAcquire ==
    ASSUME LockConstants, LockInv, NEW t \in LockUsers, Lock!TryAcquire(t)
    PROVE  LockInv'
<1> USE DEF Lock!TryAcquire
<1>0. home[t] \in Workers /\ home \in [LockUsers -> Workers]
    BY DEF LockConstants, LockInv, LockTypes, Lock!TypeOK
<1>1. LockTypes'
  <2>1. acquiring' \in [Workers -> BOOLEAN]
    BY <1>0 DEF LockInv, LockTypes, Lock!TypeOK
  <2>2. lookedAt' \in [LockUsers -> LockUsers \union {Lock!NoUser}]
    BY <1>0 DEF LockInv, LockTypes, Lock!TypeOK
  <2>3. lockPc' \in [LockUsers -> {"idle", "waiting", "checking", "trying", "locked", "refused",
                                  "holding", "releasing", "deleted", "gone"}]
    BY DEF LockInv, LockTypes, Lock!TypeOK
  <2>4. askAge' \in [LockUsers -> 0..Lock!MaxAsk]
    BY DEF LockConstants, LockInv, LockTypes, Lock!TypeOK, Lock!MaxAsk
  <2> QED
    BY <2>1, <2>2, <2>3, <2>4 DEF LockInv, LockTypes, Lock!TypeOK
<1>2. OneAsks'
  <2>1. CASE acquiring[home[t]]
    BY <2>1, <1>0 DEF LockInv, LockTypes, Lock!TypeOK, OneAsks, Asking
  <2>2. CASE ~acquiring[home[t]]
    <3>1. acquiring' = [acquiring EXCEPT ![home[t]] = TRUE]
        BY <2>2
    <3>2. \A w \in Workers : acquiring'[w] = IF w = home[t] THEN TRUE ELSE acquiring[w]
        BY <3>1, <1>0 DEF LockInv, LockTypes, Lock!TypeOK
    <3>3. \A u \in LockUsers : home[u] = home[t] => lockPc[u] \notin Asking
        BY <2>2 DEF LockInv, OneAsks
    <3>4. \A u \in LockUsers : u # t => lockPc'[u] = lockPc[u]
        BY DEF LockInv, LockTypes, Lock!TypeOK
    <3>5. home' = home /\ \A u \in LockUsers : home[u] \in Workers
        BY <1>0
    <3> QED
        BY <3>2, <3>3, <3>4, <3>5, Zenon DEF LockInv, OneAsks
  <2> QED
    BY <2>1, <2>2
<1>3. AnsweredInTime'
    BY DEF LockConstants, LockInv, LockTypes, Lock!TypeOK, AnsweredInTime
<1>4. ASSUME NEW u \in LockUsers, Keeper(u)'
      PROVE  Secure(u)'
  <2>1. u # t /\ Keeper(u) /\ Secure(u)
    BY <1>4 DEF LockInv, LockTypes, Lock!TypeOK, Keeper
  <2>2. u \in LockUsers /\ live[home[u]] = u => live[home[u]] # Lock!NoUser
    BY DEF LockConstants
  <2> QED
    BY <2>1, <2>2 DEF LockInv, LockTypes, Lock!TypeOK, Secure
<1> QED
    BY <1>1, <1>2, <1>3, <1>4 DEF LockInv

LEMMA LockChecked ==
    ASSUME LockConstants, LockInv, NEW t \in LockUsers, Lock!Checked(t)
    PROVE  LockInv'
<1> USE DEF Lock!Checked
<1>0. home[t] \in Workers /\ home \in [LockUsers -> Workers]
    BY DEF LockConstants, LockInv, LockTypes, Lock!TypeOK
<1>1. LockTypes'
  <2>1. acquiring' \in [Workers -> BOOLEAN]
    BY <1>0 DEF LockInv, LockTypes, Lock!TypeOK
  <2>2. lockPc' \in [LockUsers -> {"idle", "waiting", "checking", "trying", "locked", "refused",
                                  "holding", "releasing", "deleted", "gone"}]
    BY DEF LockInv, LockTypes, Lock!TypeOK
  <2>3. askAge' \in [LockUsers -> 0..Lock!MaxAsk]
    BY DEF LockConstants, LockInv, LockTypes, Lock!TypeOK, Lock!MaxAsk
  <2>4. lookedAt' \in [LockUsers -> LockUsers \union {Lock!NoUser}]
    BY DEF LockInv, LockTypes, Lock!TypeOK
  <2> QED
    BY <2>1, <2>2, <2>3, <2>4 DEF LockInv, LockTypes, Lock!TypeOK
<1>2. OneAsks'
  <2>1. \A u \in LockUsers : u # t => lockPc'[u] = lockPc[u]
    BY DEF LockInv, LockTypes, Lock!TypeOK
  <2>2. home' = home /\ \A u \in LockUsers : home[u] \in Workers
    BY <1>0
  <2>3. lockPc[t] \in Asking
    BY DEF Asking
  <2>4. lockPc'[t] \in Asking => acquiring' = acquiring
    BY DEF LockInv, LockTypes, Lock!TypeOK, Asking
  <2>5. \A w \in Workers : w # home[t] => acquiring'[w] = acquiring[w]
    BY <1>0 DEF LockInv, LockTypes, Lock!TypeOK
  <2> QED
    BY <2>1, <2>2, <2>3, <2>4, <2>5, Zenon DEF LockInv, OneAsks
<1>3. AnsweredInTime'
    BY DEF LockConstants, LockInv, LockTypes, Lock!TypeOK, AnsweredInTime
<1>4. ASSUME NEW u \in LockUsers, Keeper(u)'
      PROVE  Secure(u)'
  <2>1. u # t /\ Keeper(u) /\ Secure(u)
    BY <1>4 DEF LockInv, LockTypes, Lock!TypeOK, Keeper
  <2>2. row.token = u /\ row.age < Timeout
    BY <2>1, SecureIsValid
  <2>3. lockPc[u] = "holding" /\ home[t] = home[u] => lockPc'[t] = "waiting"
    BY <2>1, <2>2 DEF LockInv, LockTypes, Lock!TypeOK, Secure, Lock!StillValid
  <2> QED
    BY <2>1, <2>3 DEF LockInv, LockTypes, Lock!TypeOK, Secure
<1> QED
    BY <1>1, <1>2, <1>3, <1>4 DEF LockInv

LEMMA LockAnswered ==
    ASSUME LockConstants, LockInv, NEW t \in LockUsers, Lock!Answered(t)
    PROVE  LockInv'
<1> USE DEF Lock!Answered
<1>0. home[t] \in Workers /\ home \in [LockUsers -> Workers]
    BY DEF LockConstants, LockInv, LockTypes, Lock!TypeOK
<1>1. LockTypes'
    BY <1>0 DEF LockConstants, LockInv, LockTypes, Lock!TypeOK, Lock!MaxAsk
<1>2. OneAsks'
    BY <1>0 DEF LockInv, LockTypes, Lock!TypeOK, OneAsks, Asking
<1>3. AnsweredInTime'
    BY DEF LockConstants, LockInv, LockTypes, Lock!TypeOK, AnsweredInTime
<1>4. ASSUME NEW u \in LockUsers, Keeper(u)'
      PROVE  Secure(u)'
  <2>1. Keeper(u) /\ Secure(u)
    BY <1>4 DEF LockInv, LockTypes, Lock!TypeOK, Keeper
  <2>2. CASE u # t
    <3>1. lockPc[u] = "holding" /\ home[t] = home[u] => lockPc[t] # "locked"
        BY <2>1 DEF Secure
    <3> QED
      <4>1. lockPc[u] = "holding" => live'[home[u]] = live[home[u]]
        BY <3>1, <1>0 DEF LockInv, LockTypes, Lock!TypeOK
      <4>2. \A v \in LockUsers : lockPc'[v] \in {"trying", "locked", "checking"} => lockPc'[v] = lockPc[v]
        BY DEF LockInv, LockTypes, Lock!TypeOK
      <4>3. lockPc'[u] = lockPc[u] /\ renewIn'[u] = renewIn[u] /\ askAge'[u] = askAge[u]
        BY <2>2 DEF LockInv, LockTypes, Lock!TypeOK
      <4>4. home' = home /\ row' = row /\ lookedAt' = lookedAt
        OBVIOUS
      <4> QED
        BY <2>1, <4>1, <4>2, <4>3, <4>4 DEF Secure
  <2>3. CASE u = t
    <3>1. lockPc[t] = "locked" /\ lockPc' = [lockPc EXCEPT ![t] = "holding"]
          /\ live'[home[t]] = t /\ renewIn'[t] = RenewEvery
        BY <1>0, <1>4, <2>1, <2>3 DEF LockInv, LockTypes, Lock!TypeOK, Keeper
    <3>2. row.age + RenewEvery <= RenewEvery + MaxDelay /\ RenewEvery >= 0 - MaxDelay
      <4>1. row.age \in Nat /\ askAge[t] \in Nat
        BY DEF LockInv, LockTypes, Lock!TypeOK, Lock!MaxAge, Lock!MaxAsk, LockConstants
      <4>2. row.age <= askAge[t] /\ askAge[t] <= MaxDelay
        BY <2>1, <2>3, <3>1 DEF LockInv, AnsweredInTime, Keeper, Secure
      <4> QED
        BY <4>1, <4>2 DEF LockConstants
    <3>3. \A v \in LockUsers : home[v] = home[t] => v = t \/ lockPc[v] \notin Asking
        BY <3>1 DEF LockInv, OneAsks, Asking
    <3>4. \A v \in LockUsers : home[v] = home[t] => lockPc'[v] \notin Asking
        BY <3>1, <3>3 DEF LockInv, LockTypes, Lock!TypeOK, Asking
    <3> QED
        BY <2>1, <2>3, <3>1, <3>2, <3>4 DEF LockInv, LockTypes, Lock!TypeOK, Secure, Asking
  <2> QED
    BY <2>2, <2>3
<1> QED
    BY <1>1, <1>2, <1>3, <1>4 DEF LockInv

LEMMA LockRelease ==
    ASSUME LockConstants, LockInv, NEW t \in LockUsers, Lock!Release(t)
    PROVE  LockInv'
<1> USE DEF Lock!Release
<1>1. LockTypes'
    BY DEF LockConstants, LockInv, LockTypes, Lock!TypeOK, Lock!MaxAsk
<1>2. OneAsks' /\ AnsweredInTime'
    BY DEF LockInv, LockTypes, Lock!TypeOK, OneAsks, Asking, AnsweredInTime
<1>4. ASSUME NEW u \in LockUsers, Keeper(u)'
      PROVE  Secure(u)'
    BY <1>4 DEF LockInv, LockTypes, Lock!TypeOK, Secure, Keeper
<1> QED
    BY <1>1, <1>2, <1>4 DEF LockInv

LEMMA LockDrop ==
    ASSUME LockConstants, LockInv, NEW t \in LockUsers, Lock!Drop(t)
    PROVE  LockInv'
<1> USE DEF Lock!Drop
<1>0. home[t] \in Workers /\ home \in [LockUsers -> Workers]
    BY DEF LockConstants, LockInv, LockTypes, Lock!TypeOK
<1>1. LockTypes'
    BY <1>0 DEF LockConstants, LockInv, LockTypes, Lock!TypeOK, Lock!MaxAsk
<1>2. OneAsks' /\ AnsweredInTime'
    BY DEF LockInv, LockTypes, Lock!TypeOK, OneAsks, Asking, AnsweredInTime
<1>4. ASSUME NEW u \in LockUsers, Keeper(u)'
      PROVE  Secure(u)'
  <2>1. u # t /\ Keeper(u) /\ Secure(u)
    BY <1>4 DEF LockInv, LockTypes, Lock!TypeOK, Keeper
  <2>2. lockPc[u] = "holding" => home[u] # home[t]
    BY <1>0, <1>4, <2>1 DEF LockConstants, Secure, Keeper
  <2> QED
    BY <2>1, <2>2, <1>0 DEF LockInv, LockTypes, Lock!TypeOK, Secure
<1> QED
    BY <1>1, <1>2, <1>4 DEF LockInv

LEMMA LockFallBehind ==
    ASSUME LockConstants, LockInv, NEW t \in LockUsers, Lock!FallBehind(t)
    PROVE  LockInv'
    BY DEF Lock!FallBehind, LockInv, LockTypes, Lock!TypeOK, OneAsks, Asking, AnsweredInTime,
           Secure, Keeper

\* _try_acquire_lock_txn takes the row from nobody that keeps it.
LEMMA LockUpsert ==
    ASSUME LockConstants, LockInv, NEW t \in LockUsers, Lock!Upsert(t)
    PROVE  LockInv'
<1> USE DEF Lock!Upsert
<1>0. home[t] \in Workers /\ home \in [LockUsers -> Workers]
    BY DEF LockConstants, LockInv, LockTypes, Lock!TypeOK
<1>1. LockTypes'
  <2>1. askAge[t] \in 0..Lock!MaxAge
    BY DEF LockConstants, LockInv, LockTypes, Lock!TypeOK, Lock!MaxAsk, Lock!MaxAge
  <2>2. row' \in [token : LockUsers \union {Lock!NoUser}, instance : Workers \union {Lock!Dead},
                 age : 0..Lock!MaxAge]
    BY <1>0, <2>1 DEF LockInv, LockTypes
  <2>3. lockPc' \in [LockUsers -> {"idle", "waiting", "checking", "trying", "locked", "refused",
                                  "holding", "releasing", "deleted", "gone"}]
    BY DEF LockInv, LockTypes, Lock!TypeOK
  <2> QED
    BY <2>2, <2>3 DEF LockInv, LockTypes, Lock!TypeOK
<1>2. OneAsks' /\ AnsweredInTime'
    BY DEF LockInv, LockTypes, Lock!TypeOK, OneAsks, Asking, AnsweredInTime
<1>3. ASSUME NEW u \in LockUsers, u # t, Keeper(u)
      PROVE  ~Lock!MayTake(t)
  <2>1. row.token = u /\ row.instance = home[u] /\ row.age < Timeout
    BY <1>3, SecureIsValid
  <2>2. home[t] # home[u]
    BY <1>3 DEF LockInv, OneAsks, Asking, Keeper, Secure
  <2>3. row.age \in Nat /\ askAge[t] \in Nat
    BY DEF LockInv, LockTypes, Lock!TypeOK, Lock!MaxAge, Lock!MaxAsk, LockConstants
  <2> QED
    BY <2>1, <2>2, <2>3 DEF Lock!MayTake, LockConstants
<1>4. ASSUME NEW u \in LockUsers, Keeper(u)'
      PROVE  Secure(u)'
  <2>1. CASE u = t
    <3>1. lockPc'[t] = "locked" /\ row' = [token |-> t, instance |-> home[t], age |-> askAge[t]]
        BY <1>4, <2>1 DEF LockInv, LockTypes, Lock!TypeOK, Keeper
    <3>2. askAge[t] <= askAge[t]
        BY DEF LockInv, LockTypes, Lock!TypeOK, Lock!MaxAsk, LockConstants
    <3> QED
        BY <2>1, <3>1, <3>2 DEF Secure
  <2>2. CASE u # t
    <3>1. Keeper(u) /\ Secure(u)
        BY <1>4, <2>2 DEF LockInv, LockTypes, Lock!TypeOK, Keeper
    <3>2. row' = row /\ lockPc' = [lockPc EXCEPT ![t] = "refused"]
        BY <1>3, <2>2, <3>1
    <3> QED
        BY <2>2, <3>1, <3>2 DEF LockInv, LockTypes, Lock!TypeOK, Secure
  <2> QED
    BY <2>1, <2>2
<1> QED
    BY <1>1, <1>2, <1>4 DEF LockInv

LEMMA LockRenew ==
    ASSUME LockConstants, LockInv, NEW t \in LockUsers, Lock!Renew(t)
    PROVE  LockInv'
<1> USE DEF Lock!Renew
<1>0. renewIn[t] \in Int /\ 0 - renewIn[t] \in 0..Lock!MaxAsk
    BY DEF LockConstants, LockInv, LockTypes, Lock!TypeOK, Lock!MaxAsk
<1>1. LockTypes'
  <2>1. 0 - renewIn[t] \in 0..Lock!MaxAge
    BY <1>0 DEF LockConstants, Lock!MaxAsk, Lock!MaxAge
  <2>2. row' \in [token : LockUsers \union {Lock!NoUser}, instance : Workers \union {Lock!Dead},
                 age : 0..Lock!MaxAge]
    BY <2>1 DEF LockInv, LockTypes
  <2>3. renewIn' \in [LockUsers -> (0 - Lock!MaxAsk)..RenewEvery]
    BY DEF LockConstants, LockInv, LockTypes, Lock!TypeOK, Lock!MaxAsk
  <2> QED
    BY <2>2, <2>3 DEF LockInv, LockTypes, Lock!TypeOK
<1>2. OneAsks' /\ AnsweredInTime'
    BY DEF LockInv, LockTypes, Lock!TypeOK, OneAsks, Asking, AnsweredInTime
<1>4. ASSUME NEW u \in LockUsers, Keeper(u)'
      PROVE  Secure(u)'
  <2>1. Keeper(u) /\ Secure(u)
    BY <1>4 DEF LockInv, Keeper
  <2>2. CASE u = t
    <3>1. row'.token = u /\ row'.instance = home[u] /\ row'.age = 0 - renewIn[t]
        BY <2>1, <2>2 DEF LockInv, LockTypes, Secure
    <3>2. renewIn'[t] = RenewEvery
        BY DEF LockInv, LockTypes, Lock!TypeOK
    <3>3. renewIn[t] >= 0 - MaxDelay
        BY <2>1, <2>2 DEF Secure
    <3>4. row'.age + RenewEvery <= RenewEvery + MaxDelay /\ RenewEvery >= 0 - MaxDelay
        BY <3>1, <3>3, <1>0 DEF LockConstants
    <3> QED
        BY <2>1, <2>2, <3>1, <3>2, <3>4 DEF Secure
  <2>3. CASE u # t
    <3>1. row' = row /\ renewIn'[u] = renewIn[u]
        BY <2>1, <2>3 DEF LockInv, LockTypes, Lock!TypeOK, Secure
    <3> QED
        BY <2>1, <3>1 DEF Secure
  <2> QED
    BY <2>2, <2>3
<1> QED
    BY <1>1, <1>2, <1>4 DEF LockInv

LEMMA LockDeleteRow ==
    ASSUME LockConstants, LockInv, NEW t \in LockUsers, Lock!DeleteRow(t)
    PROVE  LockInv'
<1> USE DEF Lock!DeleteRow
<1>1. LockTypes'
  <2>1. row' \in [token : LockUsers \union {Lock!NoUser}, instance : Workers \union {Lock!Dead},
                 age : 0..Lock!MaxAge]
    BY DEF LockConstants, LockInv, LockTypes, Lock!NoRow, Lock!MaxAge, Lock!MaxAsk
  <2> QED
    BY <2>1 DEF LockInv, LockTypes, Lock!TypeOK
<1>2. OneAsks' /\ AnsweredInTime'
    BY DEF LockInv, LockTypes, Lock!TypeOK, OneAsks, Asking, AnsweredInTime
<1>4. ASSUME NEW u \in LockUsers, Keeper(u)'
      PROVE  Secure(u)'
  <2>1. u # t /\ Keeper(u) /\ Secure(u)
    BY <1>4 DEF LockInv, LockTypes, Lock!TypeOK, Keeper
  <2> QED
    BY <2>1 DEF LockInv, LockTypes, Lock!TypeOK, Secure
<1> QED
    BY <1>1, <1>2, <1>4 DEF LockInv

\* Time passes for the row and for everyone alike.
LEMMA LockTick ==
    ASSUME LockConstants, LockInv, Lock!Tick
    PROVE  LockInv'
<1> USE DEF Lock!Tick
<1>0. Lock!MaxAge \in Nat /\ Lock!MaxAsk \in Nat /\ MaxDelay < Lock!MaxAsk /\ RenewEvery \in Nat
      /\ MaxDelay \in Nat
    BY DEF LockConstants, Lock!MaxAsk, Lock!MaxAge
<1>1. row.age \in 0..Lock!MaxAge /\ \A u \in LockUsers :
        askAge[u] \in 0..Lock!MaxAsk /\ renewIn[u] \in (0 - Lock!MaxAsk)..RenewEvery
    BY DEF LockInv, LockTypes, Lock!TypeOK
<1>2. row'.token = row.token /\ row'.instance = row.instance /\ row'.age \in 0..Lock!MaxAge
      /\ row'.age <= row.age + 1
    BY <1>0, <1>1 DEF LockInv, LockTypes, Lock!AtMost
<1>3. row' \in [token : LockUsers \union {Lock!NoUser}, instance : Workers \union {Lock!Dead},
               age : 0..Lock!MaxAge]
    BY <1>2 DEF LockInv, LockTypes
<1>4. \A u \in LockUsers : askAge'[u] \in 0..Lock!MaxAsk
    BY <1>0, <1>1 DEF Lock!AtMost
<1>5. \A u \in LockUsers : renewIn'[u] \in (0 - Lock!MaxAsk)..RenewEvery
    BY <1>0, <1>1
<1>6. LockTypes'
    BY <1>3, <1>4, <1>5 DEF LockInv, LockTypes, Lock!TypeOK
<1>7. OneAsks'
    BY DEF LockInv, OneAsks
<1>8. AnsweredInTime'
    BY <1>0, <1>1 DEF LockInv, AnsweredInTime, Lock!InTime, Lock!AtMost
<1>9. ASSUME NEW u \in LockUsers, Keeper(u)'
      PROVE  Secure(u)'
  <2>1. Keeper(u) /\ Secure(u) /\ Lock!InTime(u)
    BY <1>9 DEF LockInv, Keeper
  <2>2. lockPc[u] = "locked" => askAge'[u] = askAge[u] + 1
    BY <2>1, <1>0, <1>1 DEF Lock!InTime, Lock!AtMost
  <2>3. lockPc[u] = "locked" => row'.age <= askAge'[u]
    BY <2>1, <2>2, <1>0, <1>1, <1>2 DEF Secure
  <2>4. lockPc[u] = "holding" => renewIn'[u] = renewIn[u] - 1 /\ renewIn'[u] >= 0 - MaxDelay
    BY <2>1, <1>0, <1>1 DEF Lock!InTime
  <2>5. lockPc[u] = "holding" => row'.age + renewIn'[u] <= RenewEvery + MaxDelay
    BY <2>1, <2>4, <1>0, <1>1, <1>2 DEF Secure
  <2> QED
    BY <2>1, <2>3, <2>4, <2>5, <1>2 DEF Secure
<1> QED
    BY <1>6, <1>7, <1>8, <1>9 DEF LockInv

\* The users of a worker that dies keep nothing; those of others do not notice.
LEMMA LockCrash ==
    ASSUME LockConstants, LockInv, NEW w \in Workers, Lock!Crash(w)
    PROVE  LockInv'
<1> USE DEF Lock!Crash
<1>0. home \in [LockUsers -> Workers] /\ home' = home
    BY DEF LockConstants, LockInv, LockTypes, Lock!TypeOK
<1>1. LockTypes'
  <2>1. row' \in [token : LockUsers \union {Lock!NoUser}, instance : Workers \union {Lock!Dead},
                 age : 0..Lock!MaxAge]
    BY DEF LockInv, LockTypes
  <2>2. acquiring' \in [Workers -> BOOLEAN]
    BY DEF LockInv, LockTypes, Lock!TypeOK
  <2>3. askAge' \in [LockUsers -> 0..Lock!MaxAsk]
        /\ renewIn' \in [LockUsers -> (0 - Lock!MaxAsk)..RenewEvery]
    BY DEF LockConstants, LockInv, LockTypes, Lock!TypeOK, Lock!MaxAsk
  <2> QED
    BY <2>1, <2>2, <2>3 DEF LockInv, LockTypes, Lock!TypeOK
<1>2. \A u \in LockUsers : lockPc'[u] \notin {"idle", "gone"} => home[u] # w /\ lockPc'[u] = lockPc[u]
    OBVIOUS
<1>3. \A x \in Workers : x # w => acquiring'[x] = acquiring[x] /\ live'[x] = live[x]
    BY DEF LockInv, LockTypes, Lock!TypeOK
<1>4. OneAsks'
    BY <1>0, <1>2, <1>3 DEF LockInv, OneAsks, Asking
<1>5. \A u \in LockUsers : home[u] # w =>
        askAge'[u] = askAge[u] /\ renewIn'[u] = renewIn[u] /\ lookedAt'[u] = lookedAt[u]
    OBVIOUS
<1>6. AnsweredInTime'
    BY <1>2, <1>5 DEF LockInv, AnsweredInTime
<1>7. ASSUME NEW u \in LockUsers, Keeper(u)'
      PROVE  Secure(u)'
  <2>1. home[u] # w /\ Keeper(u) /\ Secure(u)
    BY <1>0, <1>2, <1>7 DEF LockInv, Keeper
  <2>2. row' = row
    BY <2>1 DEF Secure
  <2> QED
    BY <2>1, <2>2, <1>0, <1>2, <1>3, <1>5 DEF Secure
<1> QED
    BY <1>1, <1>4, <1>6, <1>7 DEF LockInv

\* WorkerLock: who renews in time keeps the lock, on a worker where no release
\* has popped the token of another lock, for any number of workers and users,
\* any interval, timeout and delay with RenewEvery + 2 * MaxDelay < Timeout,
\* and whatever users are late and workers die.
THEOREM KeepersKeepLock == LockConstants => (Lock!Spec => [](Lock!TypeOK /\ KeptInTime))
<1> SUFFICES ASSUME LockConstants
             PROVE  Lock!Spec => [](Lock!TypeOK /\ KeptInTime)
    OBVIOUS
<1>1. Lock!Init => LockInv
    BY LockInitial
<1>2. LockInv /\ [Lock!Next]_(Lock!vars) => LockInv'
  <2> SUFFICES ASSUME LockInv, [Lock!Next]_(Lock!vars)
               PROVE  LockInv'
    OBVIOUS
  <2>1. ASSUME NEW u \in LockUsers
        PROVE  /\ Lock!TryAcquire(u) => LockInv'
               /\ Lock!Checked(u) => LockInv'
               /\ Lock!Upsert(u) => LockInv'
               /\ Lock!Answered(u) => LockInv'
               /\ Lock!Renew(u) => LockInv'
               /\ Lock!Release(u) => LockInv'
               /\ Lock!DeleteRow(u) => LockInv'
               /\ Lock!Drop(u) => LockInv'
               /\ Lock!FallBehind(u) => LockInv'
    BY LockTryAcquire, LockChecked, LockUpsert, LockAnswered, LockRenew, LockRelease,
       LockDeleteRow, LockDrop, LockFallBehind, Zenon
  <2>2. ASSUME NEW w \in Workers, Lock!Crash(w)
        PROVE  LockInv'
    BY <2>2, LockCrash
  <2>3. CASE UNCHANGED Lock!vars
    BY <2>3 DEF Lock!vars, LockInv, LockTypes, Lock!TypeOK, OneAsks, AnsweredInTime, Keeper, Secure
  <2> QED
    BY <2>1, <2>2, <2>3, LockTick DEF Lock!Next
<1>3. LockInv => Lock!TypeOK /\ KeptInTime
    BY DEF LockInv, LockTypes, Keeper, Secure, KeptInTime, Lock!KeptInTime
<1> QED
    BY <1>1, <1>2, <1>3, PTL DEF Lock!Spec

-----------------------------------------------------------------------------
(* Linearizer *)

\* Callers are numbered as they arrive.
Arrivals == \A t \in Callers : progress[t] = "absent" <=> t > called

LinInv == LinearizerTypeOK /\ Arrivals /\ PlacesAccountedFor

\* RemoveAt closes the gap.
LEMMA RemoveAtProp ==
    ASSUME NEW S, NEW s \in Seq(S), NEW i \in 1..Len(s)
    PROVE  /\ RemoveAt(s, i) \in Seq(S)
           /\ Len(RemoveAt(s, i)) = Len(s) - 1
           /\ \A j \in 1 .. Len(s) - 1 : RemoveAt(s, i)[j] = IF j < i THEN s[j] ELSE s[j + 1]
<1> DEFINE f == SubSeq(s, 1, i - 1)
           g == SubSeq(s, i + 1, Len(s))
<1>0. i \in Nat /\ Len(s) \in Nat
    OBVIOUS
<1>1. f \in Seq(S) /\ Len(f) = i - 1 /\ \A j \in 1 .. i - 1 : f[j] = s[j]
    OBVIOUS
<1>2. g \in Seq(S) /\ Len(g) = Len(s) - i
    OBVIOUS
<1>3. \A j \in 1 .. Len(s) - i : g[j] = s[i + j]
    OBVIOUS
<1>4. RemoveAt(s, i) = f \o g
    BY DEF RemoveAt
<1> HIDE DEF f, g
<1>5. f \o g \in Seq(S) /\ Len(f \o g) = Len(s) - 1
    BY <1>1, <1>2
<1>6. ASSUME NEW j \in 1 .. Len(s) - 1
      PROVE  (f \o g)[j] = IF j < i THEN s[j] ELSE s[j + 1]
  <2>1. CASE j < i
    BY <2>1, <1>1, <1>2
  <2>2. CASE j >= i
    <3>1. (f \o g)[j] = g[j - (i - 1)]
        BY <2>2, <1>1, <1>2
    <3>2. j - (i - 1) \in 1 .. Len(s) - i /\ i + (j - (i - 1)) = j + 1
        BY <2>2
    <3>3. g[j - (i - 1)] = s[j + 1]
        BY <3>2, <1>3
    <3>4. ~(j < i)
        BY <2>2, <1>0
    <3> QED
        BY <3>1, <3>3, <3>4, Zenon
  <2>3. j < i \/ j >= i
    BY <1>0
  <2> QED
    BY <2>1, <2>2, <2>3, Zenon
<1> QED
    BY <1>4, <1>5, <1>6

\* The users inside are finitely many.
LEMMA InsideFinite ==
    ASSUME MaxCallers \in Nat
    PROVE  IsFiniteSet(Inside) /\ Cardinality(Inside) \in Nat
<1>1. IsFiniteSet(1..MaxCallers)
    BY FS_Interval
<1>2. Inside \subseteq 1..MaxCallers
    BY DEF Inside, Callers
<1>3. IsFiniteSet(Inside)
    BY <1>1, <1>2, FS_Subset
<1> QED
    BY <1>3, FS_CardinalityType

\* What a step does to the number of users inside.
LEMMA InsideChange ==
    ASSUME MaxCallers \in Nat
    PROVE  /\ \A t \in Callers : t \notin Inside /\ Inside' = Inside \union {t}
                => Cardinality(Inside') = Cardinality(Inside) + 1
           /\ \A t \in Callers : t \in Inside /\ Inside' = Inside \ {t}
                => Cardinality(Inside') = Cardinality(Inside) - 1
           /\ \A t, u \in Callers :
                /\ t \in Inside /\ u \notin Inside
                /\ Inside' = (Inside \ {t}) \union {u}
                => Cardinality(Inside') = Cardinality(Inside)
<1> DEFINE I == Inside
<1>1. IsFiniteSet(I) /\ Cardinality(I) \in Nat
    BY InsideFinite
<1> HIDE DEF I
<1>2. \A t : t \notin I => Cardinality(I \union {t}) = Cardinality(I) + 1
    BY <1>1, FS_AddElement
<1>3. \A t : t \in I => IsFiniteSet(I \ {t}) /\ Cardinality(I \ {t}) = Cardinality(I) - 1
    BY <1>1, FS_RemoveElement
<1>4. ASSUME NEW t \in I, NEW u, u \notin I
      PROVE  Cardinality((I \ {t}) \union {u}) = Cardinality(I)
  <2>1. IsFiniteSet(I \ {t}) /\ Cardinality(I \ {t}) = Cardinality(I) - 1
    BY <1>3
  <2>2. u \notin I \ {t}
    BY <1>4
  <2>3. Cardinality((I \ {t}) \union {u}) = Cardinality(I \ {t}) + 1
    BY <2>1, <2>2, FS_AddElement
  <2> QED
    BY <2>1, <2>3, <1>1
<1> QED
    BY <1>2, <1>3, <1>4 DEF I

\* The initial state satisfies the invariant.
LEMMA LinInit ==
    ASSUME MaxCallers \in Nat, MaxCount \in Nat \ {0}, LinearizerInit
    PROVE  LinInv
<1>1. LinearizerTypeOK
  <2>1. called \in 0..MaxCallers /\ count \in 0..MaxCount
    BY DEF LinearizerInit
  <2>2. progress \in [Callers -> {"absent", "queued", "waking", "holding", "gone"}]
    BY DEF LinearizerInit
  <2>3. present \in BOOLEAN
    BY DEF LinearizerInit
  <2>4. deferreds \in Seq(Callers)
    BY DEF LinearizerInit
  <2> QED
    BY <2>1, <2>2, <2>3, <2>4 DEF LinearizerTypeOK
<1>2. Arrivals
    BY DEF LinearizerInit, Arrivals, Callers
<1>3. Cardinality(Inside) = count
  <2>1. Inside = {}
    BY DEF LinearizerInit, Inside
  <2> QED
    BY <2>1, FS_EmptySet DEF LinearizerInit
<1>4. PlacesAccountedFor
  <2>1. deferreds = <<>> /\ \A t \in Callers : progress[t] # "queued"
    BY DEF LinearizerInit
  <2>2. ~(count > 0) /\ present = FALSE
    BY DEF LinearizerInit
  <2>3. present <=> count > 0
    BY <2>2, Zenon
  <2>4. DOMAIN deferreds = {}
    BY <2>1
  <2> QED
    BY <1>3, <2>1, <2>3, <2>4, Zenon DEF PlacesAccountedFor
<1> QED
    BY <1>1, <1>2, <1>4 DEF LinInv

\* _acquire_lock keeps the invariant.
LEMMA LinAcquire ==
    ASSUME MaxCallers \in Nat, MaxCount \in Nat \ {0}, LinInv, Acquire
    PROVE  LinInv'
<1> DEFINE n == called + 1
<1> USE DEF LinInv
<1>1. /\ called \in Nat /\ n \in Callers /\ n = called + 1 /\ called' = n
      /\ progress \in [Callers -> {"absent", "queued", "waking", "holding", "gone"}]
      /\ count \in 0..MaxCount /\ deferreds \in Seq(Callers)
    BY DEF Acquire, LinearizerTypeOK, Callers
<1>2. progress[n] = "absent" /\ n \notin Inside
    BY <1>1 DEF Arrivals, Inside
<1>3. \A i \in DOMAIN deferreds : deferreds[i] \in Callers /\ deferreds[i] < n
    BY <1>1 DEF Arrivals, PlacesAccountedFor, Callers
<1>4. present' = TRUE
    BY DEF Acquire
<1> HIDE DEF n
<1>5. CASE count < MaxCount
  <2>1. count' = count + 1 /\ deferreds' = deferreds /\ progress' = [progress EXCEPT ![n] = "holding"]
    BY <1>5 DEF Acquire, n
  <2>2. LinearizerTypeOK'
    BY <1>1, <1>4, <1>5, <2>1 DEF LinearizerTypeOK, Callers
  <2>3. Arrivals'
    BY <1>1, <2>1 DEF Arrivals, Callers
  <2>4. Inside' = Inside \union {n}
    BY <1>1, <2>1 DEF Inside
  <2>5. Cardinality(Inside') = count'
    <3>1. Cardinality(Inside') = Cardinality(Inside) + 1
        BY <1>1, <1>2, <2>4, InsideChange
    <3> QED
        BY <3>1, <2>1 DEF PlacesAccountedFor
  <2>6. deferreds = <<>>
    BY <1>5, <1>1 DEF PlacesAccountedFor
  <2>7. \A t \in Callers : progress'[t] # "queued"
    BY <2>1, <2>6, <1>1 DEF PlacesAccountedFor
  <2>8. (present <=> count > 0)'
    <3>1. count' > 0
        BY <2>1, <1>1
    <3> QED
        BY <3>1, <1>4, Zenon
  <2>9. DOMAIN deferreds' = {} /\ deferreds' = <<>>
    BY <2>1, <2>6
  <2> QED
    BY <2>2, <2>3, <2>5, <2>7, <2>8, <2>9, Zenon DEF PlacesAccountedFor
<1>6. CASE ~(count < MaxCount)
  <2>1. /\ count' = count /\ deferreds' = Append(deferreds, n)
        /\ progress' = [progress EXCEPT ![n] = "queued"] /\ count = MaxCount
    BY <1>1, <1>6 DEF Acquire, n
  <2>2. /\ deferreds' \in Seq(Callers) /\ Len(deferreds') = Len(deferreds) + 1
        /\ \A i \in 1..Len(deferreds) : deferreds'[i] = deferreds[i]
        /\ deferreds'[Len(deferreds) + 1] = n
        /\ DOMAIN deferreds = 1..Len(deferreds) /\ DOMAIN deferreds' = 1..Len(deferreds')
        /\ Len(deferreds) \in Nat
    BY <1>1, <2>1
  <2>3. LinearizerTypeOK'
    BY <1>1, <1>4, <2>1, <2>2 DEF LinearizerTypeOK, Callers
  <2>4. Arrivals'
    BY <1>1, <2>1 DEF Arrivals, Callers
  <2>5. Inside' = Inside
    BY <1>1, <1>2, <2>1 DEF Inside
  <2>6. \A t \in Callers : progress'[t] = "queued" <=> \E i \in DOMAIN deferreds' : deferreds'[i] = t
    <3> SUFFICES ASSUME NEW t \in Callers
                 PROVE  progress'[t] = "queued" <=> \E i \in DOMAIN deferreds' : deferreds'[i] = t
        OBVIOUS
    <3>1. CASE t = n
        BY <3>1, <1>1, <2>1, <2>2
    <3>2. CASE t # n
      <4>1. progress'[t] = progress[t]
        BY <3>2, <1>1, <2>1
      <4>2. (\E i \in DOMAIN deferreds : deferreds[i] = t) <=>
            (\E i \in DOMAIN deferreds' : deferreds'[i] = t)
        BY <3>2, <2>2
      <4> QED
        BY <4>1, <4>2 DEF PlacesAccountedFor
    <3> QED
        BY <3>1, <3>2
  <2>7. \A i, j \in DOMAIN deferreds' : i < j => deferreds'[i] < deferreds'[j]
    BY <1>1, <1>3, <2>2 DEF PlacesAccountedFor
  <2> QED
    BY <1>1, <1>4, <2>1, <2>3, <2>4, <2>5, <2>6, <2>7 DEF PlacesAccountedFor
<1> QED
    BY <1>5, <1>6

\* _release_lock, by a user that is inside, passes the place on or gives it back.
LEMMA LinRelease ==
    ASSUME MaxCallers \in Nat, MaxCount \in Nat \ {0}, LinInv, NEW t \in Inside, ReleaseLock(t)
    PROVE  LinInv'
<1> USE DEF LinInv
<1>1. /\ t \in Callers /\ progress[t] \in {"waking", "holding"} /\ called \in 0..MaxCallers
      /\ progress \in [Callers -> {"absent", "queued", "waking", "holding", "gone"}]
      /\ count \in 0..MaxCount /\ deferreds \in Seq(Callers) /\ called' = called
    BY DEF ReleaseLock, LinearizerTypeOK, Inside
<1>4. \A i, j \in DOMAIN deferreds : i < j => deferreds[i] < deferreds[j]
    BY Zenon DEF PlacesAccountedFor
<1>2. CASE deferreds # <<>>
  <2> DEFINE u == Head(deferreds)
  <2>1. /\ deferreds' = Tail(deferreds) /\ progress' = [progress EXCEPT ![t] = "gone", ![u] = "waking"]
        /\ count' = count /\ present' = present
    BY <1>2 DEF ReleaseLock
  <2>2. u = deferreds[1] /\ 1 \in DOMAIN deferreds /\ u \in Callers
    BY <1>1, <1>2
  <2>3. progress[u] = "queued" /\ u # t /\ u \notin Inside
    BY <1>1, <2>2 DEF PlacesAccountedFor, Inside
  <2> HIDE DEF u
  <2>4. /\ deferreds' \in Seq(Callers) /\ DOMAIN deferreds = 1..Len(deferreds)
        /\ Len(deferreds) \in Nat \ {0} /\ DOMAIN deferreds' = 1 .. Len(deferreds) - 1
        /\ \A i \in 1 .. Len(deferreds) - 1 : deferreds'[i] = deferreds[i + 1]
    BY <1>1, <1>2, <2>1
  <2>5. LinearizerTypeOK'
    <3>1. present' \in BOOLEAN
        BY <2>1, Zenon DEF LinearizerTypeOK
    <3> QED
        BY <1>1, <2>1, <2>2, <2>4, <3>1 DEF LinearizerTypeOK
  <2>6. Arrivals'
    BY <1>1, <2>1, <2>2, <2>3 DEF Arrivals
  <2>7. Inside' = (Inside \ {t}) \union {u}
    BY <1>1, <2>1, <2>2, <2>3 DEF Inside
  <2>8. Cardinality(Inside') = count'
    BY <1>1, <2>1, <2>2, <2>3, <2>7, InsideChange DEF PlacesAccountedFor
  <2>9. \A i \in DOMAIN deferreds : deferreds[i] = u => i = 1
    <3> SUFFICES ASSUME NEW i \in DOMAIN deferreds, deferreds[i] = u, i # 1
                 PROVE  FALSE
        OBVIOUS
    <3>1. deferreds[1] < deferreds[i]
        BY <1>4, <2>2, <2>4
    <3> QED
        BY <3>1, <2>2 DEF Callers
  <2>10. ASSUME NEW v \in Callers
         PROVE  progress'[v] = "queued" <=> \E i \in DOMAIN deferreds' : deferreds'[i] = v
    <3>1. CASE v \in {t, u}
      <4>1. progress'[v] # "queued"
        BY <3>1, <1>1, <2>1, <2>2
      <4>2. ASSUME NEW i \in DOMAIN deferreds', deferreds'[i] = v
            PROVE  FALSE
        <5>1. i + 1 \in DOMAIN deferreds /\ deferreds[i + 1] = v /\ i + 1 # 1
            BY <4>2, <2>4
        <5>2. progress[v] = "queued"
            BY <5>1 DEF PlacesAccountedFor
        <5> QED
            BY <3>1, <5>1, <5>2, <1>1, <2>9
      <4> QED
        BY <4>1, <4>2
    <3>2. CASE v \notin {t, u}
      <4>1. progress'[v] = progress[v]
        BY <3>2, <1>1, <2>1, <2>2
      <4>2. (\E i \in DOMAIN deferreds' : deferreds'[i] = v) =>
            (\E i \in DOMAIN deferreds : deferreds[i] = v)
        BY <2>4
      <4>3. ASSUME NEW i \in DOMAIN deferreds, deferreds[i] = v
            PROVE  \E k \in DOMAIN deferreds' : deferreds'[k] = v
        <5>1. i # 1
            BY <4>3, <3>2, <2>2
        <5>2. i - 1 \in DOMAIN deferreds' /\ deferreds'[i - 1] = deferreds[i]
            BY <5>1, <2>4
        <5> QED
            BY <5>2, <4>3
      <4> QED
        BY <4>1, <4>2, <4>3 DEF PlacesAccountedFor
    <3> QED
        BY <3>1, <3>2
  <2>11. \A i, j \in DOMAIN deferreds' : i < j => deferreds'[i] < deferreds'[j]
    <3> SUFFICES ASSUME NEW i \in DOMAIN deferreds', NEW j \in DOMAIN deferreds', i < j
                 PROVE  deferreds'[i] < deferreds'[j]
        OBVIOUS
    <3>1. i + 1 \in DOMAIN deferreds /\ j + 1 \in DOMAIN deferreds /\ i + 1 < j + 1
        BY <2>4
    <3>2. deferreds'[i] = deferreds[i + 1] /\ deferreds'[j] = deferreds[j + 1]
        BY <2>4
    <3> QED
        BY <3>1, <3>2, <1>4
  <2>12. count = MaxCount /\ (present <=> count > 0)
    BY <1>2, Zenon DEF PlacesAccountedFor
  <2>13. (present <=> count > 0)'
    BY <2>1, <2>12, Zenon
  <2> QED
    BY <2>1, <2>5, <2>6, <2>8, <2>10, <2>11, <2>12, <2>13, Zenon DEF PlacesAccountedFor
<1>3. CASE deferreds = <<>>
  <2>1. /\ deferreds' = deferreds /\ progress' = [progress EXCEPT ![t] = "gone"] /\ count' = count - 1
    BY <1>3 DEF ReleaseLock
  <2>2. present' = (count > 1)
    BY <1>3, Zenon DEF ReleaseLock
  <2>3. Inside' = Inside \ {t}
    BY <1>1, <2>1 DEF Inside
  <2>4. Cardinality(Inside') = count' /\ count = Cardinality(Inside)
    BY <1>1, <2>1, <2>3, InsideChange DEF PlacesAccountedFor
  <2>5. count >= 1
    BY <1>1, <2>4, InsideFinite, FS_EmptySet
  <2>6. LinearizerTypeOK'
    <3>1. present' \in BOOLEAN
        BY <2>2
    <3> QED
        BY <1>1, <2>1, <2>5, <3>1 DEF LinearizerTypeOK
  <2>7. Arrivals'
    BY <1>1, <2>1 DEF Arrivals
  <2>8. DOMAIN deferreds' = {} /\ deferreds' = <<>>
    BY <1>3, <2>1
  <2>9. \A v \in Callers : progress'[v] # "queued"
    BY <1>1, <1>3, <2>1 DEF PlacesAccountedFor
  <2>10. (present <=> count > 0)'
    <3>1. count > 1 <=> count' > 0
        BY <1>1, <2>1
    <3> QED
        BY <2>2, <3>1, Zenon
  <2> QED
    BY <2>4, <2>6, <2>7, <2>8, <2>9, <2>10, Zenon DEF PlacesAccountedFor
<1> QED
    BY <1>2, <1>3

\* Somebody who queues is cancelled: the others close up.
LEMMA LinCancelQueued ==
    ASSUME MaxCallers \in Nat, MaxCount \in Nat \ {0}, LinInv, NEW t \in Callers, CancelQueued(t)
    PROVE  LinInv'
<1> USE DEF LinInv
<1>1. /\ progress[t] = "queued" /\ called \in 0..MaxCallers /\ count' = count /\ called' = called
      /\ progress \in [Callers -> {"absent", "queued", "waking", "holding", "gone"}]
      /\ count \in 0..MaxCount /\ deferreds \in Seq(Callers) /\ progress' = [progress EXCEPT ![t] = "gone"]
    BY DEF CancelQueued, LinearizerTypeOK
<1>2. present' = present
    BY DEF CancelQueued
<1>3. PICK i \in DOMAIN deferreds : deferreds[i] = t /\ deferreds' = RemoveAt(deferreds, i)
    BY DEF CancelQueued
<1>4. \A j, k \in DOMAIN deferreds : j < k => deferreds[j] < deferreds[k]
    BY Zenon DEF PlacesAccountedFor
<1>5. DOMAIN deferreds = 1..Len(deferreds) /\ Len(deferreds) \in Nat \ {0} /\ i \in 1..Len(deferreds)
    BY <1>1, <1>3
<1>6. /\ deferreds' \in Seq(Callers) /\ DOMAIN deferreds' = 1 .. Len(deferreds) - 1
      /\ \A j \in 1 .. Len(deferreds) - 1 :
            deferreds'[j] = IF j < i THEN deferreds[j] ELSE deferreds[j + 1]
    BY <1>1, <1>3, <1>5, RemoveAtProp
<1>7. LinearizerTypeOK'
  <2>1. present' \in BOOLEAN
    BY <1>2, Zenon DEF LinearizerTypeOK
  <2> QED
    BY <1>1, <1>6, <2>1 DEF LinearizerTypeOK
<1>8. Arrivals'
    BY <1>1 DEF Arrivals
<1>9. Inside' = Inside
    BY <1>1 DEF Inside
<1>10. \A j \in DOMAIN deferreds : j # i => deferreds[j] # t
  <2> SUFFICES ASSUME NEW j \in DOMAIN deferreds, j # i, deferreds[j] = t
               PROVE  FALSE
    OBVIOUS
  <2>1. j < i \/ i < j
    BY <1>5
  <2>2. t < t
    BY <2>1, <1>3, <1>4
  <2> QED
    BY <2>2 DEF Callers
<1>11. ASSUME NEW v \in Callers
       PROVE  progress'[v] = "queued" <=> \E j \in DOMAIN deferreds' : deferreds'[j] = v
  <2>1. ASSUME NEW j \in DOMAIN deferreds'
        PROVE  \E k \in DOMAIN deferreds : k # i /\ deferreds'[j] = deferreds[k]
    <3>1. CASE j < i
        BY <3>1, <1>5, <1>6
    <3>2. CASE ~(j < i)
      <4>1. j + 1 \in DOMAIN deferreds /\ j + 1 # i /\ deferreds'[j] = deferreds[j + 1]
        BY <3>2, <1>5, <1>6
      <4> QED
        BY <4>1
    <3> QED
        BY <3>1, <3>2
  <2>2. ASSUME NEW k \in DOMAIN deferreds, k # i
        PROVE  \E j \in DOMAIN deferreds' : deferreds'[j] = deferreds[k]
    <3>1. CASE k < i
        BY <3>1, <1>5, <1>6
    <3>2. CASE ~(k < i)
      <4>1. k - 1 \in DOMAIN deferreds' /\ deferreds'[k - 1] = deferreds[(k - 1) + 1]
        BY <2>2, <3>2, <1>5, <1>6
      <4>2. (k - 1) + 1 = k
        BY <1>5
      <4> QED
        BY <4>1, <4>2
    <3> QED
        BY <3>1, <3>2
  <2>3. progress[v] = "queued" <=> \E j \in DOMAIN deferreds : deferreds[j] = v
    BY Zenon DEF PlacesAccountedFor
  <2>4. CASE v = t
    BY <2>4, <2>1, <1>1, <1>10
  <2>5. CASE v # t
    <3>1. progress'[v] = progress[v]
        BY <2>5, <1>1
    <3> QED
        BY <2>5, <3>1, <2>1, <2>2, <2>3, <1>3
  <2> QED
    BY <2>4, <2>5
<1>12. \A j, k \in DOMAIN deferreds' : j < k => deferreds'[j] < deferreds'[k]
  <2> SUFFICES ASSUME NEW j \in DOMAIN deferreds', NEW k \in DOMAIN deferreds', j < k
               PROVE  deferreds'[j] < deferreds'[k]
    OBVIOUS
  <2>1. j + 1 \in DOMAIN deferreds /\ k + 1 \in DOMAIN deferreds /\ j \in DOMAIN deferreds
        /\ k \in DOMAIN deferreds /\ j + 1 < k + 1 /\ j < k + 1
    BY <1>5, <1>6
  <2> QED
    BY <2>1, <1>4, <1>5, <1>6
<1>13. deferreds # <<>> => count = MaxCount
    BY Zenon DEF PlacesAccountedFor
<1>14. deferreds # <<>>
    BY <1>5
<1>15. (present <=> count > 0)'
    BY <1>1, <1>2, Zenon DEF PlacesAccountedFor
<1>16. Cardinality(Inside') = count'
    BY <1>1, <1>9 DEF PlacesAccountedFor
<1> QED
    BY <1>1, <1>7, <1>8, <1>11, <1>12, <1>13, <1>14, <1>15, <1>16, Zenon DEF PlacesAccountedFor

\* A user wakes up.
LEMMA LinWake ==
    ASSUME LinInv, NEW t \in Callers, Wake(t)
    PROVE  LinInv'
<1> USE DEF LinInv
<1>1. /\ progress[t] = "waking" /\ count' = count /\ called' = called /\ deferreds' = deferreds
      /\ progress \in [Callers -> {"absent", "queued", "waking", "holding", "gone"}]
      /\ progress' = [progress EXCEPT ![t] = "holding"]
    BY DEF Wake, LinearizerTypeOK
<1>2. present' = present
    BY DEF Wake
<1>3. LinearizerTypeOK'
    BY <1>1, <1>2 DEF LinearizerTypeOK
<1>4. Arrivals'
    BY <1>1 DEF Arrivals
<1>5. Inside' = Inside
    BY <1>1 DEF Inside
<1>6. \A v \in Callers : progress'[v] = "queued" <=> progress[v] = "queued"
    BY <1>1
<1> QED
    BY <1>1, <1>2, <1>3, <1>4, <1>5, <1>6, Zenon DEF PlacesAccountedFor

\* The linearizer loses no place and gives none twice, whoever is cancelled when
\* (_acquire_lock and _release_lock), for any number of users and of places.
THEOREM PlacesAreAccountedFor ==
    ASSUME MaxCallers \in Nat, MaxCount \in Nat \ {0}
    PROVE  LinearizerSpec => [](LinearizerTypeOK /\ PlacesAccountedFor)
<1>1. LinearizerInit => LinInv
    BY LinInit
<1>2. LinInv /\ [LinearizerNext]_linearizerVars => LinInv'
  <2> SUFFICES ASSUME LinInv, [LinearizerNext]_linearizerVars
               PROVE  LinInv'
    OBVIOUS
  <2>1. CASE Acquire
    BY <2>1, LinAcquire
  <2>2. ASSUME NEW t \in Callers, CallerProceeds(t) \/ CancelQueued(t) \/ CancelWaking(t)
        PROVE  LinInv'
    <3>1. CASE Wake(t)
        BY <3>1, LinWake
    <3>2. CASE Leave(t) \/ CancelWaking(t)
        BY <3>2, LinRelease DEF Leave, CancelWaking, Inside
    <3>3. CASE CancelQueued(t)
        BY <3>3, LinCancelQueued
    <3> QED
        BY <2>2, <3>1, <3>2, <3>3 DEF CallerProceeds
  <2>3. CASE UNCHANGED linearizerVars
    <3>1. UNCHANGED <<called, progress, present, count, deferreds>>
        BY <2>3 DEF linearizerVars
    <3>2. Inside' = Inside
        BY <3>1 DEF Inside
    <3> QED
        BY <3>1, <3>2, Zenon DEF LinInv, LinearizerTypeOK, Arrivals, PlacesAccountedFor
  <2> QED
    BY <2>1, <2>2, <2>3 DEF LinearizerNext
<1>3. LinInv => LinearizerTypeOK /\ PlacesAccountedFor
    BY DEF LinInv
<1> QED
    BY <1>1, <1>2, <1>3, PTL DEF LinearizerSpec

-----------------------------------------------------------------------------
(* _EventPeristenceQueue *)

\* A run of tasks with consecutive numbers.
Consecutive(s) == s # <<>> /\ \A i \in DOMAIN s : s[i] = s[1] + i - 1

\* The item at hand is still to be processed.
Pending == item # <<>> /\ outcome[item[1]] = "none"

\* The tasks that are off the queue.
TakenOff == IF Pending THEN Len(done) + Len(item) ELSE Len(done)

EpqTypes ==
    /\ added \in 0..QueueTasks
    /\ queue \in Seq(Seq(Epq!Tasks)) /\ item \in Seq(Epq!Tasks) /\ done \in Seq(Epq!Tasks)
    /\ outcome \in [Epq!Tasks -> {"none", "ok", "failed"}]
    /\ answer \in [Epq!Tasks -> {"none", "ok", "failed"}]

\* What was processed, what is at hand, what is in the queue: the tasks that
\* were added, in their order.
ItemInLine ==
    /\ Len(done) <= added
    /\ item # <<>> => Consecutive(item)
    /\ Pending => item[1] = Len(done) + 1 /\ Len(done) + Len(item) <= added
    /\ item # <<>> /\ ~Pending => item[1] + Len(item) = Len(done) + 1

QueueInLine ==
    /\ \A j \in DOMAIN queue : Consecutive(queue[j])
    /\ queue # <<>> => queue[1][1] = TakenOff + 1
    /\ \A j \in DOMAIN queue : j < Len(queue) => queue[j + 1][1] = queue[j][1] + Len(queue[j])
    /\ \A j \in DOMAIN queue : queue[j][1] + Len(queue[j]) <= added + 1
    /\ queue # <<>> => queue[Len(queue)][1] + Len(queue[Len(queue)]) = added + 1
    /\ queue = <<>> => TakenOff = added

\* Callers are told the truth: the last task of an item is persisted only after
\* the others.
Outcomes ==
    /\ \A t \in Epq!Tasks : outcome[t] # "none" <=> t <= Len(done)
    /\ \A i \in DOMAIN item : outcome[item[Len(item)]] = "ok" => outcome[item[i]] = "ok"
    /\ \A t \in 1..Len(done) : Epq!Told(t) \/ \E i \in DOMAIN item : item[i] = t

LoopRuns == persisting \/ (item = <<>> /\ queue = <<>>)

EpqInv ==
    EpqTypes /\ ItemInLine /\ QueueInLine /\ Outcomes /\ LoopRuns /\ Epq!OrderOfArrival

\* The initial state satisfies the invariant.
LEMMA EpqInit ==
    ASSUME QueueTasks \in Nat, Epq!Init
    PROVE  EpqInv
<1>1. /\ added = 0 /\ queue = <<>> /\ item = <<>> /\ done = <<>>
      /\ outcome = [t \in Epq!Tasks |-> "none"] /\ answer = [t \in Epq!Tasks |-> "none"]
    BY DEF Epq!Init, Epq!NoItem
<1>2. EpqTypes
    BY <1>1 DEF EpqTypes
<1>3. ItemInLine /\ QueueInLine /\ Outcomes /\ LoopRuns /\ Epq!OrderOfArrival
    BY <1>1 DEF ItemInLine, QueueInLine, Outcomes, LoopRuns, Epq!OrderOfArrival, Pending, TakenOff,
                Epq!Tasks
<1> QED
    BY <1>2, <1>3 DEF EpqInv

\* What a caller was told stays true when nothing but tasks are added.
LEMMA ToldStays ==
    ASSUME UNCHANGED <<outcome, answer>>, added \in Nat, added' \in Nat, added <= added', NEW t \in Nat,
           Epq!Told(t)
    PROVE  Epq!Told(t)'
<1>1. t..added \subseteq t..added'
    OBVIOUS
<1> QED
    BY <1>1, Zenon DEF Epq!Told

\* The callback processes the item.
LEMMA EpqProcess ==
    ASSUME QueueTasks \in Nat, EpqInv, NEW n \in 0..QueueTasks, Epq!Process(n)
    PROVE  EpqInv'
<1> USE DEF EpqInv
<1>1. /\ item # <<>> /\ outcome[item[1]] = "none" /\ Pending
      /\ added' = added /\ queue' = queue /\ item' = item /\ answer' = answer
      /\ done' = done \o item
      /\ n \in 0..Len(item)
      /\ outcome' = [t \in Epq!Tasks |-> IF \E i \in 1..n : item[i] = t THEN "ok"
                                          ELSE IF \E i \in DOMAIN item : item[i] = t THEN "failed"
                                          ELSE outcome[t]]
    BY DEF Epq!Process, Epq!NoItem, Pending
<1>2. /\ added \in 0..QueueTasks /\ item \in Seq(Epq!Tasks) /\ done \in Seq(Epq!Tasks)
      /\ Len(item) \in Nat \ {0} /\ DOMAIN item = 1..Len(item) /\ Len(done) \in Nat
      /\ DOMAIN done = 1..Len(done)
    BY <1>1 DEF EpqTypes
<1>a. \A i \in DOMAIN item : item[i] \in Epq!Tasks /\ item[i] \in Nat
    BY <1>2 DEF Epq!Tasks
<1>b. 1 \in DOMAIN item /\ item[1] = Len(done) + 1 /\ Len(done) + Len(item) <= added
    BY <1>1, <1>2 DEF ItemInLine
<1>c. \A i \in DOMAIN item : item[i] = item[1] + i - 1
    BY <1>1 DEF ItemInLine, Consecutive
<1>3. \A i \in 1..Len(item) : item[i] = Len(done) + i
  <2> SUFFICES ASSUME NEW i \in 1..Len(item)
               PROVE  item[i] = Len(done) + i
    OBVIOUS
  <2>1. item[i] = (Len(done) + 1) + i - 1
    BY <1>2, <1>b, <1>c, Zenon
  <2>2. (Len(done) + 1) + i - 1 = Len(done) + i
    BY <1>2
  <2> QED
    BY <2>1, <2>2, Zenon
<1>4. /\ done' \in Seq(Epq!Tasks) /\ Len(done') = Len(done) + Len(item)
      /\ DOMAIN done' = 1 .. Len(done) + Len(item) /\ Len(done') <= added
      /\ \A i \in 1..Len(done) : done'[i] = done[i]
      /\ \A i \in Len(done) + 1 .. Len(done) + Len(item) : done'[i] = item[i - Len(done)]
    BY <1>1, <1>2 DEF ItemInLine
<1>d. \A i \in DOMAIN item : outcome'[item[i]] = IF i <= n THEN "ok" ELSE "failed"
  <2> SUFFICES ASSUME NEW i \in DOMAIN item
               PROVE  outcome'[item[i]] = IF i <= n THEN "ok" ELSE "failed"
    OBVIOUS
  <2>1. (\E k \in 1..n : item[k] = item[i]) <=> i <= n
    <3>1. n \in Nat /\ n <= Len(item) /\ i \in 1..Len(item) /\ item[i] = Len(done) + i
        BY <1>1, <1>2, <1>3
    <3>2. \A k \in 1..n : item[k] = Len(done) + k
        BY <3>1, <1>2, <1>3
    <3> QED
        BY <3>1, <3>2, <1>2
  <2> QED
    BY <2>1, <1>1, <1>a
<1>5. ~Pending'
  <2>1. outcome'[item[1]] # "none"
    BY <1>b, <1>d
  <2> QED
    BY <1>1, <2>1 DEF Pending
<1>6. EpqTypes'
    BY <1>1, <1>4 DEF EpqTypes
<1>7. ItemInLine'
  <2>1. (item # <<>> => Consecutive(item))'
    BY <1>1, <1>c DEF Consecutive
  <2> QED
    BY <1>1, <1>2, <1>4, <1>5, <1>b, <2>1 DEF ItemInLine
<1>8. TakenOff' = TakenOff
    BY <1>1, <1>4, <1>5 DEF TakenOff
<1>9. QueueInLine'
    BY <1>1, <1>8 DEF QueueInLine, Consecutive
<1>10. Epq!OrderOfArrival'
  <2> SUFFICES ASSUME NEW i \in DOMAIN done'
               PROVE  done'[i] = i
    BY DEF Epq!OrderOfArrival
  <2>1. CASE i <= Len(done)
    BY <2>1, <1>2, <1>4 DEF Epq!OrderOfArrival
  <2>2. CASE i > Len(done)
    BY <2>2, <1>2, <1>3, <1>4
  <2> QED
    BY <2>1, <2>2, <1>2, <1>4
<1>11. \A t \in Epq!Tasks : (\E i \in DOMAIN item : item[i] = t) <=>
                            (Len(done) < t /\ t <= Len(done'))
  <2> SUFFICES ASSUME NEW t \in Epq!Tasks
               PROVE  (\E i \in DOMAIN item : item[i] = t) <=> (Len(done) < t /\ t <= Len(done'))
    OBVIOUS
  <2>1. ASSUME Len(done) < t, t <= Len(done')
        PROVE  \E i \in DOMAIN item : item[i] = t
    <3>1. t - Len(done) \in DOMAIN item /\ item[t - Len(done)] = t
        BY <2>1, <1>2, <1>3, <1>4 DEF Epq!Tasks
    <3> QED
        BY <3>1
  <2> QED
    BY <2>1, <1>2, <1>3, <1>4
<1>12. Outcomes'
  <2>1. \A t \in Epq!Tasks : outcome'[t] # "none" <=> t <= Len(done')
    <3> SUFFICES ASSUME NEW t \in Epq!Tasks
                 PROVE  outcome'[t] # "none" <=> t <= Len(done')
        OBVIOUS
    <3>1. outcome[t] # "none" <=> t <= Len(done)
        BY DEF Outcomes
    <3>2. IF Len(done) < t /\ t <= Len(done') THEN outcome'[t] # "none" ELSE outcome'[t] = outcome[t]
      <4>0. 1..n \subseteq DOMAIN item
        BY <1>1, <1>2
      <4>1. (\E i \in 1..n : item[i] = t) => \E i \in DOMAIN item : item[i] = t
        BY <4>0, Zenon
      <4> QED
        BY <4>1, <1>1, <1>11
    <3>3. t \in Nat
        BY DEF Epq!Tasks
    <3> QED
        BY <3>1, <3>2, <3>3, <1>2, <1>4
  <2>2. \A i \in DOMAIN item' : outcome'[item'[Len(item')]] = "ok" => outcome'[item'[i]] = "ok"
    <3>0. item' = item
        BY <1>1
    <3> SUFFICES ASSUME NEW i \in DOMAIN item, outcome'[item[Len(item)]] = "ok"
                 PROVE  outcome'[item[i]] = "ok"
        BY <3>0, Zenon
    <3>1. Len(item) \in DOMAIN item /\ i \in 1..Len(item)
        BY <1>2
    <3>2. Len(item) <= n
        BY <3>1, <1>d
    <3>3. i <= n
        BY <3>1, <3>2, <1>1, <1>2
    <3> QED
        BY <3>3, <1>d
  <2>3. ASSUME NEW t \in 1..Len(done')
        PROVE  Epq!Told(t)' \/ \E i \in DOMAIN item' : item'[i] = t
    <3>1. t \in Epq!Tasks
        BY <1>2, <1>4 DEF Epq!Tasks
    <3>2. CASE t <= Len(done)
      <4>1. Epq!Told(t) \/ \E i \in DOMAIN item : item[i] = t
        BY <3>2 DEF Outcomes
      <4>2. \A u \in Epq!Tasks : u <= Len(done) => outcome'[u] = outcome[u]
        <5>1. \A u \in Epq!Tasks : u <= Len(done) => ~ \E i \in DOMAIN item : item[i] = u
          <6>1. \A u \in Epq!Tasks : u <= Len(done) => ~(Len(done) < u)
            BY <1>2 DEF Epq!Tasks
          <6> QED
            BY <6>1, <1>11, Zenon
        <5>2. 1..n \subseteq DOMAIN item
            BY <1>1, <1>2
        <5> QED
            BY <5>1, <5>2, <1>1
      <4>3. \A u \in t..added : outcome[u] = "failed" => u \in Epq!Tasks /\ u <= Len(done)
        <5>1. \A u \in t..added : u \in Epq!Tasks
            BY <1>2, <3>1 DEF Epq!Tasks
        <5> QED
            BY <5>1 DEF Outcomes
      <4> QED
        BY <3>1, <3>2, <4>1, <4>2, <4>3, <1>1 DEF Epq!Told
    <3>3. CASE t > Len(done)
        BY <3>1, <3>3, <1>1, <1>11
    <3> QED
        BY <3>2, <3>3, <1>2, <1>4
  <2> QED
    BY <2>1, <2>2, <2>3 DEF Outcomes
<1>13. LoopRuns'
    BY <1>1 DEF LoopRuns, Epq!Process
<1> QED
    BY <1>6, <1>7, <1>9, <1>10, <1>12, <1>13

\* The callers are answered.
LEMMA EpqAnswer ==
    ASSUME QueueTasks \in Nat, EpqInv, Epq!Answer
    PROVE  EpqInv'
<1> USE DEF EpqInv
<1>1. /\ item # <<>> /\ outcome[item[1]] # "none" /\ ~Pending /\ item' = <<>>
      /\ added' = added /\ queue' = queue /\ done' = done /\ outcome' = outcome
      /\ answer' = [t \in Epq!Tasks |-> IF \E i \in DOMAIN item : item[i] = t 
                                          THEN outcome[item[Len(item)]] ELSE answer[t]]
    BY DEF Epq!Answer, Epq!NoItem, Pending
<1>2. /\ item \in Seq(Epq!Tasks) /\ 1 \in DOMAIN item /\ item[1] \in Epq!Tasks
      /\ outcome \in [Epq!Tasks -> {"none", "ok", "failed"}]
      /\ added \in Nat /\ added <= QueueTasks /\ Len(done) \in Nat
    BY <1>1 DEF EpqTypes
<1>3. ~Pending' /\ DOMAIN item' = {}
    BY <1>1 DEF Pending
<1>4. EpqTypes'
    BY <1>1, <1>2 DEF EpqTypes
<1>5. ItemInLine'
    BY <1>1, <1>3 DEF ItemInLine
<1>6. TakenOff' = TakenOff
    BY <1>1, <1>3 DEF TakenOff
<1>7. QueueInLine'
    BY <1>1, <1>6 DEF QueueInLine, Consecutive
<1>8. Outcomes'
  <2> DEFINE end == item[Len(item)]
  <2>0. Len(item) \in DOMAIN item /\ item[1] \in Nat /\ DOMAIN item = 1..Len(item) /\ Len(item) \in Nat
    BY <1>1, <1>2 DEF Epq!Tasks
  <2>1. end \in Epq!Tasks /\ end = Len(done) /\ end <= added
    <3>1. end = item[1] + Len(item) - 1 /\ item[1] + Len(item) = Len(done) + 1 /\ Len(done) <= added
        BY <2>0, <1>1 DEF ItemInLine, Consecutive
    <3> QED
        BY <3>1, <2>0, <1>2
  <2>2. outcome[end] \in {"ok", "failed"}
    <3>1. outcome[end] # "none"
        BY <2>1, <1>2 DEF Outcomes
    <3> QED
        BY <3>1, <2>1, <1>2
  <2> HIDE DEF end
  <2>3. ASSUME NEW t \in 1..Len(done)
        PROVE  Epq!Told(t)'
    <3>1. t \in Epq!Tasks
        BY <1>2 DEF ItemInLine, Epq!Tasks
    <3>2. CASE \E i \in DOMAIN item : item[i] = t
      <4>1. answer'[t] = outcome[end]
        BY <3>1, <3>2, <1>1 DEF end
      <4>2. outcome[end] = "ok" => outcome[t] = "ok"
        BY <3>2 DEF Outcomes, end
      <4>3. end \in t..added
        BY <2>1, <1>2
      <4> QED
        BY <4>1, <4>2, <4>3, <2>2, <1>1 DEF Epq!Told
    <3>3. CASE ~ \E i \in DOMAIN item : item[i] = t
      <4>1. Epq!Told(t) /\ answer'[t] = answer[t]
        BY <3>1, <3>3, <1>1 DEF Outcomes
      <4> QED
        BY <4>1, <1>1 DEF Epq!Told
    <3> QED
        BY <3>2, <3>3
  <2> QED
    BY <1>1, <1>3, <2>3 DEF Outcomes
<1>9. LoopRuns'
    BY <1>1 DEF LoopRuns, Epq!Answer
<1>10. Epq!OrderOfArrival'
    BY <1>1 DEF Epq!OrderOfArrival
<1> QED
    BY <1>4, <1>5, <1>7, <1>8, <1>9, <1>10

\* The loop takes the next item, or ends.
LEMMA EpqNextItem ==
    ASSUME QueueTasks \in Nat, EpqInv, Epq!NextItem
    PROVE  EpqInv'
<1> USE DEF EpqInv
<1>1. /\ item = <<>> /\ ~Pending /\ added' = added /\ done' = done /\ outcome' = outcome
      /\ answer' = answer
    BY DEF Epq!NextItem, Epq!NoItem, Pending
<1>2. CASE queue = <<>>
  <2>1. item' = item /\ queue' = queue /\ ~Pending'
    BY <1>1, <1>2 DEF Epq!NextItem, Pending
  <2>2. TakenOff' = TakenOff
    BY <1>1, <2>1 DEF TakenOff
  <2>3. EpqTypes' /\ ItemInLine' /\ QueueInLine' /\ Epq!OrderOfArrival'
    BY <1>1, <2>1, <2>2 DEF EpqTypes, ItemInLine, QueueInLine, Epq!OrderOfArrival, Consecutive
  <2>4. Outcomes'
    BY <1>1, <2>1 DEF Outcomes, Epq!Told
  <2>5. LoopRuns'
    BY <1>1, <1>2, <2>1 DEF LoopRuns
  <2> QED
    BY <2>3, <2>4, <2>5
<1>3. CASE queue # <<>>
  <2>1. item' = Head(queue) /\ queue' = Tail(queue)
    BY <1>3 DEF Epq!NextItem
  <2>2. persisting'
    BY <1>3 DEF Epq!NextItem
  <2>3. /\ queue \in Seq(Seq(Epq!Tasks)) /\ Len(queue) \in Nat \ {0}
        /\ DOMAIN queue = 1..Len(queue) /\ 1 \in DOMAIN queue /\ item' = queue[1]
        /\ item' \in Seq(Epq!Tasks)
    BY <1>3, <2>1 DEF EpqTypes
  <2>4. /\ queue' \in Seq(Seq(Epq!Tasks)) /\ Len(queue') = Len(queue) - 1
        /\ DOMAIN queue' = 1 .. Len(queue) - 1
        /\ \A j \in 1 .. Len(queue) - 1 : queue'[j] = queue[j + 1]
    BY <1>3, <2>1, <2>3
  <2>5. /\ added \in Nat /\ added <= QueueTasks /\ Len(done) \in Nat /\ TakenOff = Len(done)
        /\ Len(done) <= added
    BY <1>1 DEF EpqTypes, TakenOff, ItemInLine
  <2>6. /\ item' # <<>> /\ Consecutive(item') /\ item'[1] = Len(done) + 1
        /\ Len(item') \in Nat \ {0} /\ DOMAIN item' = 1..Len(item')
        /\ Len(done) + Len(item') <= added
    <3>1. Consecutive(item') /\ item'[1] = Len(done) + 1 /\ item'[1] + Len(item') <= added + 1
        BY <1>3, <2>3, <2>5 DEF QueueInLine
    <3>2. item' # <<>>
        BY <3>1 DEF Consecutive
    <3>3. Len(item') \in Nat \ {0} /\ DOMAIN item' = 1..Len(item')
        BY <3>2, <2>3
    <3> QED
        BY <3>1, <3>2, <3>3, <2>5
  <2>7. \A i \in DOMAIN item' : item'[i] = Len(done) + i
    <3> SUFFICES ASSUME NEW i \in DOMAIN item'
                 PROVE  item'[i] = Len(done) + i
        OBVIOUS
    <3>1. item'[i] = (Len(done) + 1) + i - 1
        BY <2>6, Zenon DEF Consecutive
    <3>2. (Len(done) + 1) + i - 1 = Len(done) + i
        BY <2>5, <2>6
    <3> QED
        BY <3>1, <3>2, Zenon
  <2>8. \A i \in DOMAIN item' : item'[i] \in Epq!Tasks /\ item'[i] > Len(done)
    BY <2>3, <2>5, <2>6, <2>7
  <2>9. \A i \in DOMAIN item' : outcome[item'[i]] = "none"
    BY <2>5, <2>8 DEF Outcomes, Epq!Tasks
  <2>10. Pending' /\ TakenOff' = Len(done) + Len(item')
    BY <1>1, <2>6, <2>9 DEF Pending, TakenOff
  <2> HIDE DEF EpqInv
  <2>11. EpqTypes'
    BY <1>1, <2>3, <2>4 DEF EpqTypes, EpqInv
  <2>12. ItemInLine'
    BY <1>1, <2>5, <2>6, <2>10 DEF ItemInLine
  <2>13. QueueInLine
    BY DEF EpqInv
  <2>14. ASSUME Len(queue) = 1
         PROVE  QueueInLine'
    <3>1. queue' = <<>> /\ DOMAIN queue' = {}
        BY <2>14, <2>4
    <3>2. Len(done) + Len(item') = added
      <4>1. queue[1][1] + Len(queue[1]) = added + 1
        BY <2>14, <1>3, <2>13 DEF QueueInLine
      <4>2. item'[1] + Len(item') = added + 1
        BY <4>1, <2>3, Zenon
      <4>3. item'[1] = Len(done) + 1 /\ Len(item') \in Nat
        BY <2>6
      <4> QED
        BY <4>2, <4>3, <2>5
    <3> QED
        BY <3>1, <3>2, <1>1, <2>10 DEF QueueInLine
  <2>15. ASSUME Len(queue) > 1
         PROVE  QueueInLine'
    <3>1. queue' # <<>> /\ Len(queue') >= 1 /\ 1 \in DOMAIN queue'
        BY <2>15, <2>3, <2>4
    <3>2. \A j \in DOMAIN queue' : j + 1 \in DOMAIN queue /\ queue'[j] = queue[j + 1]
        BY <2>3, <2>4
    <3>3. \A j \in DOMAIN queue' : Consecutive(queue'[j])
        BY <3>2, <2>13 DEF QueueInLine
    <3>4. queue'[1][1] = TakenOff' + 1
      <4>0. queue[1 + 1][1] = queue[1][1] + Len(queue[1])
        BY <2>3, <2>13, <2>15 DEF QueueInLine
      <4>1. queue[2][1] = queue[1][1] + Len(queue[1])
        BY <4>0
      <4>2. queue'[1] = queue[2]
        BY <3>1, <3>2
      <4> QED
        BY <4>1, <4>2, <2>3, <2>5, <2>6, <2>10
    <3>5. ASSUME NEW j \in DOMAIN queue', j < Len(queue')
          PROVE  queue'[j + 1][1] = queue'[j][1] + Len(queue'[j])
      <4>1. j + 1 \in DOMAIN queue' /\ j + 1 \in DOMAIN queue /\ j + 1 < Len(queue)
        BY <3>5, <2>3, <2>4
      <4>2. queue[(j + 1) + 1][1] = queue[j + 1][1] + Len(queue[j + 1])
        BY <4>1, <2>13 DEF QueueInLine
      <4> QED
        BY <4>1, <4>2, <3>2
    <3>6. \A j \in DOMAIN queue' : queue'[j][1] + Len(queue'[j]) <= added + 1
        BY <3>2, <2>13 DEF QueueInLine
    <3>7. queue'[Len(queue')] = queue[Len(queue)]
      <4>1. Len(queue') \in DOMAIN queue' /\ Len(queue') + 1 = Len(queue)
        BY <3>1, <2>3, <2>4
      <4>2. queue'[Len(queue')] = queue[Len(queue') + 1]
        BY <4>1, <3>2, Zenon
      <4> QED
        BY <4>1, <4>2, Zenon
    <3>8. queue[Len(queue)][1] + Len(queue[Len(queue)]) = added + 1
        BY <1>3, <2>13 DEF QueueInLine
    <3> QED
        BY <1>1, <3>1, <3>3, <3>4, <3>5, <3>6, <3>7, <3>8 DEF QueueInLine
  <2>16. QueueInLine'
    BY <2>3, <2>14, <2>15
  <2>17. Outcomes'
    <3>1. \A t \in 1..Len(done) : Epq!Told(t)'
      <4>1. DOMAIN item = {}
        BY <1>1
      <4>2. \A t \in 1..Len(done) : Epq!Told(t)
        BY <4>1 DEF EpqInv, Outcomes
      <4> QED
        BY <1>1, <4>2, Zenon DEF Epq!Told
    <3>2. Len(item') \in DOMAIN item'
        BY <2>6
    <3>3. \A i \in DOMAIN item' : outcome'[item'[Len(item')]] # "ok"
        BY <1>1, <2>9, <3>2
    <3> QED
        BY <1>1, <3>1, <3>3 DEF EpqInv, Outcomes
  <2>18. LoopRuns' /\ Epq!OrderOfArrival'
    BY <1>1, <2>2 DEF LoopRuns, Epq!OrderOfArrival, EpqInv
  <2> QED
    BY <2>11, <2>12, <2>16, <2>17, <2>18 DEF EpqInv
<1> QED
    BY <1>2, <1>3

\* The first task of an idle queue is taken up at once.
LEMMA EpqAddIdle ==
    ASSUME QueueTasks \in Nat, EpqInv, NEW k \in Epq!Kinds, Epq!AddToQueue(k), ~persisting
    PROVE  EpqInv'
<1> DEFINE t == added + 1
<1>1. item = <<>> /\ queue = <<>> /\ ~Pending /\ TakenOff = added /\ TakenOff = Len(done)
    BY DEF EpqInv, LoopRuns, Pending, QueueInLine, TakenOff
<1>2. Epq!Merged(t, k) = << <<t>> >>
    BY <1>1 DEF Epq!Merged
<1>3. /\ added' = t /\ item' = <<t>> /\ queue' = <<>> /\ done' = done /\ outcome' = outcome
      /\ answer' = answer
  <2>1. /\ added' = t /\ item' = Epq!Merged(t, k)[1] /\ queue' = Tail(Epq!Merged(t, k))
        /\ done' = done /\ outcome' = outcome /\ answer' = answer
    BY Zenon DEF Epq!AddToQueue
  <2>2. << <<t>> >>[1] = <<t>> /\ Tail(<< <<t>> >>) = <<>>
    OBVIOUS
  <2> QED
    BY <2>1, <2>2, <1>2, Zenon
<1>4. persisting'
    BY DEF Epq!AddToQueue
<1>5. t \in Epq!Tasks /\ added \in Nat /\ added < QueueTasks /\ t \in Nat /\ t = added + 1
    BY DEF Epq!AddToQueue, EpqInv, EpqTypes, Epq!Tasks
<1> HIDE DEF t
<1>6. DOMAIN item' = {1} /\ item'[1] = t /\ Len(item') = 1 /\ item' # <<>>
    BY <1>3
<1>7. outcome[t] = "none"
  <2>1. outcome[t] # "none" <=> t <= Len(done)
    BY <1>5 DEF EpqInv, Outcomes
  <2>2. Len(done) = added
    BY <1>1
  <2>3. ~(t <= Len(done))
    BY <2>2, <1>5
  <2> QED
    BY <2>1, <2>3, Zenon
<1>8. Pending' /\ TakenOff' = t
    BY <1>1, <1>3, <1>5, <1>6, <1>7 DEF Pending, TakenOff
<1>9. EpqTypes'
    BY <1>3, <1>5 DEF EpqTypes, EpqInv
<1>10. Consecutive(item')
    BY <1>5, <1>6 DEF Consecutive
<1>11. ItemInLine'
  <2>1. Len(done') = added /\ Len(done) = added
    BY <1>1, <1>3
  <2> QED
    BY <2>1, <1>3, <1>5, <1>6, <1>8, <1>10 DEF ItemInLine
<1>12. DOMAIN queue' = {}
    BY <1>3
<1>13. QueueInLine'
    BY <1>3, <1>8, <1>12 DEF QueueInLine
<1>14. Outcomes'
  <2>1. DOMAIN item = {}
    BY <1>1
  <2>2. \A u \in 1..Len(done) : Epq!Told(u)
    BY <2>1 DEF EpqInv, Outcomes
  <2>3. \A u \in 1..Len(done) : Epq!Told(u)'
    <3>1. added' \in Nat /\ added <= added' /\ UNCHANGED <<outcome, answer>>
        BY <1>3, <1>5
    <3>2. \A u \in 1..Len(done) : u \in Nat
        OBVIOUS
    <3> QED
        BY <1>5, <2>2, <3>1, <3>2, ToldStays
  <2>4. outcome'[item'[Len(item')]] # "ok" /\ outcome' = outcome /\ done' = done
    BY <1>3, <1>6, <1>7
  <2> QED
    BY <2>3, <2>4 DEF EpqInv, Outcomes
<1>15. LoopRuns' /\ Epq!OrderOfArrival'
    BY <1>3, <1>4 DEF LoopRuns, Epq!OrderOfArrival, EpqInv
<1> QED
    BY <1>9, <1>11, <1>13, <1>14, <1>15 DEF EpqInv

\* A task that comes while the loop runs is merged into the last item, or
\* becomes an item of its own.
LEMMA EpqAddBusy ==
    ASSUME QueueTasks \in Nat, EpqInv, NEW k \in Epq!Kinds, Epq!AddToQueue(k), persisting
    PROVE  EpqInv'
<1> DEFINE t == added + 1
           L == Len(queue)
<1>1. /\ added' = t /\ queue' = Epq!Merged(t, k) /\ item' = item /\ done' = done
      /\ outcome' = outcome /\ answer' = answer
    BY Zenon DEF Epq!AddToQueue
<1>2. persisting'
    BY DEF Epq!AddToQueue
<1>3. /\ t \in Epq!Tasks /\ added \in Nat /\ added < QueueTasks /\ t \in Nat /\ t = added + 1
      /\ queue \in Seq(Seq(Epq!Tasks)) /\ L \in Nat /\ DOMAIN queue = 1..L
      /\ (queue # <<>> => L >= 1) /\ (queue = <<>> => L = 0)
    BY DEF Epq!AddToQueue, EpqInv, EpqTypes, Epq!Tasks
<1> HIDE DEF t, L
<1>4. TakenOff' = TakenOff /\ (Pending' <=> Pending)
    BY <1>1 DEF TakenOff, Pending
<1>5. ItemInLine'
  <2>1. ItemInLine /\ added <= t
    BY <1>3 DEF EpqInv
  <2>2. Len(done) \in Nat /\ Len(item) \in Nat
    BY DEF EpqInv, EpqTypes
  <2> QED
    BY <1>1, <1>3, <1>4, <2>1, <2>2 DEF ItemInLine, Consecutive
<1>6. Outcomes'
  <2>1. \A u \in 1..Len(done) : Epq!Told(u) => Epq!Told(u)'
    <3>1. added' \in Nat /\ added <= added' /\ UNCHANGED <<outcome, answer>>
        BY <1>1, <1>3
    <3>2. \A u \in 1..Len(done) : u \in Nat
        OBVIOUS
    <3> QED
        BY <1>3, <3>1, <3>2, ToldStays
  <2> QED
    BY <1>1, <2>1 DEF EpqInv, Outcomes
<1>7. LoopRuns' /\ Epq!OrderOfArrival'
    BY <1>1, <1>2 DEF LoopRuns, Epq!OrderOfArrival, EpqInv
<1>8. QueueInLine
    BY DEF EpqInv
<1>9. \A j \in 1..L : /\ queue[j] \in Seq(Epq!Tasks) /\ queue[j] # <<>>
                      /\ Len(queue[j]) \in Nat \ {0} /\ queue[j][1] \in Nat
  <2> SUFFICES ASSUME NEW j \in 1..L
               PROVE  /\ queue[j] \in Seq(Epq!Tasks) /\ queue[j] # <<>>
                      /\ Len(queue[j]) \in Nat \ {0} /\ queue[j][1] \in Nat
    OBVIOUS
  <2>1. queue[j] \in Seq(Epq!Tasks)
    BY <1>3
  <2>2. queue[j] # <<>>
    BY <1>3, <1>8 DEF QueueInLine, Consecutive
  <2> QED
    BY <2>1, <2>2 DEF Epq!Tasks
<1>10. ASSUME queue # <<>>, queue' = [queue EXCEPT ![Len(queue)] = Append(@, t)]
       PROVE  queue' \in Seq(Seq(Epq!Tasks)) /\ QueueInLine'
  <2> DEFINE q == queue[L]
             r == Append(q, t)
  <2>1. L \in 1..L
    BY <1>3, <1>10
  <2>2. q \in Seq(Epq!Tasks) /\ Len(q) \in Nat \ {0} /\ q[1] \in Nat
    BY <1>9, <2>1
  <2>3. q[1] + Len(q) = t
    BY <1>3, <1>8, <1>10 DEF QueueInLine, L
  <2>4. \A i \in 1..Len(q) : q[i] = q[1] + i - 1
    <3>1. Consecutive(q)
        BY <1>3, <1>8, <2>1 DEF QueueInLine
    <3>2. DOMAIN q = 1..Len(q)
        BY <2>2
    <3> QED
        BY <3>1, <3>2, Zenon DEF Consecutive
  <2> HIDE DEF q
  <2>5. r \in Seq(Epq!Tasks) /\ Len(r) = Len(q) + 1 /\ DOMAIN r = 1 .. Len(q) + 1
    BY <1>3, <2>2
  <2>6. (\A i \in 1..Len(q) : r[i] = q[i]) /\ r[Len(q) + 1] = t
    BY <1>3, <2>2
  <2>7. r[1] = q[1]
    BY <2>2, <2>6
  <2>8. queue' = [queue EXCEPT ![L] = r]
    BY <1>10 DEF q, L
  <2> HIDE DEF r
  <2>9. queue' \in Seq(Seq(Epq!Tasks)) /\ Len(queue') = L /\ DOMAIN queue' = 1..L
    BY <1>3, <2>1, <2>5, <2>8 DEF L
  <2>10. queue' # <<>>
    BY <2>1, <2>9
  <2>11. queue'[L] = r /\ \A j \in 1..L : j # L => queue'[j] = queue[j]
    BY <1>3, <2>1, <2>8, Zenon
  <2>12. Consecutive(r)
    <3> SUFFICES ASSUME NEW i \in 1 .. Len(q) + 1
                 PROVE  r[i] = r[1] + i - 1
        BY <2>2, <2>5 DEF Consecutive
    <3>1. CASE i = Len(q) + 1
        BY <3>1, <2>2, <2>3, <2>6, <2>7, <1>3
    <3>2. CASE i # Len(q) + 1
      <4>1. i \in 1..Len(q)
        BY <3>2, <2>2
      <4> QED
        BY <4>1, <2>4, <2>6, <2>7, Zenon
    <3> QED
        BY <3>1, <3>2
  <2>13. r[1] + Len(r) = t + 1
    <3>1. r[1] + Len(r) = q[1] + (Len(q) + 1)
        BY <2>5, <2>7, Zenon
    <3>2. \A x, y \in Nat : x + (y + 1) = (x + y) + 1
        OBVIOUS
    <3>3. q[1] \in Nat /\ Len(q) \in Nat
        BY <2>2
    <3>4. q[1] + (Len(q) + 1) = (q[1] + Len(q)) + 1
        BY <3>2, <3>3, Zenon
    <3> QED
        BY <3>1, <3>4, <2>3, Zenon
  <2>14. \A j \in 1..L : /\ Consecutive(queue'[j]) /\ queue'[j][1] = queue[j][1]
                         /\ queue'[j][1] + Len(queue'[j]) <= t + 1
    <3> SUFFICES ASSUME NEW j \in 1..L
                 PROVE  /\ Consecutive(queue'[j]) /\ queue'[j][1] = queue[j][1]
                        /\ queue'[j][1] + Len(queue'[j]) <= t + 1
        OBVIOUS
    <3>1. CASE j = L
      <4>1. queue'[j] = r /\ queue[j] = q
        BY <3>1, <2>11 DEF q
      <4> QED
        BY <4>1, <2>7, <2>12, <2>13, <1>3
    <3>2. CASE j # L
      <4>1. queue[j][1] + Len(queue[j]) <= added + 1 /\ Consecutive(queue[j])
        BY <1>3, <1>8 DEF QueueInLine
      <4>2. queue'[j] = queue[j]
        BY <3>2, <2>11
      <4>3. queue[j][1] \in Nat /\ Len(queue[j]) \in Nat
        BY <1>9
      <4>4. queue[j][1] + Len(queue[j]) <= t + 1
        BY <4>1, <4>3, <1>3
      <4> QED
        BY <4>1, <4>2, <4>4, Zenon
    <3> QED
        BY <3>1, <3>2
  <2>15. ASSUME NEW j \in 1..L, j < L
         PROVE  queue'[j + 1][1] = queue'[j][1] + Len(queue'[j])
    <3>1. j # L /\ j + 1 \in 1..L
        BY <2>15, <1>3
    <3>2. queue[j + 1][1] = queue[j][1] + Len(queue[j])
        BY <2>15, <1>3, <1>8 DEF QueueInLine, L
    <3> QED
        BY <3>1, <3>2, <2>11, <2>14
  <2>16. queue'[1][1] = TakenOff + 1
    <3>1. 1 \in 1..L
        BY <1>3, <1>10
    <3> QED
        BY <3>1, <2>14, <1>8, <1>10 DEF QueueInLine
  <2>17. queue'[L][1] + Len(queue'[L]) = t + 1
    BY <2>11, <2>13
  <2> QED
    BY <1>1, <1>4, <2>9, <2>10, <2>14, <2>15, <2>16, <2>17 DEF QueueInLine
<1>11. ASSUME queue' = Append(queue, <<t>>)
       PROVE  queue' \in Seq(Seq(Epq!Tasks)) /\ QueueInLine'
  <2>1. /\ DOMAIN queue' = 1 .. L + 1 /\ Len(queue') = L + 1 /\ queue' # <<>>
        /\ \A j \in 1..L : queue'[j] = queue[j]
        /\ queue'[L + 1] = <<t>> /\ queue' \in Seq(Seq(Epq!Tasks))
    BY <1>3, <1>11 DEF L
  <2>2. <<t>>[1] = t /\ Len(<<t>>) = 1 /\ Consecutive(<<t>>)
    BY <1>3 DEF Consecutive
  <2>3. \A j \in 1 .. L + 1 : Consecutive(queue'[j]) /\ queue'[j][1] + Len(queue'[j]) <= t + 1
    <3> SUFFICES ASSUME NEW j \in 1 .. L + 1
                 PROVE  Consecutive(queue'[j]) /\ queue'[j][1] + Len(queue'[j]) <= t + 1
        OBVIOUS
    <3>1. CASE j = L + 1
        BY <3>1, <2>1, <2>2, <1>3
    <3>2. CASE j # L + 1
      <4>1. j \in 1..L
        BY <3>2, <1>3
      <4>2. queue[j][1] + Len(queue[j]) <= added + 1 /\ Consecutive(queue[j])
        BY <4>1, <1>3, <1>8 DEF QueueInLine
      <4> QED
        BY <4>1, <4>2, <2>1, <1>3, <1>9
    <3> QED
        BY <3>1, <3>2
  <2>4. ASSUME NEW j \in 1..L
        PROVE  queue'[j + 1][1] = queue'[j][1] + Len(queue'[j])
    <3>1. CASE j = L
      <4>1. queue # <<>>
        BY <3>1, <1>3
      <4>2. queue[L][1] + Len(queue[L]) = t
        BY <4>1, <1>3, <1>8 DEF QueueInLine, L
      <4> QED
        BY <3>1, <4>2, <2>1, <2>2
    <3>2. CASE j # L
      <4>1. j < L /\ j + 1 \in 1..L
        BY <3>2, <1>3
      <4>2. queue[j + 1][1] = queue[j][1] + Len(queue[j])
        BY <4>1, <1>3, <1>8 DEF QueueInLine, L
      <4> QED
        BY <4>1, <4>2, <2>1
    <3> QED
        BY <3>1, <3>2
  <2>5. queue'[1][1] = TakenOff + 1
    <3>1. CASE queue = <<>>
      <4>1. TakenOff = added /\ L = 0
        BY <3>1, <1>3, <1>8 DEF QueueInLine
      <4> QED
        BY <4>1, <2>1, <2>2, <1>3
    <3>2. CASE queue # <<>>
      <4>1. 1 \in 1..L
        BY <3>2, <1>3
      <4> QED
        BY <3>2, <4>1, <2>1, <1>8 DEF QueueInLine
    <3> QED
        BY <3>1, <3>2
  <2>6. queue'[L + 1][1] + Len(queue'[L + 1]) = t + 1
    BY <2>1, <2>2, <1>3
  <2>7. \A j \in 1 .. L + 1 : j < L + 1 => j \in 1..L
    BY <1>3
  <2> QED
    BY <1>1, <1>4, <2>1, <2>3, <2>4, <2>5, <2>6, <2>7 DEF QueueInLine
<1>12. queue' \in Seq(Seq(Epq!Tasks)) /\ QueueInLine'
  <2>1. CASE queue # <<>> /\ taskKind[queue[Len(queue)][1]] = k
    <3>1. queue' = [queue EXCEPT ![Len(queue)] = Append(@, t)]
        BY <2>1, <1>1 DEF Epq!Merged
    <3> QED
        BY <2>1, <3>1, <1>10
  <2>2. CASE ~(queue # <<>> /\ taskKind[queue[Len(queue)][1]] = k)
    <3>1. queue' = Append(queue, <<t>>)
        BY <2>2, <1>1 DEF Epq!Merged
    <3> QED
        BY <3>1, <1>11
  <2> QED
    BY <2>1, <2>2
<1>13. EpqTypes'
    BY <1>1, <1>3, <1>12 DEF EpqTypes, EpqInv
<1> QED
    BY <1>5, <1>6, <1>7, <1>12, <1>13 DEF EpqInv

\* The events of a room are persisted in the order in which they were handed
\* in (add_to_queue, handle_queue_loop), and when the loop is over every caller
\* has been told, and nobody that events were persisted that were not, for any
\* number of tasks.
THEOREM PersistedInOrder ==
    ASSUME QueueTasks \in Nat
    PROVE  Epq!Spec => [](OrderOfArrival /\ EveryoneAnswered)
<1>1. Epq!Init => EpqInv
    BY EpqInit
<1>2. EpqInv /\ [Epq!Next]_(Epq!vars) => EpqInv'
  <2> SUFFICES ASSUME EpqInv, [Epq!Next]_(Epq!vars)
               PROVE  EpqInv'
    OBVIOUS
  <2>1. ASSUME NEW k \in Epq!Kinds, Epq!AddToQueue(k)
        PROVE  EpqInv'
    BY <2>1, EpqAddIdle, EpqAddBusy
  <2>2. ASSUME NEW n \in 0..QueueTasks, Epq!Process(n)
        PROVE  EpqInv'
    BY <2>2, EpqProcess
  <2>3. CASE Epq!Answer
    BY <2>3, EpqAnswer
  <2>4. CASE Epq!NextItem
    BY <2>4, EpqNextItem
  <2>5. CASE UNCHANGED Epq!vars
    BY <2>5 DEF Epq!vars, EpqInv, EpqTypes, ItemInLine, QueueInLine, Outcomes, LoopRuns,
                Epq!OrderOfArrival, Epq!Told, Consecutive, Pending, TakenOff
  <2> QED
    BY <2>1, <2>2, <2>3, <2>4, <2>5 DEF Epq!Next, Epq!LoopStep
<1>3. EpqInv => OrderOfArrival /\ EveryoneAnswered
  <2> SUFFICES ASSUME EpqInv, ~persisting
               PROVE  queue = <<>> /\ \A t \in 1..added : Epq!Told(t)
    BY DEF EpqInv, OrderOfArrival, EveryoneAnswered, Epq!EveryoneAnswered
  <2>1. queue = <<>> /\ item = <<>>
    BY DEF EpqInv, LoopRuns
  <2>2. Len(done) = added /\ DOMAIN item = {} /\ added \in 0..QueueTasks
    BY <2>1 DEF EpqInv, EpqTypes, QueueInLine, TakenOff, Pending
  <2> QED
    BY <2>1, <2>2 DEF EpqInv, Outcomes, Epq!Tasks
<1> QED
    BY <1>1, <1>2, <1>3, PTL DEF Epq!Spec

\* Every caller of add_to_queue is answered, and told that its events were
\* persisted only if they were.
COROLLARY EveryoneIsAnswered ==
    ASSUME QueueTasks \in Nat
    PROVE  Epq!Spec => []EveryoneAnswered
BY PersistedInOrder, PTL

-----------------------------------------------------------------------------
(* TaskScheduler *)

\* MAX_CONCURRENT_RUNNING_TASKS is kept, although three paths launch tasks.
AtMostCapacity == IsFiniteSet(running) /\ Cardinality(running) <= Capacity

TaskTypes ==
    /\ status \in [Scheduler!Tasks -> {"none", "over"} \union Scheduler!Unfinished]
    /\ stage \in [Scheduler!Tasks -> {"idle", "starting", "executing", "recorded", "stuck"}]

TaskInv == TaskTypes /\ AtMostCapacity /\ Scheduler!WorkSurvivesRestart

LEMMA TaskTryLaunch ==
    ASSUME Capacity \in Nat, TaskInv, NEW t, Scheduler!TryLaunch(t),
           UNCHANGED status \/ (status[t] = "none" /\ status' = [status EXCEPT ![t] = "active"])
    PROVE  TaskInv'
<1>1. CASE Scheduler!CanLaunch(t)
  <2>1. running' = running \union {t} /\ stage' = [stage EXCEPT ![t] = "starting"]
    BY <1>1 DEF Scheduler!TryLaunch, Scheduler!Launch
  <2>2. AtMostCapacity'
    <3>1. IsFiniteSet(running') /\ Cardinality(running') = Cardinality(running) + 1
        BY <1>1, <2>1, FS_AddElement DEF TaskInv, AtMostCapacity, Scheduler!CanLaunch
    <3>2. Cardinality(running) \in Nat
        BY FS_CardinalityType, Zenon DEF TaskInv, AtMostCapacity
    <3>3. Cardinality(running) < Capacity
        BY <1>1, Zenon DEF Scheduler!CanLaunch, Cardinality, Scheduler!Cardinality
    <3> QED
        BY <3>1, <3>2, <3>3 DEF AtMostCapacity
  <2>3. TaskTypes'
    BY <2>1 DEF TaskInv, TaskTypes, Scheduler!Unfinished
  <2>4. Scheduler!WorkSurvivesRestart'
    BY <2>1 DEF TaskInv, TaskTypes, Scheduler!WorkSurvivesRestart
  <2> QED
    BY <2>2, <2>3, <2>4 DEF TaskInv
<1>2. CASE ~Scheduler!CanLaunch(t)
  <2>1. UNCHANGED <<running, stage>>
    BY <1>2 DEF Scheduler!TryLaunch
  <2> QED
    BY <2>1 DEF TaskInv, TaskTypes, AtMostCapacity, Scheduler!WorkSurvivesRestart,
                Scheduler!Unfinished
<1> QED
    BY <1>1, <1>2

\* TaskScheduler: however tasks are scheduled, launched by commands and by the
\* loop, fail and are cut off by restarts, what was started and is not over is
\* ACTIVE in the table, and there are never more than Capacity of them.
THEOREM StartedWorkSurvives ==
    ASSUME Capacity \in Nat, MaxTasks \in Nat
    PROVE  Scheduler!Spec => [](WorkSurvivesRestart /\ AtMostCapacity)
<1>1. Scheduler!Init => TaskInv
  <2> SUFFICES ASSUME Scheduler!Init
               PROVE  TaskInv
    OBVIOUS
  <2>1. AtMostCapacity
    BY FS_EmptySet DEF Scheduler!Init, AtMostCapacity
  <2> QED
    BY <2>1 DEF Scheduler!Init, TaskInv, TaskTypes, Scheduler!WorkSurvivesRestart
<1>2. TaskInv /\ [Scheduler!Next]_(Scheduler!vars) => TaskInv'
  <2> SUFFICES ASSUME TaskInv, [Scheduler!Next]_(Scheduler!vars)
               PROVE  TaskInv'
    OBVIOUS
  <2> USE DEF TaskInv, TaskTypes, AtMostCapacity, Scheduler!WorkSurvivesRestart,
              Scheduler!Unfinished
  <2>1. CASE Scheduler!LoopStart
    BY <2>1 DEF Scheduler!LoopStart
  <2>2. CASE Scheduler!LoopLaunch
    BY <2>2, TaskTryLaunch DEF Scheduler!LoopLaunch
  <2>3. CASE Scheduler!LoopTurn
    BY <2>3 DEF Scheduler!LoopTurn
  <2>4. CASE Scheduler!Restart
    BY <2>4, FS_EmptySet DEF Scheduler!Restart
  <2>5. CASE UNCHANGED Scheduler!vars
    BY <2>5 DEF Scheduler!vars
  <2>6. ASSUME NEW t \in Scheduler!Tasks
        PROVE  /\ Scheduler!ScheduleLater(t) => TaskInv'
               /\ Scheduler!TimeComes(t) => TaskInv'
               /\ Scheduler!LaunchTaskById(t) => TaskInv'
    BY <2>6 DEF Scheduler!ScheduleLater, Scheduler!IsNext, Scheduler!TimeComes,
                Scheduler!LaunchTaskById
  <2>7. ASSUME NEW t \in Scheduler!Tasks
        PROVE  Scheduler!ScheduleHere(t) => TaskInv'
    BY <2>7 DEF Scheduler!ScheduleHere, Scheduler!IsNext
  <2>8. ASSUME NEW t \in Scheduler!Tasks
        PROVE  Scheduler!ScheduleElsewhere(t) => TaskInv'
    BY <2>8 DEF Scheduler!ScheduleElsewhere, Scheduler!IsNext
  <2>9. ASSUME NEW t \in Scheduler!Tasks
        PROVE  Scheduler!LaunchFetched(t) => TaskInv'
    BY <2>9, TaskTryLaunch DEF Scheduler!LaunchFetched
  <2>10. ASSUME NEW t \in Scheduler!Tasks
         PROVE  /\ Scheduler!Start(t) => TaskInv'
                /\ Scheduler!Record(t) => TaskInv'
    BY <2>10 DEF Scheduler!Start, Scheduler!Record
  <2>11. ASSUME NEW t \in Scheduler!Tasks
         PROVE  /\ Scheduler!StartFails(t) => TaskInv'
                /\ Scheduler!RecordFails(t) => TaskInv'
    BY <2>11 DEF Scheduler!StartFails, Scheduler!RecordFails
  <2>12. ASSUME NEW t \in Scheduler!Tasks, Scheduler!Finish(t)
         PROVE  TaskInv'
    <3>1. running' = running \ {t}
        BY <2>12 DEF Scheduler!Finish
    <3>2. IsFiniteSet(running') /\ Cardinality(running') \in Nat /\ Cardinality(running) \in Nat
        BY <3>1, FS_RemoveElement, FS_CardinalityType, Zenon
    <3>3. Cardinality(running') \in {Cardinality(running), Cardinality(running) - 1}
        BY <3>1, FS_RemoveElement
    <3>4. AtMostCapacity'
        BY <3>2, <3>3
    <3> QED
        BY <2>12, <3>4 DEF Scheduler!Finish
  <2> QED
    BY <2>1, <2>2, <2>3, <2>4, <2>5, <2>6, <2>7, <2>8, <2>9, <2>10, <2>11, <2>12
    DEF Scheduler!Next, Scheduler!Loop, Scheduler!Work
<1>3. TaskInv => WorkSurvivesRestart /\ AtMostCapacity
    BY DEF TaskInv, WorkSurvivesRestart
<1> QED
    BY <1>1, <1>2, <1>3, PTL DEF Scheduler!Spec
=============================================================================
