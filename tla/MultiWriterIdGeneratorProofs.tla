-------------------- MODULE MultiWriterIdGeneratorProofs --------------------
(***************************************************************************)
(* The positions of MultiWriterIdGenerator are sound for every set of      *)
(* instances, writers and transactions, provided that every writer has a   *)
(* row in stream_positions.                                                *)
(***************************************************************************)
EXTENDS MultiWriterIdGenerator, Extrema, TLAPS

(***************************************************************************)
(* What a position is worth.  P gives for each transaction the ids that it *)
(* holds and may yet write, s is the last id of the sequence:              *)
(*   Clear      nobody is going to write v;                                *)
(*   ClearOf    writer w is not going to write an id at or below v;        *)
(*   ClearAll   nobody is going to write an id at or below v.              *)
(* Each survives every step, because new ids are above the sequence.       *)
(***************************************************************************)
Clear(s, P, v) == v <= s /\ \A t \in Txns : v \notin P[t]
ClearOf(s, P, w, v) == v <= s /\ \A t \in Txns : \A id \in P[t] : Home[t] = w => v < id
ClearAll(s, P, v) == v <= s /\ \A t \in Txns : \A id \in P[t] : v < id

\* Transactions shrink their ids or take them from above the sequence.
Grows(s, P, Q) == \A t \in Txns : \A id \in Q[t] : id \in P[t] \/ s < id

PendingIds == [t \in Txns |-> Pending(t)]

(***************************************************************************)
(* The inductive invariant.                                                *)
(***************************************************************************)

\* Transactions: ids are distinct, allocated, and registered as the code says.
TxnInv ==
    /\ \A t \in Txns : \A id \in ids[t] : 1 <= id /\ id <= seq
    /\ \A t, u \in Txns : \A id \in ids[t] : id \in ids[u] => t = u
    /\ \A t \in Txns : pc[t] \in {"added", "open", "committed", "failed"} =>
           ids[t] \subseteq unfinishedIds[Home[t]]
    /\ \A t \in Txns : pc[t] \in {"added", "open", "committed", "failed"} => ids[t] # {}
    /\ \A t \in Txns : pc[t] \in {"idle", "save", "upsert"} => ids[t] = {}
    /\ \A t \in Txns : pc[t] = "fetch" /\ need[t] = 0 => ids[t] # {}
    /\ \A t \in Txns : pc[t] \in {"fetch", "added"} =>
           cmax[t] <= seq /\ \A id \in ids[t] : cmax[t] < id

\* Only the owner of an id has it as unfinished.
UnfinishedInv == \A i \in Instances : \A id \in unfinishedIds[i] :
    /\ 1 <= id /\ id <= seq
    /\ \A t \in Txns : id \in PendingIds[t] => Home[t] = i

FinishedInv == \A i \in Instances : \A id \in finishedIds[i] :
    1 <= id /\ Clear(seq, PendingIds, id)

KnownInv == \A i \in Instances : \A id \in knownPersisted[i] :
    1 <= id /\ Clear(seq, PendingIds, id)

RowsInv == \A row \in rows : 1 <= row[2] /\ Clear(seq, PendingIds, row[2])

\* The positions a generator keeps.
UptoInv == \A i \in Instances :
    1 <= persistedUpto[i] /\ ClearAll(seq, PendingIds, persistedUpto[i])

CurrentInv == \A i \in Instances : \A w \in Writers :
    /\ 1 <= currentPositions[i][w]
    /\ Clear(seq, PendingIds, currentPositions[i][w])
    /\ ClearOf(seq, PendingIds, w, currentPositions[i][w])

LocalInv == \A i \in Instances :
    /\ 1 <= maxLocal[i]
    /\ Clear(seq, PendingIds, maxLocal[i])
    /\ ClearOf(seq, PendingIds, i, maxLocal[i])

\* The positions the database and the network keep.
SavedInv == \A w \in Writers :
    /\ 1 <= streamPositions[w]
    /\ Clear(seq, PendingIds, streamPositions[w])
    /\ ClearOf(seq, PendingIds, w, streamPositions[w])

TokenInv == \A t \in Txns : pc[t] = "upsert" =>
    /\ 1 <= token[t]
    /\ Clear(seq, PendingIds, token[t])
    /\ ClearOf(seq, PendingIds, Home[t], token[t])

SentInv == \A m \in sent :
    /\ 1 <= m[2]
    /\ Clear(seq, PendingIds, m[2])
    /\ ClearOf(seq, PendingIds, m[1], m[2])

\* The highest id an instance has seen is not pending on another one.
SeenInv == \A i \in Instances :
    /\ 1 <= maxSeen[i]
    /\ maxSeen[i] <= seq
    /\ \A t \in Txns : maxSeen[i] \in PendingIds[t] => Home[t] = i

IInv ==
    /\ TypeOK
    /\ TxnInv
    /\ UnfinishedInv /\ FinishedInv /\ KnownInv /\ RowsInv
    /\ UptoInv /\ CurrentInv /\ LocalInv
    /\ SavedInv /\ TokenInv /\ SentInv
    /\ SeenInv

-----------------------------------------------------------------------------
(***************************************************************************)
(* The helpers of _add_persisted_position                                  *)
(***************************************************************************)

\* The while loop of _add_persisted_position only moves forward, and only
\* over known positions.
LEMMA SkipForwardProp ==
    ASSUME NEW upto \in Nat, NEW known \in SUBSET Nat,
           NEW b \in Nat, \A k \in known : k <= b
    PROVE  /\ SkipForward(upto, known) \in Nat
           /\ upto <= SkipForward(upto, known)
           /\ SkipForward(upto, known) = upto \/ SkipForward(upto, known) \in known
           /\ \A k \in Nat : upto < k /\ k <= SkipForward(upto, known) => k \in known
<1> DEFINE run == {m \in known : m > upto /\ \A k \in upto + 1 .. m : k \in known}
<1>1. SkipForward(upto, known) = IF run = {} THEN upto ELSE Max(run)
  BY DEF SkipForward
<1>2. CASE run = {}
  BY <1>1, <1>2
<1>3. CASE run # {}
  <2>1. Max(run) \in run
    BY <1>3, MaxNat
  <2>2. PICK m \in run : m = Max(run)
    BY <2>1
  <2>3. m \in known /\ m > upto /\ \A k \in upto + 1 .. m : k \in known
    BY <2>2
  <2>4. SkipForward(upto, known) = m
    BY <1>1, <1>3, <2>2
  <2> QED
    BY <2>3, <2>4
<1> QED
  BY <1>2, <1>3

\* min_curr is at or below the positions of all the writers that may hold ids.
LEMMA MinCurrProp ==
    ASSUME NEW i \in Instances, NEW m \in [Writers -> Nat], NEW busy \in BOOLEAN,
           \A w \in Writers : 1 <= m[w]
    PROVE  /\ MinCurr(i, m, busy) \in {m[w] : w \in Writers}
           /\ \A w \in Writers : w # i \/ busy => MinCurr(i, m, busy) <= m[w]
<1> DEFINE our == OurPosition(i, m)
           others == {m[w] : w \in DOMAIN m \ {i}}
           low == IF others = {} THEN our ELSE Min(others)
<1>1. MinCurr(i, m, busy) = IF our # 0 /\ busy THEN MinOf2(low, our) ELSE low
  BY DEF MinCurr
<1>2. others \in SUBSET Nat
  OBVIOUS
<1>3. CASE others = {}
  <2>1. Writers = {i}
    BY <1>3, ConstantsAssumption
  <2>2. our = m[i]
    BY <2>1 DEF OurPosition
  <2> QED
    BY <1>1, <1>3, <2>1, <2>2 DEF MinOf2
<1>4. CASE others # {}
  <2>1. Min(others) \in others /\ \A x \in others : Min(others) <= x
    BY <1>2, <1>4, MinNat
  <2>2. CASE i \in Writers
    <3>1. our = m[i]
      BY <2>2 DEF OurPosition
    <3>2. low = Min(others)
      BY <1>4
    <3>3. low \in Nat /\ our \in Nat /\ our # 0
      BY <1>2, <2>1, <2>2, <3>1, <3>2
    <3>4. MinCurr(i, m, busy) \in {low, our} /\ MinCurr(i, m, busy) <= low
          /\ (busy => MinCurr(i, m, busy) <= our)
      <4> HIDE DEF our, low
      <4> QED
        BY <1>1, <3>3 DEF MinOf2
    <3>5. \A w \in Writers : w # i => low <= m[w]
      BY <2>1, <3>2
    <3>6. low \in {m[w] : w \in Writers} /\ our \in {m[w] : w \in Writers}
      BY <2>1, <2>2, <3>1, <3>2
    <3> HIDE DEF our, low, others
    <3>7. ASSUME NEW w \in Writers, w # i \/ busy PROVE MinCurr(i, m, busy) <= m[w]
      <4>1. CASE w # i
        BY <3>3, <3>4, <3>5, <4>1
      <4>2. CASE w = i
        BY <3>1, <3>4, <3>7, <4>2
      <4> QED
        BY <4>1, <4>2
    <3> QED
      BY <3>4, <3>6, <3>7
  <2>3. CASE i \notin Writers
    <3>1. our = 0
      BY <2>3 DEF OurPosition
    <3>2. MinCurr(i, m, busy) = Min(others)
      BY <1>1, <1>4, <3>1
    <3>3. others = {m[w] : w \in Writers}
      BY <2>3
    <3> HIDE DEF our, low, others
    <3>4. \A w \in Writers : m[w] \in others
      BY <3>3
    <3> QED
      BY <2>1, <3>2, <3>3, <3>4
  <2> QED
    BY <2>2, <2>3
<1> QED
  BY <1>3, <1>4

-----------------------------------------------------------------------------
(***************************************************************************)
(* Clear positions                                                         *)
(***************************************************************************)

\* A clear position stays clear while transactions give up their ids or take
\* new ones from the sequence.
LEMMA ClearStable ==
    ASSUME NEW s \in Nat, NEW s2 \in Nat, s <= s2,
           NEW P \in [Txns -> SUBSET Nat], NEW Q \in [Txns -> SUBSET Nat],
           Grows(s, P, Q), NEW v \in Nat
    PROVE  /\ Clear(s, P, v) => Clear(s2, Q, v)
           /\ \A w : ClearOf(s, P, w, v) => ClearOf(s2, Q, w, v)
           /\ ClearAll(s, P, v) => ClearAll(s2, Q, v)
<1>1. ASSUME NEW t \in Txns, NEW id \in Q[t] PROVE id \in Nat /\ (id \in P[t] \/ s < id)
  BY <1>1 DEF Grows
<1>2. Clear(s, P, v) => Clear(s2, Q, v)
  BY <1>1 DEF Clear
<1>3. ASSUME NEW w, ClearOf(s, P, w, v) PROVE ClearOf(s2, Q, w, v)
  BY <1>1, <1>3 DEF ClearOf
<1>4. ClearAll(s, P, v) => ClearAll(s2, Q, v)
  BY <1>1 DEF ClearAll
<1> QED
  BY <1>2, <1>3, <1>4

\* A position below which nothing is pending is itself clear.
LEMMA ClearAllProp ==
    ASSUME NEW s \in Nat, NEW P \in [Txns -> SUBSET Nat], NEW v \in Nat, ClearAll(s, P, v)
    PROVE  Clear(s, P, v) /\ \A w : ClearOf(s, P, w, v)
<1>1. ASSUME NEW t \in Txns, v \in P[t] PROVE FALSE
  BY <1>1 DEF ClearAll
<1> QED
  BY <1>1 DEF ClearAll, Clear, ClearOf

\* The greater of two clear positions is clear.
LEMMA ClearMax ==
    ASSUME NEW s \in Nat, NEW P \in [Txns -> SUBSET Nat], NEW x \in Nat, NEW y \in Nat
    PROVE  /\ MaxOf2(x, y) \in Nat /\ x <= MaxOf2(x, y) /\ y <= MaxOf2(x, y)
           /\ MaxOf2(x, y) \in {x, y}
           /\ Clear(s, P, x) /\ Clear(s, P, y) => Clear(s, P, MaxOf2(x, y))
           /\ \A w : ClearOf(s, P, w, x) /\ ClearOf(s, P, w, y) => ClearOf(s, P, w, MaxOf2(x, y))
           /\ ClearAll(s, P, x) /\ ClearAll(s, P, y) => ClearAll(s, P, MaxOf2(x, y))
  BY DEF MaxOf2

\* Skipping forward over clear positions leads to a clear position.
LEMMA SkipForwardClear ==
    ASSUME NEW s \in Nat, NEW P \in [Txns -> SUBSET Nat],
           NEW upto \in Nat, NEW known \in SUBSET Nat,
           ClearAll(s, P, upto), \A k \in known : Clear(s, P, k)
    PROVE  /\ SkipForward(upto, known) \in Nat
           /\ upto <= SkipForward(upto, known)
           /\ ClearAll(s, P, SkipForward(upto, known))
<1> DEFINE u == SkipForward(upto, known)
<1>1. \A k \in known : k <= s
  BY DEF Clear
<1>2. /\ u \in Nat /\ upto <= u /\ (u = upto \/ u \in known)
      /\ \A k \in Nat : upto < k /\ k <= u => k \in known
  BY <1>1, SkipForwardProp
<1> HIDE DEF u
<1>3. u <= s
  BY <1>1, <1>2 DEF ClearAll
<1>4. ASSUME NEW t \in Txns, NEW id \in P[t] PROVE u < id
  <2>1. id \in Nat /\ upto < id
    BY DEF ClearAll
  <2>2. id \notin known
    BY DEF Clear
  <2> QED
    BY <1>2, <2>1, <2>2
<1>5. ClearAll(s, P, u)
  BY <1>3, <1>4 DEF ClearAll
<1> QED
  BY <1>2, <1>5 DEF u

-----------------------------------------------------------------------------
(***************************************************************************)
(* _add_persisted_position, whatever calls it: the positions of the map    *)
(* are clear of their writers' ids, the ids it is told of are clear, and   *)
(* the instance is busy when it has ids of its own pending.                *)
(***************************************************************************)
Sound(s, P, i, m, busy, upto, known, new) ==
    /\ s \in Nat
    /\ P \in [Txns -> SUBSET Nat]
    /\ i \in Instances
    /\ m \in [Writers -> Nat]
    /\ busy \in BOOLEAN
    /\ upto \in Nat
    /\ known \in SUBSET Nat
    /\ new \in SUBSET Nat
    /\ \A w \in Writers : 1 <= m[w] /\ ClearOf(s, P, w, m[w])
    /\ ClearAll(s, P, upto)
    /\ \A k \in known \union new : Clear(s, P, k)
    /\ ~busy => \A t \in Txns : Home[t] = i => P[t] = {}

\* min_curr is a position below which nothing is pending.
LEMMA BaseClear ==
    ASSUME NEW s, NEW P, NEW i, NEW m, NEW busy, NEW upto, NEW known, NEW new,
           Sound(s, P, i, m, busy, upto, known, new)
    PROVE  LET base == MaxOf2(MinCurr(i, m, busy), upto)
           IN  base \in Nat /\ upto <= base /\ ClearAll(s, P, base)
<1> USE DEF Sound
<1> DEFINE c == MinCurr(i, m, busy)
<1>1. /\ c \in {m[w] : w \in Writers}
      /\ \A w \in Writers : w # i \/ busy => c <= m[w]
  BY MinCurrProp
<1>2. c \in Nat /\ c <= s
  BY <1>1 DEF ClearOf
<1>3. ASSUME NEW t \in Txns, NEW id \in P[t] PROVE c < id
  <2>1. Home[t] \in Writers /\ (Home[t] # i \/ busy)
    BY ConstantsAssumption
  <2>2. c <= m[Home[t]] /\ m[Home[t]] \in Nat /\ id \in Nat
    BY <1>1, <2>1
  <2>3. m[Home[t]] < id
    BY <2>1 DEF ClearOf
  <2> HIDE DEF c
  <2> QED
    BY <1>2, <2>2, <2>3
<1>4. ClearAll(s, P, c)
  BY <1>2, <1>3 DEF ClearAll
<1> QED
  BY <1>2, <1>4, ClearMax

\* The new _persisted_upto_position is at or above the old one, and sound.
LEMMA AddPersistedUptoProp ==
    ASSUME NEW s, NEW P, NEW i, NEW m, NEW busy, NEW upto, NEW known, NEW new,
           Sound(s, P, i, m, busy, upto, known, new)
    PROVE  LET u == AddPersistedUpto(i, m, busy, upto, known, new)
           IN  u \in Nat /\ upto <= u /\ ClearAll(s, P, u)
<1> DEFINE base == MaxOf2(MinCurr(i, m, busy), upto)
           all == known \union new
           u == SkipForward(base, all)
<1>1. base \in Nat /\ upto <= base /\ ClearAll(s, P, base)
  BY BaseClear
<1>2. s \in Nat /\ P \in [Txns -> SUBSET Nat] /\ upto \in Nat /\ all \in SUBSET Nat
      /\ \A k \in all : Clear(s, P, k)
  BY DEF Sound
<1> HIDE DEF base, all
<1>3. u \in Nat /\ base <= u /\ ClearAll(s, P, u)
  BY <1>1, <1>2, SkipForwardClear
<1>4. upto <= u
  BY <1>1, <1>2, <1>3
<1> QED
  BY <1>3, <1>4 DEF AddPersistedUpto, base, all

\* So is the new _max_position_of_local_instance, when the highest id seen is
\* not pending on another instance.
LEMMA AddPersistedLocalProp ==
    ASSUME NEW s, NEW P, NEW i, NEW m, NEW busy, NEW upto, NEW known, NEW new,
           Sound(s, P, i, m, busy, upto, known, new),
           NEW seen \in Nat, seen <= s, \A t \in Txns : seen \in P[t] => Home[t] = i,
           NEW local \in Nat, Clear(s, P, local), ClearOf(s, P, i, local)
    PROVE  LET l == AddPersistedLocal(i, m, busy, upto, known, new, seen, local)
           IN  l \in Nat /\ local <= l /\ Clear(s, P, l) /\ ClearOf(s, P, i, l)
<1> DEFINE base == MaxOf2(MinCurr(i, m, busy), upto)
           before == new \ {Max(new)}
           last == IF before = {} THEN base ELSE SkipForward(base, known \union before)
           bumped == MaxOf2(local, last)
<1>1. base \in Nat /\ ClearAll(s, P, base)
  BY BaseClear
<1>2. /\ s \in Nat /\ P \in [Txns -> SUBSET Nat] /\ known \union before \in SUBSET Nat
      /\ \A k \in known \union before : Clear(s, P, k)
  BY DEF Sound
<1>3. last \in Nat /\ ClearAll(s, P, last)
  <2> HIDE DEF base, before
  <2>1. SkipForward(base, known \union before) \in Nat
        /\ ClearAll(s, P, SkipForward(base, known \union before))
    BY <1>1, <1>2, SkipForwardClear
  <2> QED
    BY <1>1, <2>1
<1> HIDE DEF last
<1>4. Clear(s, P, last) /\ ClearOf(s, P, i, last)
  BY <1>2, <1>3, ClearAllProp
<1>5. bumped \in Nat /\ local <= bumped /\ Clear(s, P, bumped) /\ ClearOf(s, P, i, bumped)
  BY <1>2, <1>3, <1>4, ClearMax
<1> HIDE DEF bumped
<1>6. AddPersistedLocal(i, m, busy, upto, known, new, seen, local)
        = IF busy THEN bumped ELSE MaxOf2(seen, bumped)
  BY DEF AddPersistedLocal, bumped, last
<1>7. CASE busy
  BY <1>5, <1>6, <1>7
<1>8. CASE ~busy
  <2>1. \A t \in Txns : Home[t] = i => P[t] = {}
    BY <1>8 DEF Sound
  <2>2. Clear(s, P, seen) /\ ClearOf(s, P, i, seen)
    BY <2>1 DEF Clear, ClearOf
  <2>3. MaxOf2(seen, bumped) \in Nat /\ bumped <= MaxOf2(seen, bumped)
        /\ Clear(s, P, MaxOf2(seen, bumped)) /\ ClearOf(s, P, i, MaxOf2(seen, bumped))
    BY <1>2, <1>5, <2>2, ClearMax
  <2>4. local <= MaxOf2(seen, bumped)
    BY <1>5, <2>3
  <2> QED
    BY <1>6, <1>8, <2>3, <2>4
<1> QED
  BY <1>7, <1>8

-----------------------------------------------------------------------------
(***************************************************************************)
(* The parts of the invariant a step leaves alone                          *)
(***************************************************************************)

\* Pending ids are natural numbers, and belong to a transaction and to its writer.
LEMMA PendingType ==
    ASSUME TypeOK
    PROVE  PendingIds \in [Txns -> SUBSET Nat] /\ \A t \in Txns : PendingIds[t] \subseteq ids[t]
  BY DEF TypeOK, PendingIds, Pending

Steady ==
    /\ seq' \in Nat
    /\ seq <= seq'
    /\ PendingIds' \in [Txns -> SUBSET Nat]
    /\ Grows(seq, PendingIds, PendingIds')

\* A stable id stays stable across a step that keeps the rows and the unfinished ids.
LEMMA StableInStep ==
    ASSUME IInv, Steady
    PROVE  \A v \in Nat :
               /\ Clear(seq, PendingIds, v) => Clear(seq', PendingIds', v)
               /\ \A w : ClearOf(seq, PendingIds, w, v) => ClearOf(seq', PendingIds', w, v)
               /\ ClearAll(seq, PendingIds, v) => ClearAll(seq', PendingIds', v)
<1>1. seq \in Nat /\ PendingIds \in [Txns -> SUBSET Nat]
  BY PendingType DEF IInv, TypeOK
<1> QED
  BY <1>1, ClearStable DEF Steady

\* A variable that a step leaves alone keeps its part of the invariant.
LEMMA Frame ==
    ASSUME IInv, Steady
    PROVE  /\ unfinishedIds' = unfinishedIds => UnfinishedInv'
           /\ finishedIds' = finishedIds => FinishedInv'
           /\ knownPersisted' = knownPersisted => KnownInv'
           /\ rows' = rows => RowsInv'
           /\ persistedUpto' = persistedUpto => UptoInv'
           /\ currentPositions' = currentPositions => CurrentInv'
           /\ maxLocal' = maxLocal => LocalInv'
           /\ streamPositions' = streamPositions => SavedInv'
           /\ token' = token /\ (\A t \in Txns : pc'[t] = "upsert" => pc[t] = "upsert")
                  => TokenInv'
           /\ sent' = sent => SentInv'
           /\ maxSeen' = maxSeen => SeenInv'
<1> USE StableInStep
<1>1. seq \in Nat /\ seq' \in Nat /\ seq <= seq'
  BY DEF IInv, TypeOK, Steady
<1>2. ASSUME NEW v \in Nat, v <= seq, NEW i, \A t \in Txns : v \in PendingIds[t] => Home[t] = i
      PROVE  v <= seq' /\ \A t \in Txns : v \in PendingIds'[t] => Home[t] = i
  BY <1>1, <1>2 DEF Steady, Grows
<1>3. unfinishedIds' = unfinishedIds => UnfinishedInv'
  BY <1>1, <1>2 DEF IInv, TypeOK, UnfinishedInv
<1>4. finishedIds' = finishedIds => FinishedInv'
  BY DEF IInv, TypeOK, FinishedInv
<1>5. knownPersisted' = knownPersisted => KnownInv'
  BY DEF IInv, TypeOK, KnownInv
<1>6. rows' = rows => RowsInv'
  BY DEF IInv, TypeOK, RowsInv
<1>7. persistedUpto' = persistedUpto => UptoInv'
  BY DEF IInv, TypeOK, UptoInv
<1>8. currentPositions' = currentPositions => CurrentInv'
  BY DEF IInv, TypeOK, CurrentInv
<1>9. maxLocal' = maxLocal => LocalInv'
  BY DEF IInv, TypeOK, LocalInv
<1>10. streamPositions' = streamPositions => SavedInv'
  BY DEF IInv, TypeOK, SavedInv
<1>11. token' = token /\ (\A t \in Txns : pc'[t] = "upsert" => pc[t] = "upsert") => TokenInv'
  BY DEF IInv, TypeOK, TokenInv
<1>12. sent' = sent => SentInv'
  BY DEF IInv, TypeOK, SentInv
<1>13. maxSeen' = maxSeen => SeenInv'
  BY <1>1, <1>2 DEF IInv, TypeOK, SeenInv
<1> QED
  BY <1>3, <1>4, <1>5, <1>6, <1>7, <1>8, <1>9, <1>10, <1>11, <1>12, <1>13

\* A step that allocates nothing and makes no transaction pending is steady.
LEMMA SteadyStep ==
    ASSUME IInv, TypeOK', seq' = seq,
           \A t \in Txns : ids'[t] \subseteq ids[t],
           \A t \in Txns : pc'[t] \in {"fetch", "added", "open"} /\ ids'[t] # {}
                               => pc[t] \in {"fetch", "added", "open"}
    PROVE  Steady
<1>1. seq \in Nat /\ PendingIds' \in [Txns -> SUBSET Nat]
  BY DEF IInv, TypeOK, PendingIds, Pending
<1>2. ASSUME NEW t \in Txns, NEW id \in PendingIds'[t] PROVE id \in PendingIds[t]
  BY <1>2 DEF PendingIds, Pending
<1> QED
  BY <1>1, <1>2 DEF Steady, Grows

-----------------------------------------------------------------------------
(***************************************************************************)
(* One lemma per action                                                    *)
(***************************************************************************)

\* Setting the in-flight marker keeps the invariant: it is the highest id seen, which is below
\* whatever the sequence will return.
LEMMA StartFetchStep ==
    ASSUME IInv, NEW t \in Txns, NEW n \in 1 .. MaxBatch, StartFetch(t, n)
    PROVE  IInv'
<1> USE DEF StartFetch, dbVars, genVars
<1>1. Home[t] \in Instances /\ n \in Nat /\ n # 0
  BY ConstantsAssumption
<1>2. TypeOK'
  BY <1>1 DEF IInv, TypeOK, Phases
<1>3. Steady
  BY <1>2, SteadyStep DEF IInv, TypeOK, TxnInv
<1>4. TxnInv'
  BY <1>1 DEF IInv, TypeOK, TxnInv, SeenInv
<1>5. \A u \in Txns : pc'[u] = "upsert" => pc[u] = "upsert"
  BY DEF IInv, TypeOK
<1> QED
  BY <1>2, <1>3, <1>4, <1>5, Frame DEF IInv

\* nextval on the sequence (_load_next_mult_id_txn) keeps the invariant: new ids lie above every position.
LEMMA NextValStep ==
    ASSUME IInv, NEW t \in Txns, NextVal(t)
    PROVE  IInv'
<1> USE DEF NextVal, genVars
<1>1. TypeOK'
  BY DEF IInv, TypeOK, Phases
<1>2. Steady
  <2>1. PendingIds' \in [Txns -> SUBSET Nat]
    BY <1>1 DEF TypeOK, PendingIds, Pending
  <2>2. Grows(seq, PendingIds, PendingIds')
    BY DEF IInv, TypeOK, Grows, PendingIds, Pending
  <2>3. seq' \in Nat /\ seq <= seq'
    BY DEF IInv, TypeOK
  <2> QED
    BY <2>1, <2>2, <2>3 DEF Steady
<1>3. TxnInv'
  BY DEF IInv, TypeOK, TxnInv
<1> QED
  BY <1>1, <1>2, <1>3, Frame DEF IInv

\* A failed or cancelled allocation keeps the invariant: its ids are never written.
LEMMA FetchFailsStep ==
    ASSUME IInv, NEW t \in Txns, FetchFails(t)
    PROVE  IInv'
<1> USE DEF FetchFails, dbVars, genVars
<1>1. TypeOK'
  BY DEF IInv, TypeOK, Phases
<1>2. Steady
  BY <1>1, SteadyStep DEF IInv, TypeOK
<1>3. TxnInv'
  BY DEF IInv, TypeOK, TxnInv
<1>4. \A u \in Txns : pc'[u] = "upsert" => pc[u] = "upsert"
  BY DEF IInv, TypeOK
<1> QED
  BY <1>1, <1>2, <1>3, <1>4, Frame DEF IInv

\* Adding fetched ids to _unfinished_ids keeps the invariant: they were guarded by _in_flight_fetches.
LEMMA AddUnfinishedStep ==
    ASSUME IInv, NEW t \in Txns, AddUnfinished(t)
    PROVE  IInv'
<1> DEFINE i == Home[t]
           new == unfinishedIds[i] \union ids[t]
           top == MaxOf2(maxSeen[i], Max(new))
<1>1. /\ pc[t] = "fetch" /\ need[t] = 0 /\ pc' = [pc EXCEPT ![t] = "added"]
      /\ unfinishedIds' = [unfinishedIds EXCEPT ![i] = new]
      /\ maxSeen' = [maxSeen EXCEPT ![i] = top]
      /\ UNCHANGED <<seq, rows, streamPositions, currentPositions, finishedIds, persistedUpto,
                     knownPersisted, maxLocal, need, ids, cmax, token, sent, restarts>>
  BY DEF AddUnfinished, dbVars
<1>2. i \in Instances
  BY ConstantsAssumption
<1>3. ids[t] # {} /\ new \in SUBSET Nat /\ new # {} /\ seq \in Nat /\ \A id \in new : id <= seq
  BY <1>1, <1>2 DEF IInv, TypeOK, TxnInv, UnfinishedInv
<1>4. Max(new) \in new
  BY <1>3, MaxNat
<1> HIDE DEF new
<1>5. top \in Nat /\ top \in {maxSeen[i], Max(new)} /\ maxSeen[i] <= top
  BY <1>2, <1>3, <1>4, ClearMax, PendingType DEF IInv, TypeOK
<1> HIDE DEF top
<1>6. TypeOK'
  BY <1>1, <1>2, <1>3, <1>5 DEF IInv, TypeOK, Phases
<1>7. Steady
  BY <1>1, <1>6, SteadyStep DEF IInv, TypeOK
<1>8. TxnInv'
  BY <1>1, <1>2 DEF IInv, TypeOK, TxnInv, new
<1>9. PendingIds' = PendingIds
  BY <1>1 DEF IInv, TypeOK, PendingIds, Pending
<1>10. \A id \in ids[t] : 1 <= id /\ id <= seq /\ \A u \in Txns : id \in PendingIds[u] => Home[u] = i
  BY PendingType DEF IInv, TxnInv
<1>11. ASSUME NEW id \in new
       PROVE  1 <= id /\ id <= seq /\ \A u \in Txns : id \in PendingIds[u] => Home[u] = i
  BY <1>2, <1>10 DEF new, IInv, UnfinishedInv
<1>12. UnfinishedInv'
  BY <1>1, <1>2, <1>9, <1>11 DEF IInv, TypeOK, UnfinishedInv
<1>13. SeenInv'
  BY <1>1, <1>2, <1>4, <1>5, <1>9, <1>11 DEF IInv, TypeOK, SeenInv
<1>14. \A u \in Txns : pc'[u] = "upsert" => pc[u] = "upsert"
  BY <1>1 DEF IInv, TypeOK
<1> QED
  BY <1>1, <1>6, <1>7, <1>8, <1>12, <1>13, <1>14, Frame DEF IInv

\* The finally block that drops the in-flight fetch keeps the invariant.
LEMMA DropInFlightStep ==
    ASSUME IInv, NEW t \in Txns, DropInFlight(t)
    PROVE  IInv'
<1> USE DEF DropInFlight, dbVars, genVars
<1>1. TypeOK'
  BY DEF IInv, TypeOK, Phases
<1>2. Steady
  BY <1>1, SteadyStep DEF IInv, TypeOK
<1>3. TxnInv'
  BY DEF IInv, TypeOK, TxnInv
<1>4. \A u \in Txns : pc'[u] = "upsert" => pc[u] = "upsert"
  BY DEF IInv, TypeOK
<1> QED
  BY <1>1, <1>2, <1>3, <1>4, Frame DEF IInv

\* Committing the rows of a transaction keeps the invariant: its ids are still unfinished.
LEMMA CommitStep ==
    ASSUME IInv, NEW t \in Txns, NEW used \in SUBSET ids[t], Commit(t, used)
    PROVE  IInv'
<1> USE DEF Commit, genVars
<1>1. TypeOK'
  <2>1. rows' \in SUBSET (Writers \X Nat)
    <3>1. \A id \in used : <<Home[t], id>> \in Writers \X Nat
      BY ConstantsAssumption DEF IInv, TypeOK
    <3>2. rows \subseteq Writers \X Nat
      BY DEF IInv, TypeOK
    <3> QED
      BY <3>1, <3>2
  <2>2. pc' \in [Txns -> Phases]
    BY DEF IInv, TypeOK, Phases
  <2> QED
    BY <2>1, <2>2 DEF IInv, TypeOK
<1>2. Steady
  BY <1>1, SteadyStep DEF IInv, TypeOK
<1>3. TxnInv'
  BY DEF IInv, TypeOK, TxnInv
<1>4. \A u \in Txns : pc'[u] = "upsert" => pc[u] = "upsert"
  BY DEF IInv, TypeOK
<1>5. RowsInv'
  <2>1. ASSUME NEW id \in used PROVE 1 <= id /\ Clear(seq', PendingIds', id)
    <3>1. \A u \in Txns : id \notin PendingIds'[u]
      BY DEF IInv, TypeOK, TxnInv, PendingIds, Pending
    <3>2. 1 <= id /\ id <= seq'
      BY DEF IInv, TxnInv
    <3> QED
      BY <3>1, <3>2 DEF Clear
  <2>2. ASSUME NEW row \in rows PROVE 1 <= row[2] /\ Clear(seq', PendingIds', row[2])
    BY <1>2, StableInStep DEF IInv, TypeOK, RowsInv
  <2> QED
    BY <2>1, <2>2 DEF RowsInv
<1> QED
  BY <1>1, <1>2, <1>3, <1>4, <1>5, Frame DEF IInv

\* Rolling a transaction back keeps the invariant.
LEMMA RollbackStep ==
    ASSUME IInv, NEW t \in Txns, Rollback(t)
    PROVE  IInv'
<1> USE DEF Rollback, dbVars, genVars
<1>1. TypeOK'
  BY DEF IInv, TypeOK, Phases
<1>2. Steady
  BY <1>1, SteadyStep DEF IInv, TypeOK
<1>3. TxnInv'
  BY DEF IInv, TypeOK, TxnInv
<1>4. \A u \in Txns : pc'[u] = "upsert" => pc[u] = "upsert"
  BY DEF IInv, TypeOK
<1> QED
  BY <1>1, <1>2, <1>3, <1>4, Frame DEF IInv

\* An instance that is not busy has nothing pending.
LEMMA NotBusy ==
    ASSUME IInv, NEW i \in Instances, NEW t \in Txns, Home[t] = i, NEW id \in PendingIds[t]
    PROVE  id \in unfinishedIds[i] \/ (cmax[t] \in InFlight(i) /\ cmax[t] < id)
<1>1. pc[t] \in {"fetch", "added", "open"} /\ id \in ids[t]
  BY DEF PendingIds, Pending
<1>2. CASE pc[t] = "fetch"
  BY <1>1, <1>2 DEF InFlight, IInv, TxnInv
<1>3. CASE pc[t] # "fetch"
  BY <1>1, <1>3 DEF IInv, TxnInv
<1> QED
  BY <1>2, <1>3

\* _mark_ids_as_finished keeps the invariant: the position it reaches covers completed ids only.
LEMMA MarkFinishedStep ==
    ASSUME IInv, NEW t \in Txns, MarkFinished(t)
    PROVE  /\ IInv'
           /\ \A i \in Instances : persistedUpto[i] <= persistedUpto'[i] /\ maxLocal[i] <= maxLocal'[i]
<1> DEFINE i     == Home[t]
           unf   == unfinishedIds[i] \ ids[t]
           fin   == finishedIds[i] \union ids[t]
           safe  == SafeFinished(i, unf, fin)
           busy  == unf # {} \/ InFlight(i) # {}
           curr  == currentPositions[i][i]
           pos   == IF safe = {} THEN curr ELSE MaxOf2(curr, Max(safe))
           local == IF safe = {} THEN maxLocal[i] ELSE MaxOf2(maxLocal[i], pos)
           map   == [currentPositions[i] EXCEPT ![i] = pos]
           upto2 == AddPersistedUpto(i, map, busy, persistedUpto[i], knownPersisted[i], ids[t])
           known2 == AddPersistedKnown(i, map, busy, persistedUpto[i], knownPersisted[i], ids[t])
           local2 == AddPersistedLocal(i, map, busy, persistedUpto[i], knownPersisted[i],
                                       ids[t], maxSeen[i], local)
<1>1. /\ pc[t] \in {"committed", "failed"}
      /\ pc' = [pc EXCEPT ![t] = IF @ = "committed" THEN "save" ELSE "idle"]
      /\ ids' = [ids EXCEPT ![t] = {}]
      /\ unfinishedIds' = [unfinishedIds EXCEPT ![i] = unf]
      /\ finishedIds' = [finishedIds EXCEPT ![i] = fin \ safe]
      /\ currentPositions' = [currentPositions EXCEPT ![i] = map]
      /\ persistedUpto' = [persistedUpto EXCEPT ![i] = upto2]
      /\ knownPersisted' = [knownPersisted EXCEPT ![i] = known2]
      /\ maxLocal' = [maxLocal EXCEPT ![i] = local2]
      /\ UNCHANGED <<seq, rows, streamPositions, maxSeen, need, cmax, token, sent, restarts>>
  BY DEF MarkFinished, dbVars
<1>2. i \in Instances /\ i \in Writers
  BY ConstantsAssumption
<1>3. seq \in Nat /\ PendingIds \in [Txns -> SUBSET Nat] /\ TypeOK
  BY PendingType DEF IInv, TypeOK
\* The ids just finished are pending nowhere, and so are the ones before.
<1>4. \A id \in ids[t] : id \in Nat /\ 1 <= id /\ Clear(seq, PendingIds, id)
  <2>1. \A u \in Txns : \A id \in ids[t] : id \notin PendingIds[u]
    BY <1>1 DEF IInv, TxnInv, PendingIds, Pending
  <2> QED
    BY <1>3, <2>1 DEF IInv, TypeOK, TxnInv, Clear
<1>5. fin \in SUBSET Nat /\ \A id \in fin : 1 <= id /\ Clear(seq, PendingIds, id)
  BY <1>2, <1>3, <1>4 DEF IInv, TypeOK, FinishedInv
<1>6. safe \subseteq fin
  BY DEF SafeFinished
\* What is safe is below all that is pending on this instance.
<1>7. ASSUME NEW s \in safe, NEW u \in Txns, Home[u] = i, NEW id \in PendingIds[u]
      PROVE  s < id
  <2>1. id \in Nat /\ s \in Nat /\ \A x \in UnsafeFrom(i, unf) : s < x
    BY <1>3, <1>5, <1>6 DEF SafeFinished
  <2>2. u # t
    BY <1>1 DEF PendingIds, Pending
  <2>3. id \in ids[u] /\ id \notin ids[t]
    BY <1>3, <2>2, PendingType DEF IInv, TxnInv
  <2>4. CASE id \in unfinishedIds[i]
    BY <2>1, <2>3, <2>4 DEF UnsafeFrom
  <2>5. CASE id \notin unfinishedIds[i]
    <3>1. cmax[u] \in InFlight(i) /\ cmax[u] < id
      BY <1>2, <1>7, <2>5, NotBusy
    <3>2. s < cmax[u] + 1 /\ cmax[u] \in Nat
      BY <1>3, <2>1, <3>1 DEF UnsafeFrom, TypeOK
    <3> QED
      BY <2>1, <3>1, <3>2
  <2> QED
    BY <2>4, <2>5
<1>8. ~busy => \A u \in Txns : Home[u] = i => PendingIds[u] = {}
  <2>1. ASSUME ~busy, NEW u \in Txns, Home[u] = i, NEW id \in PendingIds[u] PROVE FALSE
    <3>1. id \in unfinishedIds[i]
      BY <1>2, <2>1, NotBusy
    <3>2. u # t /\ id \in ids[u]
      BY <1>1, <2>1 DEF PendingIds, Pending
    <3>3. id \notin ids[t]
      BY <3>2 DEF IInv, TxnInv
    <3> QED
      BY <2>1, <3>1, <3>3
  <2> QED
    BY <2>1
<1>9. curr \in Nat /\ 1 <= curr /\ Clear(seq, PendingIds, curr) /\ ClearOf(seq, PendingIds, i, curr)
  BY <1>2, <1>3 DEF IInv, TypeOK, CurrentInv
<1> HIDE DEF curr, unf, fin
<1>10. pos \in Nat /\ 1 <= pos /\ Clear(seq, PendingIds, pos) /\ ClearOf(seq, PendingIds, i, pos)
  <2>1. CASE safe = {}
    BY <1>9, <2>1
  <2>2. CASE safe # {}
    <3>1. \A s \in safe : s <= seq
      BY <1>5, <1>6 DEF Clear
    <3>2. Max(safe) \in safe
      BY <1>3, <1>5, <1>6, <2>2, <3>1, MaxNat
    <3>3. Max(safe) \in Nat /\ 1 <= Max(safe) /\ Clear(seq, PendingIds, Max(safe))
      BY <1>5, <1>6, <3>2
    <3>4. ClearOf(seq, PendingIds, i, Max(safe))
      BY <1>7, <3>1, <3>2 DEF ClearOf
    <3> HIDE DEF safe
    <3>5. pos = MaxOf2(curr, Max(safe))
      BY <2>2
    <3> QED
      BY <1>3, <1>9, <3>3, <3>4, <3>5, ClearMax
  <2> QED
    BY <2>1, <2>2
<1> HIDE DEF pos, safe
<1>11. local \in Nat /\ maxLocal[i] <= local /\ 1 <= local
       /\ Clear(seq, PendingIds, local) /\ ClearOf(seq, PendingIds, i, local)
  <2>1. maxLocal[i] \in Nat /\ 1 <= maxLocal[i] /\ Clear(seq, PendingIds, maxLocal[i])
        /\ ClearOf(seq, PendingIds, i, maxLocal[i])
    BY <1>2, <1>3 DEF IInv, TypeOK, LocalInv
  <2>2. LET l == MaxOf2(maxLocal[i], pos)
        IN  l \in Nat /\ maxLocal[i] <= l /\ 1 <= l
            /\ Clear(seq, PendingIds, l) /\ ClearOf(seq, PendingIds, i, l)
    BY <1>3, <1>10, <2>1, ClearMax DEF MaxOf2
  <2> QED
    BY <2>1, <2>2
<1> HIDE DEF local
<1>12. map \in [Writers -> Nat]
       /\ \A w \in Writers : 1 <= map[w] /\ Clear(seq, PendingIds, map[w])
                             /\ ClearOf(seq, PendingIds, w, map[w])
  BY <1>2, <1>3, <1>10 DEF IInv, TypeOK, CurrentInv
<1> HIDE DEF map, busy
<1>13. Sound(seq, PendingIds, i, map, busy, persistedUpto[i], knownPersisted[i], ids[t])
  <2>1. persistedUpto[i] \in Nat /\ ClearAll(seq, PendingIds, persistedUpto[i])
    BY <1>2, <1>3 DEF IInv, TypeOK, UptoInv
  <2>2. knownPersisted[i] \in SUBSET Nat /\ \A k \in knownPersisted[i] : Clear(seq, PendingIds, k)
    BY <1>2, <1>3 DEF IInv, TypeOK, KnownInv
  <2>3. busy \in BOOLEAN
    BY DEF busy
  <2>4. ids[t] \in SUBSET Nat
    BY <1>3 DEF TypeOK
  <2> QED
    BY <1>2, <1>3, <1>4, <1>8, <1>12, <2>1, <2>2, <2>3, <2>4 DEF Sound
<1>14. upto2 \in Nat /\ persistedUpto[i] <= upto2 /\ ClearAll(seq, PendingIds, upto2)
  BY <1>13, AddPersistedUptoProp
<1>15. known2 \in SUBSET Nat /\ \A k \in known2 : 1 <= k /\ Clear(seq, PendingIds, k)
  BY <1>2, <1>3, <1>4 DEF AddPersistedKnown, IInv, TypeOK, KnownInv
<1>16. local2 \in Nat /\ local <= local2
       /\ Clear(seq, PendingIds, local2) /\ ClearOf(seq, PendingIds, i, local2)
  <2>1. maxSeen[i] \in Nat /\ maxSeen[i] <= seq
        /\ \A u \in Txns : maxSeen[i] \in PendingIds[u] => Home[u] = i
    BY <1>2, <1>3 DEF IInv, TypeOK, SeenInv
  <2> QED
    BY <1>11, <1>13, <2>1, AddPersistedLocalProp
<1> HIDE DEF upto2, known2, local2
<1>17. TypeOK'
  <2>1. pc' \in [Txns -> Phases] /\ ids' \in [Txns -> SUBSET Nat]
    BY <1>1, <1>3 DEF TypeOK, Phases
  <2>2. unfinishedIds' \in [Instances -> SUBSET Nat] /\ finishedIds' \in [Instances -> SUBSET Nat]
    BY <1>1, <1>2, <1>3, <1>5 DEF TypeOK, unf
  <2>3. currentPositions' \in [Instances -> [Writers -> Nat]]
    BY <1>1, <1>2, <1>3, <1>12 DEF TypeOK
  <2>4. persistedUpto' \in [Instances -> Nat] /\ knownPersisted' \in [Instances -> SUBSET Nat]
        /\ maxLocal' \in [Instances -> Nat]
    BY <1>1, <1>2, <1>3, <1>14, <1>15, <1>16 DEF TypeOK
  <2> QED
    BY <1>1, <1>3, <2>1, <2>2, <2>3, <2>4 DEF TypeOK
<1>18. PendingIds' = PendingIds
  BY <1>1, <1>3 DEF TypeOK, PendingIds, Pending
<1>19. Steady
  BY <1>1, <1>3, <1>17, SteadyStep DEF TypeOK
<1>20. TxnInv'
  <2>1. \A u \in Txns : u # t => ids[u] \intersect ids[t] = {}
    BY DEF IInv, TxnInv
  <2>2. \A u \in Txns : u # t => pc'[u] = pc[u] /\ ids'[u] = ids[u]
    BY <1>1, <1>3 DEF TypeOK
  <2>3. pc'[t] \in {"idle", "save"} /\ ids'[t] = {}
    BY <1>1, <1>3 DEF TypeOK
  <2>4. \A u \in Txns : pc'[u] \in {"added", "open", "committed", "failed"} =>
            ids'[u] \subseteq unfinishedIds'[Home[u]]
    <3> SUFFICES ASSUME NEW u \in Txns, pc'[u] \in {"added", "open", "committed", "failed"}
                 PROVE  ids'[u] \subseteq unfinishedIds'[Home[u]]
      OBVIOUS
    <3>1. u # t /\ ids'[u] = ids[u] /\ ids[u] \intersect ids[t] = {}
      BY <2>1, <2>2, <2>3
    <3>2. ids[u] \subseteq unfinishedIds[Home[u]]
      BY <2>2, <3>1 DEF IInv, TxnInv
    <3>3. Home[u] \in Instances
      BY ConstantsAssumption
    <3> QED
      BY <1>1, <1>3, <3>1, <3>2, <3>3 DEF TypeOK, unf
  <2> QED
    BY <1>1, <2>2, <2>3, <2>4 DEF IInv, TxnInv
<1>21. UnfinishedInv'
  BY <1>1, <1>2, <1>3, <1>18 DEF IInv, TypeOK, UnfinishedInv, unf
<1>22. FinishedInv'
  BY <1>1, <1>2, <1>3, <1>5, <1>18 DEF IInv, TypeOK, FinishedInv
<1>23. KnownInv'
  BY <1>1, <1>2, <1>3, <1>15, <1>18 DEF IInv, TypeOK, KnownInv
<1>24. UptoInv'
  <2>1. 1 <= upto2
    BY <1>2, <1>3, <1>14 DEF IInv, TypeOK, UptoInv
  <2> QED
    BY <1>1, <1>2, <1>3, <1>14, <1>18, <2>1 DEF IInv, TypeOK, UptoInv
<1>25. CurrentInv'
  BY <1>1, <1>2, <1>3, <1>12, <1>18 DEF IInv, TypeOK, CurrentInv
<1>26. LocalInv'
  <2>1. 1 <= local2
    BY <1>11, <1>16
  <2> QED
    BY <1>1, <1>2, <1>3, <1>16, <1>18, <2>1 DEF IInv, TypeOK, LocalInv
<1>27. \A u \in Txns : pc'[u] = "upsert" => pc[u] = "upsert"
  BY <1>1, <1>3 DEF TypeOK
<1>28. IInv'
  BY <1>1, <1>17, <1>19, <1>20, <1>21, <1>22, <1>23, <1>24, <1>25, <1>26, <1>27, Frame DEF IInv
<1>29. ASSUME NEW j \in Instances
       PROVE  persistedUpto[j] <= persistedUpto'[j] /\ maxLocal[j] <= maxLocal'[j]
  <2>1. maxLocal[i] <= local2
    BY <1>2, <1>3, <1>11, <1>16 DEF TypeOK
  <2> QED
    BY <1>1, <1>2, <1>3, <1>14, <2>1 DEF TypeOK
<1> QED
  BY <1>28, <1>29

\* Reading the token that is to be written to stream_positions keeps the invariant.
LEMMA ReadTokenStep ==
    ASSUME IInv, NEW t \in Txns, ReadToken(t)
    PROVE  IInv'
<1> USE DEF ReadToken, dbVars, genVars
<1>1. Home[t] \in Instances
  BY ConstantsAssumption
<1>2. TypeOK'
  BY <1>1 DEF IInv, TypeOK, Phases
<1>3. Steady
  BY <1>2, SteadyStep DEF IInv, TypeOK
<1>4. TxnInv'
  BY DEF IInv, TypeOK, TxnInv
<1>5. TokenInv'
  <2>1. PendingIds' = PendingIds
    BY DEF IInv, TypeOK, PendingIds, Pending
  <2>2. \A u \in Txns : pc'[u] = "upsert" => (u = t \/ pc[u] = "upsert")
    BY DEF IInv, TypeOK
  <2>3. \A u \in Txns : u # t => token'[u] = token[u]
    BY DEF IInv, TypeOK
  <2>4. token'[t] = maxLocal[Home[t]]
    BY DEF IInv, TypeOK
  <2> QED
    BY <1>1, <2>1, <2>2, <2>3, <2>4 DEF IInv, TokenInv, LocalInv
<1> QED
  BY <1>2, <1>3, <1>4, <1>5, Frame DEF IInv

\* The GREATEST upsert of stream_positions keeps the invariant.
LEMMA UpsertStep ==
    ASSUME IInv, NEW t \in Txns, Upsert(t)
    PROVE  IInv' /\ \A w \in Writers : streamPositions[w] <= streamPositions'[w]
<1> DEFINE w == Home[t]
           v == MaxOf2(streamPositions[w], token[t])
<1>1. /\ pc[t] = "upsert" /\ pc' = [pc EXCEPT ![t] = "idle"]
      /\ streamPositions' = [streamPositions EXCEPT ![w] = v]
      /\ token' = [token EXCEPT ![t] = 0]
      /\ UNCHANGED <<seq, rows, genVars, need, ids, cmax, sent, restarts>>
  BY DEF Upsert, Upserted
<1>2. w \in Writers
  BY ConstantsAssumption
<1>3. TypeOK /\ seq \in Nat /\ PendingIds \in [Txns -> SUBSET Nat]
      /\ streamPositions[w] \in Nat /\ token[t] \in Nat
  BY <1>2, PendingType DEF IInv, TypeOK
<1>4. /\ 1 <= streamPositions[w] /\ Clear(seq, PendingIds, streamPositions[w])
      /\ ClearOf(seq, PendingIds, w, streamPositions[w])
      /\ 1 <= token[t] /\ Clear(seq, PendingIds, token[t]) /\ ClearOf(seq, PendingIds, w, token[t])
  BY <1>1, <1>2 DEF IInv, SavedInv, TokenInv
<1>5. v \in Nat /\ streamPositions[w] <= v /\ v \in {streamPositions[w], token[t]}
      /\ Clear(seq, PendingIds, v) /\ ClearOf(seq, PendingIds, w, v)
  BY <1>3, <1>4, ClearMax
<1>6. 1 <= v
  BY <1>4, <1>5
<1> HIDE DEF v
<1>7. TypeOK'
  BY <1>1, <1>2, <1>3, <1>5 DEF TypeOK, Phases, genVars
<1>8. Steady
  BY <1>1, <1>3, <1>7, SteadyStep DEF TypeOK
<1>9. PendingIds' = PendingIds
  BY <1>1, <1>3 DEF TypeOK, PendingIds, Pending
<1>10. TxnInv'
  BY <1>1, <1>3 DEF IInv, TypeOK, TxnInv, genVars
<1>11. SavedInv'
  BY <1>1, <1>2, <1>3, <1>5, <1>6, <1>9 DEF IInv, TypeOK, SavedInv
<1>12. TokenInv'
  <2>1. \A u \in Txns : pc'[u] = "upsert" => u # t /\ pc[u] = "upsert" /\ token'[u] = token[u]
    BY <1>1, <1>3 DEF TypeOK
  <2> QED
    BY <1>1, <1>9, <2>1 DEF IInv, TokenInv
<1>13. \A x \in Writers : streamPositions[x] <= streamPositions'[x]
  BY <1>1, <1>2, <1>3, <1>5 DEF TypeOK
<1> QED
  BY <1>1, <1>7, <1>8, <1>10, <1>11, <1>12, <1>13, Frame DEF IInv, genVars

\* A failing upsert keeps the invariant.
LEMMA UpsertFailsStep ==
    ASSUME IInv, NEW t \in Txns, UpsertFails(t)
    PROVE  IInv'
<1> USE DEF UpsertFails, dbVars, genVars
<1>1. TypeOK'
  BY DEF IInv, TypeOK, Phases
<1>2. Steady
  BY <1>1, SteadyStep DEF IInv, TypeOK
<1>3. TxnInv'
  BY DEF IInv, TypeOK, TxnInv
<1>4. TokenInv'
  <2>1. PendingIds' = PendingIds
    BY DEF IInv, TypeOK, PendingIds, Pending
  <2>2. \A u \in Txns : pc'[u] = "upsert" => pc[u] = "upsert" /\ token'[u] = token[u]
    BY DEF IInv, TypeOK
  <2> QED
    BY <2>1, <2>2 DEF IInv, TokenInv
<1> QED
  BY <1>1, <1>2, <1>3, <1>4, Frame DEF IInv

\* Queueing a position for the other processes keeps the invariant.
LEMMA AnnounceStep ==
    ASSUME IInv, NEW w \in Writers, NEW v \in 1 .. seq, Announce(w, v)
    PROVE  IInv'
<1>1. /\ v = maxLocal[w] \/ (<<w, v>> \in rows /\ v <= maxLocal[w])
      /\ sent' = sent \union {<<w, v>>}
      /\ UNCHANGED <<dbVars, genVars, txnVars, restarts>>
  BY DEF Announce
<1>2. w \in Instances /\ TypeOK /\ seq \in Nat /\ PendingIds \in [Txns -> SUBSET Nat]
  BY ConstantsAssumption, PendingType DEF IInv, TypeOK
<1>3. v \in Nat /\ 1 <= v
  BY <1>2
<1>4. maxLocal[w] \in Nat /\ Clear(seq, PendingIds, maxLocal[w])
      /\ ClearOf(seq, PendingIds, w, maxLocal[w])
  BY <1>2 DEF IInv, TypeOK, LocalInv
<1>5. Clear(seq, PendingIds, v)
  BY <1>1, <1>4 DEF IInv, RowsInv
<1>6. ClearOf(seq, PendingIds, w, v)
  <2>1. v <= maxLocal[w] /\ v <= seq
    BY <1>1, <1>3, <1>4
  <2> QED
    BY <1>2, <1>3, <1>4, <2>1 DEF ClearOf
<1>7. TypeOK'
  <2>1. sent' \in SUBSET (Writers \X Nat)
    <3>1. <<w, v>> \in Writers \X Nat /\ sent \subseteq Writers \X Nat
      BY <1>2, <1>3 DEF TypeOK
    <3> QED
      BY <1>1, <3>1
  <2> QED
    BY <1>1, <1>2, <2>1 DEF TypeOK, dbVars, genVars, txnVars
<1>8. Steady
  BY <1>1, <1>7, SteadyStep DEF dbVars, txnVars
<1>9. SentInv'
  <2>1. PendingIds' = PendingIds /\ seq' = seq
    BY <1>1 DEF PendingIds, Pending, txnVars, dbVars
  <2>2. \A m \in sent' : m \in sent \/ m = <<w, v>>
    BY <1>1
  <2> QED
    BY <1>3, <1>5, <1>6, <2>1, <2>2 DEF IInv, SentInv
<1>10. TxnInv'
  BY <1>1 DEF IInv, TxnInv, dbVars, genVars, txnVars
<1> QED
  BY <1>1, <1>7, <1>8, <1>9, <1>10, Frame DEF IInv, dbVars, genVars, txnVars

\* advance() on a remote position keeps the invariant: announced positions are sound.
LEMMA AdvanceStep ==
    ASSUME IInv, NEW i \in Instances, NEW w \in Writers, NEW v \in Nat, Advance(i, w, v)
    PROVE  /\ IInv'
           /\ \A j \in Instances : persistedUpto[j] <= persistedUpto'[j] /\ maxLocal[j] <= maxLocal'[j]
<1> DEFINE pos == MaxOf2(v, currentPositions[i][w])
           map == [currentPositions[i] EXCEPT ![w] = pos]
           seen == MaxOf2(maxSeen[i], v)
           busy == unfinishedIds[i] # {} \/ InFlight(i) # {}
           upto2 == AddPersistedUpto(i, map, busy, persistedUpto[i], knownPersisted[i], {v})
           known2 == AddPersistedKnown(i, map, busy, persistedUpto[i], knownPersisted[i], {v})
           local2 == AddPersistedLocal(i, map, busy, persistedUpto[i], knownPersisted[i],
                                       {v}, seen, maxLocal[i])
<1>1. /\ <<w, v>> \in sent
      /\ currentPositions' = [currentPositions EXCEPT ![i] = map]
      /\ maxSeen' = [maxSeen EXCEPT ![i] = seen]
      /\ persistedUpto' = [persistedUpto EXCEPT ![i] = upto2]
      /\ knownPersisted' = [knownPersisted EXCEPT ![i] = known2]
      /\ maxLocal' = [maxLocal EXCEPT ![i] = local2]
      /\ UNCHANGED <<seq, rows, streamPositions, unfinishedIds, finishedIds,
                     pc, need, ids, cmax, token, sent, restarts>>
  BY DEF Advance, dbVars, txnVars
<1>2. TypeOK /\ seq \in Nat /\ PendingIds \in [Txns -> SUBSET Nat]
  BY PendingType DEF IInv, TypeOK
<1>3. 1 <= v /\ Clear(seq, PendingIds, v) /\ ClearOf(seq, PendingIds, w, v)
  BY <1>1 DEF IInv, SentInv
<1>4. pos \in Nat /\ 1 <= pos /\ Clear(seq, PendingIds, pos) /\ ClearOf(seq, PendingIds, w, pos)
  <2>1. /\ currentPositions[i][w] \in Nat /\ 1 <= currentPositions[i][w]
        /\ Clear(seq, PendingIds, currentPositions[i][w])
        /\ ClearOf(seq, PendingIds, w, currentPositions[i][w])
    BY <1>2 DEF IInv, TypeOK, CurrentInv
  <2> QED
    BY <1>2, <1>3, <2>1, ClearMax
<1> HIDE DEF pos
<1>5. map \in [Writers -> Nat]
      /\ \A x \in Writers : 1 <= map[x] /\ Clear(seq, PendingIds, map[x])
                            /\ ClearOf(seq, PendingIds, x, map[x])
  BY <1>2, <1>4 DEF IInv, TypeOK, CurrentInv
<1>6. seen \in Nat /\ 1 <= seen /\ seen <= seq /\ \A t \in Txns : seen \in PendingIds[t] => Home[t] = i
  <2>1. maxSeen[i] \in Nat /\ 1 <= maxSeen[i] /\ maxSeen[i] <= seq
        /\ \A t \in Txns : maxSeen[i] \in PendingIds[t] => Home[t] = i
    BY <1>2 DEF IInv, TypeOK, SeenInv
  <2>2. v <= seq /\ \A t \in Txns : v \notin PendingIds[t]
    BY <1>3 DEF Clear
  <2>3. seen \in {maxSeen[i], v}
    BY DEF MaxOf2
  <2> HIDE DEF seen
  <2> QED
    BY <1>3, <2>1, <2>2, <2>3
<1>7. ~busy => \A t \in Txns : Home[t] = i => PendingIds[t] = {}
  <2>1. ASSUME ~busy, NEW t \in Txns, Home[t] = i, NEW id \in PendingIds[t] PROVE FALSE
    BY <2>1, NotBusy
  <2> QED
    BY <2>1
<1> HIDE DEF map, seen, busy
<1>8. Sound(seq, PendingIds, i, map, busy, persistedUpto[i], knownPersisted[i], {v})
  <2>1. persistedUpto[i] \in Nat /\ ClearAll(seq, PendingIds, persistedUpto[i])
    BY <1>2 DEF IInv, TypeOK, UptoInv
  <2>2. knownPersisted[i] \in SUBSET Nat /\ \A k \in knownPersisted[i] : Clear(seq, PendingIds, k)
    BY <1>2 DEF IInv, TypeOK, KnownInv
  <2>3. busy \in BOOLEAN
    BY DEF busy
  <2> QED
    BY <1>2, <1>3, <1>5, <1>7, <2>1, <2>2, <2>3 DEF Sound
<1>9. upto2 \in Nat /\ persistedUpto[i] <= upto2 /\ ClearAll(seq, PendingIds, upto2)
  BY <1>8, AddPersistedUptoProp
<1>10. known2 \in SUBSET Nat /\ \A k \in known2 : 1 <= k /\ Clear(seq, PendingIds, k)
  BY <1>2, <1>3 DEF AddPersistedKnown, IInv, TypeOK, KnownInv
<1>11. local2 \in Nat /\ maxLocal[i] <= local2
       /\ Clear(seq, PendingIds, local2) /\ ClearOf(seq, PendingIds, i, local2)
  <2>1. maxLocal[i] \in Nat /\ Clear(seq, PendingIds, maxLocal[i])
        /\ ClearOf(seq, PendingIds, i, maxLocal[i])
    BY <1>2 DEF IInv, TypeOK, LocalInv
  <2> QED
    BY <1>6, <1>8, <2>1, AddPersistedLocalProp
<1> HIDE DEF upto2, known2, local2
<1>12. TypeOK'
  BY <1>1, <1>2, <1>5, <1>6, <1>9, <1>10, <1>11 DEF TypeOK
<1>13. Steady
  BY <1>1, <1>2, <1>12, SteadyStep DEF TypeOK
<1>14. PendingIds' = PendingIds
  BY <1>1 DEF PendingIds, Pending
<1>15. TxnInv'
  BY <1>1 DEF IInv, TxnInv
<1>16. KnownInv'
  BY <1>1, <1>2, <1>10, <1>14 DEF IInv, TypeOK, KnownInv
<1>17. UptoInv'
  <2>1. 1 <= upto2
    BY <1>2, <1>9 DEF IInv, TypeOK, UptoInv
  <2> QED
    BY <1>1, <1>2, <1>9, <1>14, <2>1 DEF IInv, TypeOK, UptoInv
<1>18. CurrentInv'
  BY <1>1, <1>2, <1>5, <1>14 DEF IInv, TypeOK, CurrentInv
<1>19. LocalInv'
  <2>1. 1 <= local2
    BY <1>2, <1>11 DEF IInv, TypeOK, LocalInv
  <2> QED
    BY <1>1, <1>2, <1>11, <1>14, <2>1 DEF IInv, TypeOK, LocalInv
<1>20. SeenInv'
  BY <1>1, <1>2, <1>6, <1>14 DEF IInv, TypeOK, SeenInv
<1>21. IInv'
  BY <1>1, <1>12, <1>13, <1>15, <1>16, <1>17, <1>18, <1>19, <1>20, Frame DEF IInv
<1>22. \A j \in Instances : persistedUpto[j] <= persistedUpto'[j] /\ maxLocal[j] <= maxLocal'[j]
  BY <1>1, <1>2, <1>9, <1>11 DEF TypeOK
<1> QED
  BY <1>21, <1>22

-----------------------------------------------------------------------------
(***************************************************************************)
(* _load_current_ids, when every writer has a row in stream_positions.     *)
(* P stands for the ids that are pending without those of instance i.      *)
(***************************************************************************)
Stopped(P, i) ==
    /\ P \in [Txns -> SUBSET Nat]
    /\ \A t \in Txns : Home[t] = i => P[t] = {}
    /\ \A v \in Nat : Clear(seq, PendingIds, v) => Clear(seq, P, v)
    /\ \A v \in Nat : \A w : ClearOf(seq, PendingIds, w, v) => ClearOf(seq, P, w, v)

\* The positions saved in stream_positions are sound when a process restarts.
LEMMA SavedProp ==
    ASSUME IInv
    PROVE  /\ Saved = streamPositions
           /\ DOMAIN Saved = Writers
           /\ LowestSaved \in {streamPositions[w] : w \in Writers}
           /\ \A w \in Writers : LowestSaved <= streamPositions[w]
<1>1. streamPositions \in [Writers -> Nat] /\ \A w \in Writers : streamPositions[w] > 0
  BY DEF IInv, TypeOK, SavedInv
<1>2. {x \in Writers : streamPositions[x] > 0} = Writers
  BY <1>1
<1>3. Saved = streamPositions
  BY <1>1, <1>2 DEF Saved
<1> DEFINE S == {streamPositions[w] : w \in Writers}
<1>4. S \in SUBSET Nat /\ S # {}
  BY <1>1, ConstantsAssumption
<1>5. LowestSaved = Min(S)
  BY <1>1, <1>3 DEF LowestSaved
<1> QED
  BY <1>1, <1>3, <1>4, <1>5, MinNat

\* Rows that are read back are clear.
LEMMA LoadedRowsProp ==
    ASSUME IInv, NEW i
    PROVE  /\ LoadedIds \in SUBSET Nat /\ OwnLoaded(i) \in SUBSET Nat
           /\ \A id \in LoadedIds : 1 <= id /\ Clear(seq, PendingIds, id)
           /\ \A id \in OwnLoaded(i) : 1 <= id /\ Clear(seq, PendingIds, id)
           /\ i \notin Writers => OwnLoaded(i) = {}
  BY DEF IInv, TypeOK, RowsInv, LoadedIds, LoadedRows, OwnLoaded

\* The position a process starts from is sound.
LEMMA LoadedUptoProp ==
    ASSUME IInv, NEW i \in Instances, NEW P, Stopped(P, i)
    PROVE  LoadedUpto(i) \in Nat /\ 1 <= LoadedUpto(i) /\ ClearAll(seq, P, LoadedUpto(i))
<1> DEFINE others == {Saved[w] : w \in DOMAIN Saved \ {i}}
           before == OwnLoaded(i) \ {LastVisited(LoadedIds)}
           base == IF others # {} THEN Min(others) ELSE Max({LowestSaved} \union before)
<1>1. LoadedUpto(i) = CASE DOMAIN Saved = {} -> Max({1} \union RowIds)
                        [] DOMAIN Saved # {} /\ LoadedRows = {} -> LowestSaved
                        [] OTHER -> SkipForward(base, LoadedIds)
  BY DEF LoadedUpto
<1>2. DOMAIN Saved # {}
  BY SavedProp, ConstantsAssumption
<1>3. LoadedUpto(i) = IF LoadedRows = {} THEN LowestSaved ELSE SkipForward(base, LoadedIds)
  <2> HIDE DEF base
  <2> QED
    BY <1>1, <1>2
<1>4. seq \in Nat /\ P \in [Txns -> SUBSET Nat]
  BY DEF IInv, TypeOK, Stopped
<1>5. \A w \in Writers : streamPositions[w] \in Nat /\ 1 <= streamPositions[w]
                         /\ streamPositions[w] <= seq /\ ClearOf(seq, P, w, streamPositions[w])
  BY DEF IInv, TypeOK, SavedInv, Stopped, ClearOf
\* A number at or below what the other writers have saved is sound.
<1>6. ASSUME NEW v \in Nat, v <= seq, \A w \in Writers : w # i => v <= streamPositions[w]
      PROVE  ClearAll(seq, P, v)
  <2>1. ASSUME NEW t \in Txns, NEW id \in P[t] PROVE v < id
    <3>1. Home[t] \in Writers /\ Home[t] # i /\ id \in Nat
      BY <1>4, ConstantsAssumption DEF Stopped
    <3>2. streamPositions[Home[t]] < id
      BY <1>5, <3>1 DEF ClearOf
    <3> QED
      BY <1>5, <1>6, <3>1, <3>2
  <2> QED
    BY <1>6, <2>1 DEF ClearAll
<1>7. LowestSaved \in Nat /\ 1 <= LowestSaved /\ LowestSaved <= seq
  BY <1>5, SavedProp
<1>8. ClearAll(seq, P, LowestSaved)
  BY <1>6, <1>7, SavedProp
<1>9. base \in Nat /\ 1 <= base /\ ClearAll(seq, P, base)
  <2>1. others = {streamPositions[w] : w \in Writers \ {i}}
    BY SavedProp
  <2>2. CASE others # {}
    <3>1. others \in SUBSET Nat
      BY <1>5, <2>1
    <3>2. Min(others) \in others /\ \A x \in others : Min(others) <= x
      BY <2>2, <3>1, MinNat
    <3>3. base = Min(others)
      BY <2>2
    <3>4. base \in Nat /\ 1 <= base /\ base <= seq
      BY <1>5, <2>1, <3>2, <3>3
    <3>5. \A w \in Writers : w # i => base <= streamPositions[w]
      BY <2>1, <3>2, <3>3
    <3> QED
      BY <1>6, <3>4, <3>5
  <2>3. CASE others = {}
    <3> DEFINE S == {LowestSaved} \union before
    <3>1. \A w \in Writers : w = i
      BY <2>1, <2>3
    <3>2. S \in SUBSET Nat /\ S # {} /\ \A x \in S : 1 <= x /\ x <= seq
      BY <1>7, LoadedRowsProp DEF Clear
    <3>3. base = Max(S)
      BY <2>3
    <3> HIDE DEF S
    <3>4. Max(S) \in S
      BY <1>4, <3>2, MaxNat
    <3> QED
      BY <1>6, <3>1, <3>2, <3>3, <3>4
  <2> QED
    BY <2>2, <2>3
<1> HIDE DEF base
<1>10. LoadedIds \in SUBSET Nat /\ \A id \in LoadedIds : Clear(seq, P, id)
  BY LoadedRowsProp DEF Stopped
<1>11. SkipForward(base, LoadedIds) \in Nat /\ base <= SkipForward(base, LoadedIds)
       /\ ClearAll(seq, P, SkipForward(base, LoadedIds))
  BY <1>4, <1>9, <1>10, SkipForwardClear
<1> QED
  BY <1>3, <1>7, <1>8, <1>9, <1>11

\* Our own entry of the position map comes from a row or from the saved one.
LEMMA LoadedOwnProp ==
    ASSUME IInv, NEW i \in Writers
    PROVE  LET v == LoadedOwnPosition(i)
           IN  v \in Nat /\ 1 <= v /\ Clear(seq, PendingIds, v)
<1>1. CASE OwnLoaded(i) = {}
  <2>1. LoadedOwnPosition(i) = streamPositions[i]
    BY <1>1, SavedProp DEF LoadedOwnPosition, OurPosition
  <2> QED
    BY <2>1 DEF IInv, TypeOK, SavedInv
<1>2. CASE OwnLoaded(i) # {}
  <2>1. OwnLoaded(i) \in SUBSET Nat /\ \A id \in OwnLoaded(i) : 1 <= id /\ Clear(seq, PendingIds, id)
    BY LoadedRowsProp
  <2>2. seq \in Nat /\ \A id \in OwnLoaded(i) : id <= seq
    BY <2>1 DEF Clear, IInv, TypeOK
  <2>3. LastVisited(OwnLoaded(i)) \in OwnLoaded(i)
    BY <1>2, <2>1, <2>2, MinNat, MaxNat DEF LastVisited
  <2> QED
    BY <1>2, <2>1, <2>3 DEF LoadedOwnPosition
<1> QED
  BY <1>1, <1>2

\* The positions _load_current_ids rebuilds are sound.
LEMMA LoadedPositionsProp ==
    ASSUME IInv, NEW i \in Instances, NEW P, Stopped(P, i)
    PROVE  /\ LoadedPositions(i) \in [Writers -> Nat]
           /\ \A w \in Writers : /\ 1 <= LoadedPositions(i)[w]
                                 /\ Clear(seq, P, LoadedPositions(i)[w])
                                 /\ ClearOf(seq, P, w, LoadedPositions(i)[w])
<1>1. ASSUME NEW w \in Writers
      PROVE  LoadedPositions(i)[w] = IF w = i THEN LoadedOwnPosition(i) ELSE streamPositions[w]
  <2>1. DOMAIN Saved = Writers /\ Saved = streamPositions
    BY SavedProp
  <2>2. i \in Writers => LoadedOwnPosition(i) > 0
    BY LoadedOwnProp
  <2> QED
    BY <2>1, <2>2 DEF LoadedPositions
<1>2. ASSUME NEW w \in Writers, w = i
      PROVE  LET v == LoadedOwnPosition(i)
             IN  v \in Nat /\ 1 <= v /\ Clear(seq, P, v) /\ ClearOf(seq, P, i, v)
  <2>1. LET v == LoadedOwnPosition(i) IN v \in Nat /\ 1 <= v /\ Clear(seq, PendingIds, v)
    BY <1>2, LoadedOwnProp
  <2> QED
    BY <2>1 DEF Stopped, Clear, ClearOf
<1>3. ASSUME NEW w \in Writers
      PROVE  streamPositions[w] \in Nat /\ 1 <= streamPositions[w]
             /\ Clear(seq, P, streamPositions[w]) /\ ClearOf(seq, P, w, streamPositions[w])
  BY DEF IInv, TypeOK, SavedInv, Stopped
<1>4. ASSUME NEW w \in Writers
      PROVE  LET v == LoadedPositions(i)[w]
             IN  v \in Nat /\ 1 <= v /\ Clear(seq, P, v) /\ ClearOf(seq, P, w, v)
  BY <1>1, <1>2, <1>3
<1> QED
  BY <1>4 DEF LoadedPositions

\* _max_seen_allocated_stream_id after a reload is a sound position.
LEMMA LoadedMaxSeenProp ==
    ASSUME IInv, NEW i \in Instances, NEW P, Stopped(P, i)
    PROVE  LET v == LoadedMaxSeen(i)
           IN  v \in Nat /\ 1 <= v /\ Clear(seq, P, v) /\ ClearOf(seq, P, i, v)
<1> DEFINE S == {LoadedPositions(i)[w] : w \in Writers} \union {LoadedUpto(i)}
<1>1. seq \in Nat /\ P \in [Txns -> SUBSET Nat]
  BY DEF IInv, TypeOK, Stopped
<1>2. LoadedUpto(i) \in Nat /\ 1 <= LoadedUpto(i) /\ Clear(seq, P, LoadedUpto(i))
  BY <1>1, LoadedUptoProp, ClearAllProp
<1>3. S \in SUBSET Nat /\ S # {} /\ \A v \in S : 1 <= v /\ Clear(seq, P, v)
  BY <1>2, LoadedPositionsProp
<1>4. LoadedMaxSeen(i) = Max(S)
  BY DEF LoadedMaxSeen
<1> HIDE DEF S
<1>5. \A v \in S : v <= seq
  BY <1>3 DEF Clear
<1>6. Max(S) \in S
  BY <1>1, <1>3, <1>5, MaxNat
<1>7. Max(S) \in Nat /\ 1 <= Max(S) /\ Max(S) <= seq /\ Clear(seq, P, Max(S))
  BY <1>3, <1>5, <1>6
<1>8. ClearOf(seq, P, i, Max(S))
  BY <1>7 DEF ClearOf, Stopped
<1> QED
  BY <1>4, <1>7, <1>8

\* A crash followed by _load_current_ids keeps the invariant.
LEMMA RestartStep ==
    ASSUME IInv, NEW i \in Instances, Restart(i)
    PROVE  IInv'
<1> DEFINE P == PendingIds'
<1> USE DEF dbVars
<1>1. TypeOK /\ seq \in Nat /\ PendingIds \in [Txns -> SUBSET Nat]
  BY PendingType DEF IInv, TypeOK
<1>2. /\ pc'   = [t \in Txns |-> IF Home[t] = i THEN "idle" ELSE pc[t]]
      /\ ids'  = [t \in Txns |-> IF Home[t] = i THEN {} ELSE ids[t]]
      /\ need' = [t \in Txns |-> IF Home[t] = i THEN 0 ELSE need[t]]
      /\ cmax' = [t \in Txns |-> IF Home[t] = i THEN 0 ELSE cmax[t]]
      /\ token' = [t \in Txns |-> IF Home[t] = i THEN 0 ELSE token[t]]
      /\ restarts' = restarts + 1
      /\ UNCHANGED <<seq, rows, streamPositions, sent>>
  BY DEF Restart
<1>3. \A t \in Txns : P[t] = IF Home[t] = i THEN {} ELSE PendingIds[t]
  BY <1>2 DEF PendingIds, Pending
<1>4. P \in [Txns -> SUBSET Nat]
  <2>1. P = [t \in Txns |-> Pending(t)']
    BY DEF PendingIds
  <2> QED
    BY <1>1, <1>3, <2>1
<1>5. Steady
  BY <1>1, <1>2, <1>3, <1>4 DEF Steady, Grows
<1>6. Stopped(P, i)
  BY <1>2, <1>3, <1>4, <1>5, StableInStep DEF Stopped
<1> HIDE DEF P
<1>7. /\ currentPositions' = [currentPositions EXCEPT ![i] = LoadedPositions(i)]
      /\ unfinishedIds' = [unfinishedIds EXCEPT ![i] = {}]
      /\ finishedIds'   = [finishedIds EXCEPT ![i] = {}]
      /\ persistedUpto' = [persistedUpto EXCEPT ![i] = LoadedUpto(i)]
      /\ knownPersisted' = [knownPersisted EXCEPT ![i] = LoadedKnown(i)]
      /\ maxSeen'  = [maxSeen EXCEPT ![i] = LoadedMaxSeen(i)]
      /\ maxLocal' = [maxLocal EXCEPT ![i] = LoadedMaxSeen(i)]
  BY DEF Restart
<1>8. LoadedUpto(i) \in Nat /\ 1 <= LoadedUpto(i) /\ ClearAll(seq, P, LoadedUpto(i))
  BY <1>6, LoadedUptoProp
<1>9. /\ LoadedPositions(i) \in [Writers -> Nat]
      /\ \A w \in Writers : /\ 1 <= LoadedPositions(i)[w]
                            /\ Clear(seq, P, LoadedPositions(i)[w])
                            /\ ClearOf(seq, P, w, LoadedPositions(i)[w])
  BY <1>6, LoadedPositionsProp
<1>10. LET v == LoadedMaxSeen(i)
       IN  v \in Nat /\ 1 <= v /\ Clear(seq, P, v) /\ ClearOf(seq, P, i, v)
  BY <1>6, LoadedMaxSeenProp
<1>11. LoadedKnown(i) \in SUBSET Nat /\ \A k \in LoadedKnown(i) : 1 <= k /\ Clear(seq, P, k)
  BY <1>6, LoadedRowsProp DEF LoadedKnown, Stopped
<1>12. TypeOK'
  <2>1. pc' \in [Txns -> Phases] /\ ids' \in [Txns -> SUBSET Nat]
    BY <1>1, <1>2 DEF TypeOK, Phases
  <2>2. need' \in [Txns -> Nat] /\ cmax' \in [Txns -> Nat] /\ token' \in [Txns -> Nat]
    BY <1>1, <1>2 DEF TypeOK
  <2>3. /\ currentPositions' \in [Instances -> [Writers -> Nat]]
        /\ unfinishedIds' \in [Instances -> SUBSET Nat]
        /\ finishedIds' \in [Instances -> SUBSET Nat]
    BY <1>1, <1>7, <1>9 DEF TypeOK
  <2>4. /\ persistedUpto' \in [Instances -> Nat]
        /\ knownPersisted' \in [Instances -> SUBSET Nat]
        /\ maxSeen' \in [Instances -> Nat]
        /\ maxLocal' \in [Instances -> Nat]
    BY <1>1, <1>7, <1>8, <1>10, <1>11 DEF TypeOK
  <2> QED
    BY <1>1, <1>2, <2>1, <2>2, <2>3, <2>4 DEF TypeOK
<1>13. TxnInv'
  <2>1. \A t \in Txns : Home[t] # i => unfinishedIds'[Home[t]] = unfinishedIds[Home[t]]
    BY <1>1, <1>7, ConstantsAssumption DEF TypeOK
  <2> QED
    BY <1>2, <2>1 DEF IInv, TxnInv
<1>14. \A v \in Nat : Clear(seq, PendingIds, v) => Clear(seq, P, v)
  BY <1>6 DEF Stopped
<1>15. UnfinishedInv'
  <2>1. \A j \in Instances : \A id \in unfinishedIds'[j] : j # i /\ id \in unfinishedIds[j]
    BY <1>1, <1>7 DEF TypeOK
  <2> QED
    BY <1>2, <1>3, <2>1 DEF IInv, UnfinishedInv, P
<1>16. FinishedInv'
  <2>1. \A j \in Instances : \A id \in finishedIds'[j] : id \in finishedIds[j]
    BY <1>1, <1>7 DEF TypeOK
  <2> QED
    BY <1>1, <1>2, <1>14, <2>1 DEF IInv, TypeOK, FinishedInv, P
<1>17. KnownInv'
  BY <1>1, <1>2, <1>7, <1>11, <1>14 DEF IInv, TypeOK, KnownInv, P
<1>18. ASSUME NEW v \in Nat, NEW w
       PROVE  /\ ClearOf(seq, PendingIds, w, v) => ClearOf(seq, P, w, v)
              /\ ClearAll(seq, PendingIds, v) => ClearAll(seq, P, v)
  BY <1>2, <1>5, StableInStep DEF P
<1>19. UptoInv'
  BY <1>1, <1>2, <1>7, <1>8, <1>18 DEF IInv, TypeOK, UptoInv, P
<1>20. CurrentInv'
  <2>1. ASSUME NEW j \in Instances, j # i, NEW w \in Writers
        PROVE  /\ 1 <= currentPositions'[j][w]
               /\ Clear(seq, P, currentPositions'[j][w])
               /\ ClearOf(seq, P, w, currentPositions'[j][w])
    BY <1>1, <1>7, <1>14, <1>18, <2>1 DEF IInv, TypeOK, CurrentInv
  <2>2. currentPositions'[i] = LoadedPositions(i)
    BY <1>1, <1>7 DEF TypeOK
  <2> QED
    BY <1>2, <1>9, <2>1, <2>2 DEF CurrentInv, P
<1>21. LocalInv'
  BY <1>1, <1>2, <1>7, <1>10, <1>14, <1>18 DEF IInv, TypeOK, LocalInv, P
<1>22. SeenInv'
  <2>1. ASSUME NEW j \in Instances, j # i
        PROVE  /\ 1 <= maxSeen'[j] /\ maxSeen'[j] <= seq
               /\ \A t \in Txns : maxSeen'[j] \in P[t] => Home[t] = j
    BY <1>1, <1>3, <1>7, <2>1 DEF IInv, TypeOK, SeenInv
  <2>2. maxSeen'[i] = LoadedMaxSeen(i)
    BY <1>1, <1>7 DEF TypeOK
  <2> QED
    BY <1>2, <1>10, <2>1, <2>2 DEF SeenInv, Clear, P
<1>23. TokenInv'
  <2>1. \A t \in Txns : pc'[t] = "upsert" => pc[t] = "upsert" /\ token'[t] = token[t]
    BY <1>2
  <2> QED
    BY <1>1, <1>2, <1>14, <1>18, <2>1 DEF IInv, TypeOK, TokenInv, P
<1> QED
  BY <1>2, <1>5, <1>12, <1>13, <1>15, <1>16, <1>17, <1>19, <1>20, <1>21, <1>22, <1>23, Frame
     DEF IInv

-----------------------------------------------------------------------------
(***************************************************************************)
(* The theorems                                                            *)
(***************************************************************************)

\* The invariant holds of an empty stream.
LEMMA InitIInv ==
    ASSUME FreshWriters = {}, Init
    PROVE  IInv
<1> USE DEF Init
<1>1. TypeOK
  BY DEF TypeOK, Phases
<1>2. \A t \in Txns : PendingIds[t] = {}
  BY DEF PendingIds, Pending
<1>3. TxnInv
  BY DEF TxnInv
<1>4. UnfinishedInv /\ FinishedInv /\ KnownInv /\ RowsInv
  BY DEF UnfinishedInv, FinishedInv, KnownInv, RowsInv
<1>5. ClearAll(seq, PendingIds, 1) /\ Clear(seq, PendingIds, 1)
      /\ \A w : ClearOf(seq, PendingIds, w, 1)
  BY <1>2 DEF ClearAll, Clear, ClearOf
<1>6. UptoInv /\ CurrentInv /\ LocalInv
  BY <1>5 DEF UptoInv, CurrentInv, LocalInv
<1>7. SavedInv /\ TokenInv /\ SentInv
  BY <1>5 DEF SavedInv, TokenInv, SentInv
<1>8. SeenInv
  BY <1>2 DEF SeenInv
<1> QED
  BY <1>1, <1>3, <1>4, <1>6, <1>7, <1>8 DEF IInv

\* A stuttering step keeps the invariant.
LEMMA StutterIInv ==
    ASSUME IInv, UNCHANGED vars
    PROVE  IInv'
<1> USE DEF vars, dbVars, genVars, txnVars
<1>1. TypeOK' /\ PendingIds' = PendingIds
  BY DEF IInv, TypeOK, PendingIds, Pending
<1>2. Steady
  BY <1>1, SteadyStep
<1>3. TxnInv'
  BY DEF IInv, TxnInv
<1> QED
  BY <1>1, <1>2, <1>3, Frame DEF IInv

\* Every step of the specification keeps the invariant.
LEMMA NextIInv ==
    ASSUME IInv, [Next]_vars
    PROVE  IInv'
<1>1. ASSUME NEW t \in Txns, NEW n \in 1 .. MaxBatch, StartFetch(t, n) PROVE IInv'
  BY <1>1, StartFetchStep
<1>2. ASSUME NEW t \in Txns, TxnStep(t) PROVE IInv'
  BY <1>2, NextValStep, AddUnfinishedStep, DropInFlightStep, CommitStep, RollbackStep,
     MarkFinishedStep, ReadTokenStep, UpsertStep DEF TxnStep
<1>3. ASSUME NEW w \in Writers, NEW v \in 1 .. seq, Announce(w, v) PROVE IInv'
  BY <1>3, AnnounceStep
<1>4. ASSUME NEW i \in Instances, NEW m \in sent, Advance(i, m[1], m[2]) PROVE IInv'
  <2>1. m[1] \in Writers /\ m[2] \in Nat
    BY DEF IInv, TypeOK
  <2> QED
    BY <1>4, <2>1, AdvanceStep
<1>5. ASSUME NEW i \in Instances, Restart(i) PROVE IInv'
  BY <1>5, RestartStep
<1>6. ASSUME NEW t \in Txns, FetchFails(t) PROVE IInv'
  BY <1>6, FetchFailsStep
<1>7. ASSUME NEW t \in Txns, UpsertFails(t) PROVE IInv'
  BY <1>7, UpsertFailsStep
<1>8. CASE UNCHANGED vars
  BY <1>8, StutterIInv
<1> QED
  BY <1>1, <1>2, <1>3, <1>4, <1>5, <1>6, <1>7, <1>8 DEF Next, HealthyNext

\* The inductive invariant holds in every reachable state.
THEOREM IInvHolds ==
    ASSUME FreshWriters = {}
    PROVE  Spec => []IInv
<1>1. Init => IInv
  BY InitIInv
<1>2. IInv /\ [Next]_vars => IInv'
  BY NextIInv
<1> QED
  BY <1>1, <1>2, PTL DEF Spec

\* The variables of every generator, transaction and table keep their types.
THEOREM TypeCorrect ==
    ASSUME FreshWriters = {}
    PROVE  Spec => []TypeOK
<1>1. IInv => TypeOK
  BY DEF IInv
<1> QED
  BY <1>1, IInvHolds, PTL

\* get_current_token never covers an id that some transaction, on whatever
\* instance, may still write.
THEOREM PersistedUptoIsSound ==
    ASSUME FreshWriters = {}
    PROVE  Spec => []PersistedUptoSound
<1>1. IInv => PersistedUptoSound
  <2> SUFFICES ASSUME IInv, NEW i \in Instances, NEW t \in Txns, NEW id \in Pending(t)
               PROVE  persistedUpto[i] < id
    BY DEF PersistedUptoSound, AllPending
  <2>1. id \in PendingIds[t]
    BY DEF PendingIds
  <2> QED
    BY <2>1 DEF IInv, UptoInv, ClearAll
<1> QED
  BY <1>1, IInvHolds, PTL

\* The position a writer announces and saves never covers an id that it has
\* in progress.
THEOREM LocalTokenIsSound ==
    ASSUME FreshWriters = {}
    PROVE  Spec => []LocalTokenSound
<1>1. IInv => LocalTokenSound
  <2> SUFFICES ASSUME IInv, NEW w \in Writers, NEW t \in Txns, Home[t] = w, NEW id \in Pending(t)
               PROVE  maxLocal[w] < id /\ streamPositions[w] < id
    BY DEF LocalTokenSound, PendingOf
  <2>1. id \in PendingIds[t] /\ w \in Instances
    BY ConstantsAssumption DEF PendingIds
  <2> QED
    BY <2>1 DEF IInv, LocalInv, SavedInv, ClearOf
<1> QED
  BY <1>1, IInvHolds, PTL

\* A row that appears in the stream's table is above the current token of
\* every instance: a reader that has read up to its token misses nothing.
THEOREM RowsAreNeverLate ==
    ASSUME FreshWriters = {}
    PROVE  Spec => NoLateRows
<1> DEFINE A == \A r \in rows' \ rows : \A i \in Instances : persistedUpto[i] < r[2]
<1>1. IInv /\ [Next]_vars => [A]_vars
  <2> SUFFICES ASSUME IInv, Next PROVE A
    OBVIOUS
  <2>1. ASSUME NEW t \in Txns, NEW used \in SUBSET ids[t], Commit(t, used) PROVE A
    <3>1. \A row \in rows' \ rows : row[2] \in used
      BY <2>1 DEF Commit
    <3>2. used \subseteq PendingIds[t]
      BY <2>1 DEF Commit, PendingIds, Pending
    <3> QED
      BY <3>1, <3>2 DEF IInv, UptoInv, ClearAll
  <2>2. CASE UNCHANGED rows
    BY <2>2
  <2>3. ASSUME NEW t \in Txns, TxnStep(t) PROVE A
    BY <2>1, <2>2, <2>3 DEF TxnStep, NextVal, AddUnfinished, DropInFlight, Rollback, MarkFinished,
                            ReadToken, Upsert, dbVars
  <2>4. CASE (\E t \in Txns : \E n \in 1 .. MaxBatch : StartFetch(t, n))
             \/ \E t \in Txns : FetchFails(t) \/ UpsertFails(t)
    BY <2>2, <2>4 DEF StartFetch, FetchFails, UpsertFails, dbVars
  <2>5. CASE (\E w \in Writers : \E v \in 1 .. seq : Announce(w, v))
             \/ \E i \in Instances : (\E m \in sent : Advance(i, m[1], m[2])) \/ Restart(i)
    BY <2>2, <2>5 DEF Announce, Advance, Restart, dbVars
  <2> HIDE DEF A
  <2> QED
    BY <2>3, <2>4, <2>5 DEF Next, HealthyNext
<1>2. Spec => []IInv
  BY IInvHolds
<1>3. Spec => [][A]_vars
  BY <1>1, <1>2, PTL DEF Spec
<1> QED
  BY <1>3, PTL DEF NoLateRows

\* Tokens and saved positions only move forward while their process runs.
THEOREM TokensOnlyAdvance ==
    ASSUME FreshWriters = {}
    PROVE  Spec => TokensNeverGoBack
<1> DEFINE B == \A i \in Instances :
                    /\ persistedUpto'[i] >= persistedUpto[i]
                    /\ maxLocal'[i] >= maxLocal[i]
           C == \A w \in Writers : streamPositions'[w] >= streamPositions[w]
           A == (restarts' = restarts => B) /\ C
<1>1. IInv /\ [Next]_vars => [A]_vars
  <2> SUFFICES ASSUME IInv, Next PROVE A
    OBVIOUS
  <2>1. UNCHANGED <<persistedUpto, maxLocal>> => B
    BY DEF IInv, TypeOK
  <2>2. UNCHANGED streamPositions => C
    BY DEF IInv, TypeOK
  <2> USE <2>1, <2>2 DEF dbVars, genVars
  <2>3. ASSUME NEW t \in Txns, TxnStep(t) PROVE A
    <3>1. CASE NextVal(t) \/ AddUnfinished(t) \/ DropInFlight(t) \/ Rollback(t) \/ ReadToken(t)
               \/ \E used \in SUBSET ids[t] : Commit(t, used)
      BY <3>1 DEF NextVal, AddUnfinished, DropInFlight, Rollback, ReadToken, Commit
    <3>2. CASE MarkFinished(t)
      <4>1. UNCHANGED streamPositions
        BY <3>2 DEF MarkFinished
      <4>2. B
        BY <3>2, MarkFinishedStep DEF IInv, TypeOK
      <4> QED
        BY <4>1, <4>2
    <3>3. CASE Upsert(t)
      <4>1. UNCHANGED <<persistedUpto, maxLocal>>
        BY <3>3 DEF Upsert
      <4>2. C
        BY <3>3, UpsertStep DEF IInv, TypeOK
      <4> QED
        BY <4>1, <4>2
    <3> QED
      BY <2>3, <3>1, <3>2, <3>3 DEF TxnStep
  <2>4. CASE (\E t \in Txns : \E n \in 1 .. MaxBatch : StartFetch(t, n))
             \/ (\E t \in Txns : FetchFails(t) \/ UpsertFails(t))
             \/ \E w \in Writers : \E v \in 1 .. seq : Announce(w, v)
    BY <2>4 DEF StartFetch, FetchFails, UpsertFails, Announce
  <2>5. ASSUME NEW i \in Instances, NEW m \in sent, Advance(i, m[1], m[2]) PROVE A
    <3>1. m[1] \in Writers /\ m[2] \in Nat
      BY DEF IInv, TypeOK
    <3>2. UNCHANGED streamPositions
      BY <2>5 DEF Advance
    <3>3. B
      BY <2>5, <3>1, AdvanceStep DEF IInv, TypeOK
    <3> QED
      BY <3>2, <3>3
  <2>6. ASSUME NEW i \in Instances, Restart(i) PROVE A
    <3>1. restarts' # restarts
      BY <2>6 DEF Restart, IInv, TypeOK
    <3> QED
      BY <2>6, <3>1 DEF Restart
  <2> HIDE DEF A
  <2> QED
    BY <2>3, <2>4, <2>5, <2>6 DEF Next, HealthyNext
<1>2. Spec => []IInv
  BY IInvHolds
<1>3. Spec => [][A]_vars
  BY <1>1, <1>2, PTL DEF Spec
<1> QED
  BY <1>3, PTL DEF TokensNeverGoBack

\* On a positive stream, a writer that restarts comes back at or above every
\* row it has written.
THEOREM OwnRowsAreKept ==
    ASSUME FreshWriters = {}, Positive
    PROVE  Spec => OwnRowsKept
<1> DEFINE A == \A i \in Writers : Restart(i) =>
                    \A r \in rows : r[1] = i => r[2] <= currentPositions'[i][i]
<1>1. IInv => A
  <2> SUFFICES ASSUME IInv, NEW i \in Writers, Restart(i), NEW r \in rows, r[1] = i
               PROVE  r[2] <= currentPositions'[i][i]
    OBVIOUS
  <2>1. DOMAIN Saved = Writers /\ Saved = streamPositions /\ LowestSaved <= streamPositions[i]
        /\ LowestSaved \in Nat /\ streamPositions[i] \in Nat
    BY SavedProp DEF IInv, TypeOK
  <2>2. currentPositions'[i][i] = LoadedOwnPosition(i)
    <3>1. i \in Instances /\ LoadedOwnPosition(i) > 0
      BY LoadedOwnProp, ConstantsAssumption
    <3>2. currentPositions'[i] = LoadedPositions(i)
      BY <3>1 DEF Restart, IInv, TypeOK
    <3> QED
      BY <2>1, <3>1, <3>2 DEF LoadedPositions
  <2>3. r[2] \in Nat /\ (r[2] >= LowestSaved => r[2] \in OwnLoaded(i))
    BY DEF IInv, TypeOK, OwnLoaded, LoadedRows
  <2>4. CASE OwnLoaded(i) = {}
    BY <2>1, <2>2, <2>3, <2>4 DEF LoadedOwnPosition, OurPosition
  <2>5. CASE OwnLoaded(i) # {}
    <3>1. OwnLoaded(i) \in SUBSET Nat /\ seq \in Nat /\ \A id \in OwnLoaded(i) : id <= seq
      BY LoadedRowsProp DEF Clear, IInv, TypeOK
    <3>2. Max(OwnLoaded(i)) \in OwnLoaded(i) /\ \A x \in OwnLoaded(i) : x <= Max(OwnLoaded(i))
      BY <2>5, <3>1, MaxNat
    <3>3. LowestSaved <= Max(OwnLoaded(i))
      BY <3>2 DEF OwnLoaded, LoadedRows
    <3>4. currentPositions'[i][i] = Max(OwnLoaded(i)) /\ Max(OwnLoaded(i)) \in Nat
      BY <2>2, <2>5, <3>1, <3>2 DEF LoadedOwnPosition, LastVisited
    <3> QED
      BY <2>1, <2>3, <3>2, <3>3, <3>4
  <2> QED
    BY <2>4, <2>5
<1>2. Spec => []IInv
  BY IInvHolds
<1>3. Spec => [][A]_vars
  BY <1>1, <1>2, PTL DEF Spec
<1> QED
  BY <1>3, PTL DEF OwnRowsKept

-----------------------------------------------------------------------------
(***************************************************************************)
(* Refinement                                                              *)
(***************************************************************************)

\* A step that leaves the sequence and the table alone and takes no id away
\* from or gives one to a transaction is a step of the abstract token, or none.
LEMMA QuietStep ==
    ASSUME IInv, IInv', UNCHANGED <<seq, rows>>, PendingIds' = PendingIds
    PROVE  /\ AllPending' = AllPending /\ RowIds' = RowIds
           /\ \A i \in Instances : Abstract!Safe(persistedUpto'[i], AllPending)
<1>1. AllPending = UNION {PendingIds[t] : t \in Txns}
  BY DEF AllPending, PendingIds
<1>2. AllPending' = UNION {PendingIds'[t] : t \in Txns}
  BY DEF AllPending, PendingIds
<1>3. AllPending' = AllPending /\ RowIds' = RowIds
  BY <1>1, <1>2 DEF RowIds
<1>4. ASSUME NEW i \in Instances PROVE Abstract!Safe(persistedUpto'[i], AllPending)
  <2>1. 1 <= persistedUpto'[i] /\ ClearAll(seq', PendingIds', persistedUpto'[i])
    BY DEF IInv, UptoInv
  <2> QED
    BY <1>1, <2>1 DEF Abstract!Safe, ClearAll
<1> QED
  BY <1>3, <1>4

\* A step that leaves the mapped state alone is a stutter of the abstract specification.
LEMMA QuietImplements ==
    ASSUME IInv, IInv', UNCHANGED <<seq, rows>>, PendingIds' = PendingIds,
           NEW i \in Instances, persistedUpto[i] <= persistedUpto'[i],
           persistedUpto' = [persistedUpto EXCEPT ![i] = persistedUpto'[i]]
    PROVE  Abstract!Next
  BY QuietStep DEF Abstract!Next, Abstract!Observe

\* How the pending ids of one transaction enter the set of all pending ids.
LEMMA PendingUnion ==
    /\ AllPending = UNION {PendingIds[t] : t \in Txns}
    /\ AllPending' = UNION {PendingIds'[t] : t \in Txns}
  BY DEF AllPending, PendingIds

\* Every step maps to a step, or a stutter, of the abstract specification.
LEMMA StepImplements ==
    ASSUME IInv, IInv', [Next]_vars
    PROVE  [Abstract!Next]_Abstract!vars
<1> USE DEF dbVars, genVars, txnVars
<1> DEFINE Goal == Abstract!Next \/ UNCHANGED <<seq, AllPending, RowIds, persistedUpto>>
<1>1. SUFFICES Goal
  BY DEF Abstract!vars
<1>2. ASSUME UNCHANGED <<seq, rows, persistedUpto>>, PendingIds' = PendingIds PROVE Goal
  BY <1>2, QuietStep
<1>3. TypeOK
  BY DEF IInv
<1>4. ASSUME NEW t \in Txns, TxnStep(t) PROVE Goal
  <2>1. CASE NextVal(t)
    <3>1. PendingIds' = [PendingIds EXCEPT ![t] = @ \union {seq + 1}]
      BY <1>3, <2>1 DEF NextVal, PendingIds, Pending, TypeOK
    <3>2. AllPending' = AllPending \union {seq + 1}
      <4>1. PendingIds'[t] = PendingIds[t] \union {seq + 1}
        BY <3>1 DEF PendingIds
      <4>2. \A u \in Txns : u # t => PendingIds'[u] = PendingIds[u]
        BY <3>1 DEF PendingIds
      <4> QED
        BY <4>1, <4>2, PendingUnion
    <3>3. seq \in Nat /\ seq' = seq + 1 /\ RowIds' = RowIds /\ persistedUpto' = persistedUpto
      BY <1>3, <2>1 DEF NextVal, RowIds, TypeOK
    <3>4. {seq + 1} = seq + 1 .. seq + 1
      BY <3>3
    <3>5. Abstract!Allocate
      BY <3>2, <3>3, <3>4 DEF Abstract!Allocate
    <3> QED
      BY <3>5 DEF Abstract!Next
  <2>2. CASE AddUnfinished(t) \/ DropInFlight(t)
    <3>1. PendingIds' = PendingIds
      BY <1>3, <2>2 DEF AddUnfinished, DropInFlight, PendingIds, Pending, TypeOK
    <3> QED
      BY <1>2, <2>2, <3>1 DEF AddUnfinished, DropInFlight
  <2>3. CASE \E used \in SUBSET ids[t] : Commit(t, used)
    <3>1. PICK used \in SUBSET ids[t] : Commit(t, used)
      BY <2>3
    <3>2. /\ PendingIds' = [PendingIds EXCEPT ![t] = {}]
          /\ PendingIds[t] = ids[t]
      BY <1>3, <3>1 DEF Commit, PendingIds, Pending, TypeOK
    <3>3. \A u \in Txns : u # t => PendingIds[u] \intersect ids[t] = {}
      BY <1>3, PendingType DEF IInv, TxnInv
    <3>4. AllPending' = AllPending \ ids[t] /\ ids[t] \subseteq AllPending
      <4>1. \A u \in Txns : PendingIds'[u] = PendingIds[u] \ ids[t]
        BY <3>2, <3>3 DEF PendingIds
      <4> QED
        BY <3>2, <4>1, PendingUnion
    <3>5. RowIds' = RowIds \union used
      <4>1. rows' = rows \union {<<Home[t], id>> : id \in used}
        BY <3>1 DEF Commit
      <4>2. ASSUME NEW x PROVE x \in RowIds' <=> x \in RowIds \/ x \in used
        <5>1. ASSUME x \in used PROVE x \in RowIds'
          <6>1. <<Home[t], x>> \in rows'
            BY <4>1, <5>1
          <6> QED
            BY <6>1 DEF RowIds
        <5>2. ASSUME x \in RowIds PROVE x \in RowIds'
          BY <4>1, <5>2 DEF RowIds
        <5>3. ASSUME x \in RowIds' PROVE x \in RowIds \/ x \in used
          BY <4>1, <5>3 DEF RowIds
        <5> QED
          BY <5>1, <5>2, <5>3
      <4> QED
        BY <4>2
    <3>6. Abstract!Complete
      BY <3>1, <3>4, <3>5 DEF Commit, Abstract!Complete
    <3> QED
      BY <3>6 DEF Abstract!Next
  <2>4. CASE Rollback(t)
    <3>1. \A u \in Txns : PendingIds'[u] \subseteq PendingIds[u]
      BY <1>3, <2>4 DEF Rollback, PendingIds, Pending, TypeOK
    <3>2. Abstract!Complete
      BY <2>4, <3>1, PendingUnion DEF Rollback, RowIds, Abstract!Complete
    <3> QED
      BY <3>2 DEF Abstract!Next
  <2>5. CASE MarkFinished(t)
    <3>1. PendingIds' = PendingIds /\ UNCHANGED <<seq, rows>> /\ Home[t] \in Instances
      BY <1>3, <2>5, ConstantsAssumption DEF MarkFinished, PendingIds, Pending, TypeOK
    <3>2. persistedUpto' = [persistedUpto EXCEPT ![Home[t]] = persistedUpto'[Home[t]]]
      BY <1>3, <2>5, <3>1 DEF MarkFinished, TypeOK
    <3> QED
      BY <2>5, <3>1, <3>2, MarkFinishedStep, QuietImplements
  <2>6. CASE ReadToken(t) \/ Upsert(t)
    <3>1. PendingIds' = PendingIds
      BY <1>3, <2>6 DEF ReadToken, Upsert, PendingIds, Pending, TypeOK
    <3> QED
      BY <1>2, <2>6, <3>1 DEF ReadToken, Upsert
  <2> HIDE DEF Goal
  <2> QED
    BY <1>4, <2>1, <2>2, <2>3, <2>4, <2>5, <2>6 DEF TxnStep
<1>5. ASSUME NEW t \in Txns, NEW n \in 1 .. MaxBatch, StartFetch(t, n) PROVE Goal
  <2>1. PendingIds' = PendingIds
    BY <1>3, <1>5 DEF StartFetch, PendingIds, Pending, TypeOK, IInv, TxnInv
  <2> QED
    BY <1>2, <1>5, <2>1 DEF StartFetch
<1>6. ASSUME NEW t \in Txns, FetchFails(t) PROVE Goal
  <2>1. \A u \in Txns : PendingIds'[u] \subseteq PendingIds[u]
    BY <1>3, <1>6 DEF FetchFails, PendingIds, Pending, TypeOK
  <2>2. Abstract!Complete
    BY <1>6, <2>1, PendingUnion DEF FetchFails, RowIds, Abstract!Complete
  <2> QED
    BY <2>2 DEF Abstract!Next
<1>7. ASSUME NEW t \in Txns, UpsertFails(t) PROVE Goal
  <2>1. PendingIds' = PendingIds
    BY <1>3, <1>7 DEF UpsertFails, PendingIds, Pending, TypeOK
  <2> QED
    BY <1>2, <1>7, <2>1 DEF UpsertFails
<1>8. ASSUME NEW w \in Writers, NEW v \in 1 .. seq, Announce(w, v) PROVE Goal
  BY <1>2, <1>8 DEF Announce, PendingIds, Pending
<1>9. ASSUME NEW i \in Instances, NEW m \in sent, Advance(i, m[1], m[2]) PROVE Goal
  <2>1. m[1] \in Writers /\ m[2] \in Nat
    BY <1>3 DEF TypeOK
  <2>2. PendingIds' = PendingIds /\ UNCHANGED <<seq, rows>>
    BY <1>9 DEF Advance, PendingIds, Pending
  <2>3. persistedUpto' = [persistedUpto EXCEPT ![i] = persistedUpto'[i]]
    BY <1>3, <1>9 DEF Advance, TypeOK
  <2> QED
    BY <1>9, <2>1, <2>2, <2>3, AdvanceStep, QuietImplements
<1>10. ASSUME NEW i \in Instances, Restart(i) PROVE Goal
  <2>1. UNCHANGED <<seq, rows>>
    BY <1>10 DEF Restart
  <2>2. \A u \in Txns : PendingIds'[u] \subseteq PendingIds[u]
    BY <1>10 DEF Restart, PendingIds, Pending
  <2>3. persistedUpto' = [persistedUpto EXCEPT ![i] = persistedUpto'[i]]
    BY <1>3, <1>10 DEF Restart, TypeOK
  <2>4. 1 <= persistedUpto'[i] /\ ClearAll(seq', PendingIds', persistedUpto'[i])
    BY DEF IInv, UptoInv
  <2>5. Abstract!Reload(i)
    BY <2>1, <2>2, <2>3, <2>4, PendingUnion DEF Abstract!Reload, Abstract!Safe, RowIds, ClearAll
  <2> QED
    BY <2>5 DEF Abstract!Next
<1>11. CASE UNCHANGED vars
  BY <1>2, <1>11 DEF vars, PendingIds, Pending
<1> HIDE DEF Goal
<1> QED
  BY <1>4, <1>5, <1>6, <1>7, <1>8, <1>9, <1>10, <1>11 DEF Next, HealthyNext

\* The multi-writer generator implements the abstract one, restarts, failures
\* and unreliable replication included.
THEOREM ImplementsAbstract ==
    ASSUME FreshWriters = {}
    PROVE  Spec => ImplementsStreamTokens
<1>1. Init => Abstract!Init
  <2> SUFFICES ASSUME Init PROVE Abstract!Init
    OBVIOUS
  <2>1. AllPending = {} /\ RowIds = {}
    BY DEF Init, AllPending, Pending, RowIds
  <2> QED
    BY <2>1 DEF Init, Abstract!Init
<1>2. IInv /\ IInv' /\ [Next]_vars => [Abstract!Next]_Abstract!vars
  BY StepImplements
<1>3. Spec => []IInv
  BY IInvHolds
<1> QED
  BY <1>1, <1>2, <1>3, PTL DEF Spec, ImplementsStreamTokens, Abstract!Spec
=============================================================================
