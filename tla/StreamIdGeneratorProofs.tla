----------------------- MODULE StreamIdGeneratorProofs -----------------------
(***************************************************************************)
(* The token of StreamIdGenerator is sound for every set of readers,       *)
(* transactions and tables, across restarts; up to the first restart the   *)
(* class implements StreamTokens.                                          *)
(***************************************************************************)
EXTENDS StreamIdGenerator, Extrema, TLAPS

(***************************************************************************)
(* The inductive invariant.  Ids in progress are unfinished, no two        *)
(* transactions share one, no row has one, and everything is at or below   *)
(* _current.                                                               *)
(***************************************************************************)
TxnInv ==
    /\ \A t \in Txns : ids[t] \subseteq unfinishedIds
    /\ \A t \in Txns : pc[t] = "idle" => ids[t] = {}
    /\ \A t, u \in Txns : \A id \in ids[t] : id \in ids[u] => t = u

RowsInv ==
    /\ \A row \in rows : row[2] <= current
    /\ \A t \in Txns : pc[t] = "open" => \A row \in rows : row[2] \notin ids[t]

UnfinishedInv == \A id \in unfinishedIds : 1 < id /\ id <= current

IInv == TypeOK /\ TxnInv /\ RowsInv /\ UnfinishedInv

\* A position of which the writer has nothing at or below in progress.
Sound(v) == 1 <= v /\ v <= current /\ \A t \in Txns : pc[t] = "open" => \A id \in ids[t] : v < id

\* Before the first restart, announcements and readers' positions are sound.
SentInv ==
    restarts + readerRestarts = 0 =>
        /\ \A v \in sent : Sound(v)
        /\ \A i \in Readers : Sound(readerCurrent[i])

-----------------------------------------------------------------------------
\* __init__ finds a position at or above every row of every table.
LEMMA LoadCurrentProp ==
    ASSUME IInv
    PROVE  LoadCurrent \in Nat \ {0} /\ \A row \in rows : row[2] <= LoadCurrent
<1> DEFINE S == {1} \union RowIds
<1>1. \A row \in rows : row[2] \in Nat
  BY DEF IInv, TypeOK
<1>2. S \in SUBSET Nat /\ S # {} /\ current \in Nat
  BY <1>1 DEF IInv, TypeOK, RowIds
<1>3. \A x \in S : x <= current
  BY DEF IInv, TypeOK, RowsInv, RowIds
<1> HIDE DEF S
<1>4. Max(S) \in S /\ \A x \in S : x <= Max(S)
  BY <1>2, <1>3, MaxNat
<1>5. Max(S) \in Nat /\ 1 <= Max(S)
  BY <1>2, <1>4 DEF S
<1>6. LoadCurrent = Max(S)
  BY DEF LoadCurrent, S
<1>7. \A row \in rows : row[2] \in S
  BY DEF S, RowIds
<1> QED
  BY <1>4, <1>5, <1>6, <1>7

\* get_current_token lies below the unfinished ids and at or below _current.
LEMMA CurrentTokenProp ==
    ASSUME IInv
    PROVE  /\ CurrentToken \in Nat
           /\ 1 <= CurrentToken /\ CurrentToken <= current
           /\ \A id \in unfinishedIds : CurrentToken < id
           /\ unfinishedIds # {} => CurrentToken + 1 \in unfinishedIds
<1>1. unfinishedIds \in SUBSET Nat /\ current \in Nat /\ 1 <= current
  BY DEF IInv, TypeOK
<1>2. CASE unfinishedIds = {}
  BY <1>1, <1>2 DEF CurrentToken
<1>3. CASE unfinishedIds # {}
  <2>1. Min(unfinishedIds) \in unfinishedIds /\ \A x \in unfinishedIds : Min(unfinishedIds) <= x
    BY <1>1, <1>3, MinNat
  <2>2. PICK m \in unfinishedIds : m = Min(unfinishedIds) /\ \A x \in unfinishedIds : m <= x
    BY <2>1
  <2>3. m \in Nat /\ 1 < m /\ m <= current
    BY <1>1 DEF IInv, UnfinishedInv
  <2>4. CurrentToken = m - 1
    BY <1>3, <2>2 DEF CurrentToken
  <2>5. \A id \in unfinishedIds : id \in Nat /\ m <= id
    BY <1>1, <2>2
  <2> QED
    BY <1>1, <2>3, <2>4, <2>5
<1> QED
  BY <1>2, <1>3

\* Handing out ids keeps the invariant: they are above all that is there.
LEMMA GetNextStep ==
    ASSUME IInv, NEW t \in Txns, NEW n \in 1 .. MaxBatch, GetNext(t, n)
    PROVE  IInv'
<1> USE DEF GetNext
<1>1. n \in Nat /\ 1 <= n /\ current \in Nat /\ 1 <= current
  BY BoundsAssumption DEF IInv, TypeOK
<1> DEFINE new == current + 1 .. current + n
<1>2. \A id \in new : id \in Nat /\ current < id /\ id <= current'
  BY <1>1
<1> HIDE DEF new
<1>3. /\ ids' = [ids EXCEPT ![t] = new]
      /\ unfinishedIds' = unfinishedIds \union new
      /\ current' \in Nat /\ current <= current' /\ 1 <= current'
  BY <1>1 DEF new
<1>4. TypeOK'
  BY <1>2, <1>3 DEF IInv, TypeOK
<1>5. \A u \in Txns : \A id \in ids[u] : id <= current /\ id \notin new
  BY <1>1, <1>2 DEF IInv, TypeOK, TxnInv, UnfinishedInv
<1>6. TxnInv'
  BY <1>3, <1>5 DEF IInv, TypeOK, TxnInv
<1>7. RowsInv'
  <2>1. \A row \in rows : row[2] \in Nat /\ row[2] <= current /\ row[2] \notin new
    BY <1>1, <1>2 DEF IInv, TypeOK, RowsInv
  <2>2. \A row \in rows : row[2] <= current'
    BY <1>1, <1>3, <2>1
  <2> QED
    BY <1>3, <2>1, <2>2 DEF IInv, TypeOK, RowsInv
<1>8. UnfinishedInv'
  <2>1. \A id \in unfinishedIds : id \in Nat /\ 1 < id /\ id <= current
    BY DEF IInv, TypeOK, UnfinishedInv
  <2> QED
    BY <1>1, <1>2, <1>3, <2>1 DEF UnfinishedInv
<1> QED
  BY <1>4, <1>6, <1>7, <1>8 DEF IInv

\* The end of a write transaction keeps the invariant: its ids are its own.
LEMMA CompleteStep ==
    ASSUME IInv, NEW t \in Txns,
           Rollback(t) \/ \E new \in SUBSET (Tables \X ids[t]) : Commit(t, new)
    PROVE  IInv'
<1>1. PICK new \in SUBSET (Tables \X ids[t]) : /\ pc[t] = "open"
                                              /\ rows' = rows \union new
                                              /\ pc' = [pc EXCEPT ![t] = "done"]
                                              /\ UNCHANGED <<current, unfinishedIds, readerCurrent,
                                                             ids, sent, restarts, readerRestarts>>
  <2>1. CASE Rollback(t)
    <3>1. rows' = rows \union {}
      BY <2>1 DEF Rollback
    <3> QED
      BY <2>1, <3>1 DEF Rollback
  <2> QED
    BY <2>1 DEF Commit
<1>2. \A row \in new : row \in Tables \X Nat /\ row[2] \in ids[t]
  BY DEF IInv, TypeOK
<1>3. TypeOK'
  BY <1>1, <1>2 DEF IInv, TypeOK
<1>4. TxnInv'
  BY <1>1 DEF IInv, TypeOK, TxnInv
<1>5. \A row \in new : row[2] <= current
  BY <1>2 DEF IInv, TxnInv, UnfinishedInv
<1>6. RowsInv'
  <2>1. \A u \in Txns : pc'[u] = "open" => u # t /\ pc[u] = "open"
    BY <1>1 DEF IInv, TypeOK
  <2>2. \A u \in Txns : u # t => \A row \in new : row[2] \notin ids[u]
    BY <1>2 DEF IInv, TxnInv
  <2> QED
    BY <1>1, <1>5, <2>1, <2>2 DEF IInv, RowsInv
<1>7. UnfinishedInv'
  BY <1>1 DEF IInv, UnfinishedInv
<1> QED
  BY <1>3, <1>4, <1>6, <1>7 DEF IInv

\* Removing the ids of a transaction from _unfinished_ids keeps the invariant:
\* those of the others stay.
LEMMA FinishStep ==
    ASSUME IInv, NEW t \in Txns, Finish(t)
    PROVE  IInv'
<1> USE DEF Finish
<1>1. TypeOK'
  BY DEF IInv, TypeOK
<1>2. TxnInv'
  <2>1. \A u \in Txns : u # t => ids[u] \subseteq unfinishedIds'
    BY DEF IInv, TxnInv
  <2> QED
    BY <2>1 DEF IInv, TypeOK, TxnInv
<1>3. RowsInv' /\ UnfinishedInv'
  BY DEF IInv, TypeOK, RowsInv, UnfinishedInv
<1> QED
  BY <1>1, <1>2, <1>3 DEF IInv

\* Replication does not touch the writer.
LEMMA ReplicationStep ==
    ASSUME IInv,
           \/ \E v \in 1 .. current : Announce(v)
           \/ \E i \in Readers : \E v \in sent : Advance(i, v)
           \/ UNCHANGED vars
    PROVE  IInv'
<1>1. /\ UNCHANGED <<current, unfinishedIds, rows, pc, ids, restarts, readerRestarts>>
      /\ sent' \in SUBSET Nat
      /\ readerCurrent' \in [Readers -> Nat \ {0}]
  <2>1. CASE \E v \in 1 .. current : Announce(v)
    BY <2>1 DEF Announce, IInv, TypeOK
  <2>2. CASE \E i \in Readers : \E v \in sent : Advance(i, v)
    <3>1. PICK i \in Readers, v \in sent : Advance(i, v)
      BY <2>2
    <3>2. MaxOf2(readerCurrent[i], v) \in Nat \ {0}
      BY DEF MaxOf2, IInv, TypeOK
    <3> QED
      BY <3>1, <3>2 DEF Advance, IInv, TypeOK
  <2>3. CASE UNCHANGED vars
    BY <2>3 DEF vars, IInv, TypeOK
  <2> QED
    BY <2>1, <2>2, <2>3
<1> QED
  BY <1>1 DEF IInv, TypeOK, TxnInv, RowsInv, UnfinishedInv

\* Restarts keep the invariant: the writer starts above all rows.
LEMMA RestartStep ==
    ASSUME IInv, Restart \/ \E i \in Readers : RestartReader(i)
    PROVE  IInv'
<1>1. LoadCurrent \in Nat \ {0} /\ \A row \in rows : row[2] <= LoadCurrent
  BY LoadCurrentProp
<1>2. CASE Restart
  BY <1>1, <1>2 DEF Restart, IInv, TypeOK, TxnInv, RowsInv, UnfinishedInv
<1>3. CASE \E i \in Readers : RestartReader(i)
  BY <1>1, <1>3 DEF RestartReader, IInv, TypeOK, TxnInv, RowsInv, UnfinishedInv
<1> QED
  BY <1>2, <1>3

\* The invariant holds of an empty stream.
LEMMA InitIInv == Init => IInv
  BY DEF Init, IInv, TypeOK, TxnInv, RowsInv, UnfinishedInv

\* Every step keeps the invariant.
LEMMA NextIInv == IInv /\ [Next]_vars => IInv'
  BY GetNextStep, CompleteStep, FinishStep, ReplicationStep, RestartStep DEF Next

-----------------------------------------------------------------------------
\* The inductive invariant holds in every reachable state.
THEOREM IInvHolds == Spec => []IInv
  BY InitIInv, NextIInv, PTL DEF Spec

\* The variables of the writer, its transactions, the tables and the readers
\* keep their types, and positions are never 0.
THEOREM TypeCorrect == Spec => []TypeOK
<1>1. IInv => TypeOK
  BY DEF IInv
<1> QED
  BY <1>1, IInvHolds, PTL

\* get_current_token on the writer never covers an id in progress.
THEOREM WriterTokenIsSound == Spec => []WriterTokenSound
<1>1. IInv => WriterTokenSound
  BY CurrentTokenProp DEF WriterTokenSound, Pending, IInv, TxnInv
<1> QED
  BY <1>1, IInvHolds, PTL

\* No transaction in progress holds the id of a row, whatever restarts there were.
THEOREM IdsAreFresh == Spec => []FreshIds
<1>1. IInv => FreshIds
  BY DEF FreshIds, Pending, RowIds, IInv, RowsInv
<1> QED
  BY <1>1, IInvHolds, PTL

-----------------------------------------------------------------------------
(***************************************************************************)
(* The refinement.  The token of a step's second state needs               *)
(* CurrentTokenProp of primed variables, so TokenProp states it of values. *)
(***************************************************************************)
\* get_current_token for the values c of _current and u of _unfinished_ids.
TokenOf(c, u) == IF u = {} THEN c ELSE Min(u) - 1

\* get_current_token lies below the unfinished ids, just below the oldest one.
LEMMA TokenProp ==
    ASSUME NEW c \in Nat, NEW u \in SUBSET Nat, 1 <= c, \A id \in u : 1 < id /\ id <= c
    PROVE  /\ TokenOf(c, u) \in Nat
           /\ 1 <= TokenOf(c, u) /\ TokenOf(c, u) <= c
           /\ \A id \in u : TokenOf(c, u) < id
           /\ u # {} => TokenOf(c, u) + 1 \in u
           /\ u = {} => TokenOf(c, u) = c
<1>1. CASE u = {}
  BY <1>1 DEF TokenOf
<1>2. CASE u # {}
  <2>1. Min(u) \in u /\ \A x \in u : Min(u) <= x
    BY <1>2, MinNat
  <2>2. PICK m \in u : m = Min(u) /\ \A x \in u : m <= x
    BY <2>1
  <2>3. TokenOf(c, u) = m - 1
    BY <1>2, <2>2 DEF TokenOf
  <2> QED
    BY <1>2, <2>2, <2>3
<1> QED
  BY <1>1, <1>2

\* Handing out ids leaves the token where it is: the new ids are above the
\* unfinished ones, and just above _current when there are none.
LEMMA TokenUnmoved ==
    ASSUME IInv, NEW t \in Txns, NEW n \in 1 .. MaxBatch, GetNext(t, n)
    PROVE  CurrentToken' = CurrentToken
<1> DEFINE new == current + 1 .. current + n
           u == unfinishedIds
           a == TokenOf(current, u)
           b == TokenOf(current', u \union new)
<1>1. n \in Nat /\ 1 <= n /\ current \in Nat /\ 1 <= current
  BY BoundsAssumption DEF IInv, TypeOK
<1>2. unfinishedIds' = u \union new /\ current' = current + n
  BY DEF GetNext
<1>3. /\ \A id \in new : id \in Nat /\ current + 1 <= id /\ id <= current'
      /\ current + 1 \in new
  BY <1>1, <1>2
<1>4. u \in SUBSET Nat /\ \A id \in u : 1 < id /\ id <= current
  BY DEF IInv, TypeOK, UnfinishedInv
<1>5. CurrentToken = a /\ CurrentToken' = b
  BY <1>2 DEF CurrentToken, TokenOf
<1> HIDE DEF new
<1>6. current' \in Nat /\ 1 <= current' /\ current <= current'
  BY <1>1, <1>2
<1>7. /\ u \union new \in SUBSET Nat
      /\ u \union new # {}
      /\ \A id \in u \union new : 1 < id /\ id <= current'
  <2>1. \A id \in u : id \in Nat /\ 1 < id /\ id <= current'
    BY <1>1, <1>4, <1>6
  <2>2. \A id \in new : id \in Nat /\ 1 < id /\ id <= current'
    BY <1>1, <1>3
  <2> HIDE DEF u
  <2> QED
    BY <1>3, <2>1, <2>2
<1>8. /\ a \in Nat /\ a <= current
      /\ \A id \in u : a < id
      /\ u # {} => a + 1 \in u
      /\ u = {} => a = current
  BY <1>1, <1>4, TokenProp
<1>9. b \in Nat /\ (\A id \in u \union new : b < id) /\ b + 1 \in u \union new
  BY <1>6, <1>7, TokenProp
<1> HIDE DEF a, b, u
<1>10. b <= a
  <2>1. CASE u = {}
    BY <1>1, <1>3, <1>8, <1>9, <2>1
  <2>2. CASE u # {}
    BY <1>8, <1>9, <2>2
  <2> QED
    BY <2>1, <2>2
<1>11. a <= b
  <2>1. CASE b + 1 \in u
    BY <1>8, <1>9, <2>1
  <2>2. CASE b + 1 \in new
    BY <1>1, <1>3, <1>8, <1>9, <2>2
  <2> QED
    BY <1>9, <2>1, <2>2
<1> QED
  BY <1>5, <1>8, <1>9, <1>10, <1>11

\* The end of a transaction moves the token forward, to a position below the
\* ids that are still unfinished.
LEMMA TokenForward ==
    ASSUME IInv, NEW t \in Txns, Finish(t)
    PROVE  CurrentToken <= CurrentToken' /\ Sound(CurrentToken')
<1> DEFINE u == unfinishedIds
           r == unfinishedIds \ ids[t]
           a == TokenOf(current, u)
           b == TokenOf(current, r)
<1>1. current \in Nat /\ 1 <= current
  BY DEF IInv, TypeOK
<1>2. u \in SUBSET Nat /\ \A id \in u : 1 < id /\ id <= current
  BY DEF IInv, TypeOK, UnfinishedInv
<1>3. CurrentToken = a /\ CurrentToken' = b
  BY DEF CurrentToken, TokenOf, Finish
<1>4. r \in SUBSET Nat /\ (\A id \in r : 1 < id /\ id <= current) /\ r \subseteq u
  BY <1>2
<1>5. \A s \in Txns : pc[s] = "open" => ids[s] \subseteq r
  BY DEF IInv, TxnInv, Finish
<1> HIDE DEF u, r
<1>6. a \in Nat /\ a <= current /\ \A id \in u : a < id
  BY <1>1, <1>2, TokenProp
<1>7. /\ b \in Nat /\ 1 <= b /\ b <= current
      /\ \A id \in r : b < id
      /\ r # {} => b + 1 \in r
      /\ r = {} => b = current
  BY <1>1, <1>4, TokenProp
<1> HIDE DEF a, b
<1>8. a <= b
  <2>1. CASE r = {}
    BY <1>6, <1>7, <2>1
  <2>2. CASE r # {}
    BY <1>4, <1>6, <1>7, <2>2
  <2> QED
    BY <2>1, <2>2
<1> QED
  BY <1>3, <1>5, <1>7, <1>8 DEF Sound

\* There has been no restart if there is none after the step.
LEMMA NoRestart ==
    ASSUME IInv, [Next]_vars, restarts' + readerRestarts' = 0
    PROVE  restarts + readerRestarts = 0 /\ ~ Restart /\ \A i \in Readers : ~ RestartReader(i)
<1>1. restarts \in Nat /\ readerRestarts \in Nat
  BY DEF IInv, TypeOK
<1>2. Restart => restarts' + readerRestarts' # 0
  BY <1>1 DEF Restart
<1>3. ASSUME NEW i \in Readers, RestartReader(i) PROVE restarts' + readerRestarts' # 0
  BY <1>1, <1>3 DEF RestartReader
<1>4. ~ Restart /\ \A i \in Readers : ~ RestartReader(i)
  BY <1>2, <1>3
<1>5. UNCHANGED <<restarts, readerRestarts>>
  BY <1>4 DEF Next, vars, GetNext, Commit, Rollback, Finish, Announce, Advance
<1> QED
  BY <1>4, <1>5

\* While the writer does not restart, sound positions stay sound.
LEMMA SoundStable ==
    ASSUME IInv, [Next]_vars, restarts' + readerRestarts' = 0, NEW v \in Nat, Sound(v)
    PROVE  Sound(v)'
<1>1. current \in Nat /\ restarts \in Nat /\ readerRestarts \in Nat
  BY DEF IInv, TypeOK
<1>2. ASSUME NEW t \in Txns, NEW n \in 1 .. MaxBatch, GetNext(t, n) PROVE Sound(v)'
  <2>1. n \in Nat /\ current' = current + n /\ v <= current'
    BY <1>1, <1>2, BoundsAssumption DEF GetNext, Sound
  <2>2. \A id \in ids'[t] : v < id
    BY <1>1, <1>2, <2>1 DEF GetNext, IInv, TypeOK, Sound
  <2>3. \A u \in Txns : u # t => pc'[u] = pc[u] /\ ids'[u] = ids[u]
    BY <1>2 DEF GetNext, IInv, TypeOK
  <2> QED
    BY <2>1, <2>2, <2>3 DEF Sound
<1>3. ASSUME NEW t \in Txns,
             Finish(t) \/ Rollback(t) \/ \E new \in SUBSET (Tables \X ids[t]) : Commit(t, new)
      PROVE Sound(v)'
  <2>1. current' = current /\ \A u \in Txns : pc'[u] = "open" => pc[u] = "open" /\ ids'[u] = ids[u]
    BY <1>3 DEF Finish, Rollback, Commit, IInv, TypeOK
  <2> QED
    BY <2>1 DEF Sound
<1>4. ASSUME UNCHANGED <<current, pc, ids>> PROVE Sound(v)'
  BY <1>4 DEF Sound
<1>5. ~ Restart
  BY <1>1 DEF Restart
<1> QED
  BY <1>2, <1>3, <1>4, <1>5 DEF Next, vars, Announce, Advance, RestartReader

\* Every step keeps what is announced, and what readers have taken over, sound.
LEMMA NextSentInv == IInv /\ SentInv /\ [Next]_vars => SentInv'
<1> SUFFICES ASSUME IInv, SentInv, [Next]_vars, restarts' + readerRestarts' = 0
             PROVE  (\A v \in sent : Sound(v))' /\ (\A i \in Readers : Sound(readerCurrent[i]))'
  BY DEF SentInv
<1>1. restarts + readerRestarts = 0 /\ ~ Restart /\ \A i \in Readers : ~ RestartReader(i)
  BY NoRestart
<1>2. \A v \in Nat : Sound(v) => Sound(v)'
  BY SoundStable
<1>3. /\ sent \in SUBSET Nat /\ \A v \in sent : Sound(v)
      /\ readerCurrent \in [Readers -> Nat \ {0}] /\ \A i \in Readers : Sound(readerCurrent[i])
  BY <1>1 DEF SentInv, IInv, TypeOK
<1>4. \A v \in sent' : v \in sent \/ (Sound(v) /\ v \in Nat)
  <2>1. ASSUME NEW v \in 1 .. current, Announce(v) PROVE Sound(v) /\ v \in Nat
    <3>1. /\ current \in Nat /\ CurrentToken \in Nat
          /\ \A t \in Txns : \A id \in ids[t] : id \in Nat /\ CurrentToken < id
      BY CurrentTokenProp DEF IInv, TypeOK, TxnInv
    <3>2. v <= CurrentToken /\ v \in Nat /\ 1 <= v /\ v <= current
      BY <2>1, <3>1 DEF Announce
    <3> QED
      BY <3>1, <3>2 DEF Sound
  <2>2. ASSUME NEW v \in 1 .. current, Announce(v) PROVE sent' = sent \union {v}
    BY <2>2 DEF Announce
  <2>3. CASE UNCHANGED sent
    BY <2>3
  <2> QED
    BY <1>1, <2>1, <2>2, <2>3 DEF Next, vars, GetNext, Commit, Rollback, Finish, Advance
<1>5. \A i \in Readers : readerCurrent'[i] = readerCurrent[i] \/ readerCurrent'[i] \in sent
  <2>1. ASSUME NEW i \in Readers, NEW v \in sent, Advance(i, v)
        PROVE \A j \in Readers : readerCurrent'[j] = readerCurrent[j] \/ readerCurrent'[j] \in sent
    BY <1>3, <2>1 DEF Advance, MaxOf2
  <2>2. CASE UNCHANGED readerCurrent
    BY <2>2
  <2> QED
    BY <1>1, <2>1, <2>2 DEF Next, vars, GetNext, Commit, Rollback, Finish, Announce
<1>6. \A i \in Readers : readerCurrent'[i] \in Nat /\ Sound(readerCurrent'[i])
  BY <1>3, <1>5
<1>7. \A v \in sent' : Sound(v)'
  BY <1>2, <1>3, <1>4
<1>8. \A i \in Readers : (Sound(readerCurrent[i]))'
  BY <1>2, <1>6 DEF Sound
<1> QED
  BY <1>7, <1>8

\* The token of a process, as the refinement mapping has it.
Token == [i \in Readers \union {"writer"} |->
             IF i \in Readers THEN readerCurrent[i] ELSE CurrentToken]

\* get_next, get_next_mult and get_next_txn are Allocate.
LEMMA GetNextRefines ==
    ASSUME IInv, NEW t \in Txns, NEW n \in 1 .. MaxBatch, GetNext(t, n)
    PROVE  Abstract!Allocate
<1> DEFINE new == current + 1 .. current + n
<1>1. n \in Nat /\ 1 <= n /\ current \in Nat /\ current' = current + n
  BY BoundsAssumption DEF IInv, TypeOK, GetNext
<1>2. Pending' = Pending \union new
  <2>1. ids'[t] = new /\ pc'[t] = "open" /\ pc[t] # "open"
    BY DEF GetNext, IInv, TypeOK
  <2>2. \A u \in Txns : u # t => ids'[u] = ids[u] /\ pc'[u] = pc[u]
    BY DEF GetNext, IInv, TypeOK
  <2> HIDE DEF new
  <2> QED
    BY <2>1, <2>2 DEF Pending
<1>3. new = current + 1 .. current'
  BY <1>1
<1>4. RowIds' = RowIds
  BY DEF GetNext, RowIds
<1>5. Token' = Token
  BY TokenUnmoved DEF Token, GetNext
<1>6. current' > current
  BY <1>1
<1> HIDE DEF new
<1> QED
  BY <1>2, <1>3, <1>4, <1>5, <1>6 DEF Abstract!Allocate, Token

\* The commit or rollback of a write transaction is Complete.
LEMMA CompleteRefines ==
    ASSUME IInv, NEW t \in Txns,
           Rollback(t) \/ \E new \in SUBSET (Tables \X ids[t]) : Commit(t, new)
    PROVE  Abstract!Complete
<1>1. PICK new \in SUBSET (Tables \X ids[t]) : /\ pc[t] = "open"
                                              /\ rows' = rows \union new
                                              /\ pc' = [pc EXCEPT ![t] = "done"]
                                              /\ UNCHANGED <<current, unfinishedIds,
                                                             readerCurrent, ids>>
  <2>1. CASE Rollback(t)
    <3>1. rows' = rows \union {}
      BY <2>1 DEF Rollback
    <3> QED
      BY <2>1, <3>1 DEF Rollback
  <2> QED
    BY <2>1 DEF Commit
<1>2. \A u \in Txns : pc'[u] = "open" <=> pc[u] = "open" /\ u # t
  BY <1>1 DEF IInv, TypeOK
<1>3. Pending' \subseteq Pending
  BY <1>1, <1>2 DEF Pending
<1>4. \A id \in ids[t] : id \in Pending /\ id \notin Pending'
  BY <1>1, <1>2 DEF Pending, IInv, TxnInv
<1>5. \A row \in new : row[2] \in ids[t]
  OBVIOUS
<1>6. RowIds \subseteq RowIds' /\ RowIds' \ RowIds \subseteq Pending \ Pending'
  BY <1>1, <1>4, <1>5 DEF RowIds
<1>7. current' = current /\ Token' = Token
  BY <1>1 DEF Token, CurrentToken
<1> QED
  BY <1>3, <1>6, <1>7 DEF Abstract!Complete, Token

\* The finally clause is Observe of the writer: its token moves forward.
LEMMA FinishRefines ==
    ASSUME IInv, NEW t \in Txns, Finish(t)
    PROVE  Abstract!Observe("writer")
<1>1. CurrentToken <= CurrentToken' /\ Sound(CurrentToken')
  BY TokenForward
<1>2. current' = current /\ RowIds' = RowIds /\ readerCurrent' = readerCurrent
  BY DEF Finish, RowIds
<1>3. Pending' = Pending
  <2>1. \A u \in Txns : (pc'[u] = "open" <=> pc[u] = "open") /\ (pc[u] = "open" => ids'[u] = ids[u])
    BY DEF Finish, IInv, TypeOK
  <2> QED
    BY <2>1 DEF Pending
<1>4. \A id \in Pending : CurrentToken' < id
  BY <1>1 DEF Sound, Pending
<1>5. 1 <= CurrentToken' /\ CurrentToken' <= current
  BY <1>1 DEF Sound
<1>6. /\ Token["writer"] = CurrentToken /\ Token'["writer"] = CurrentToken'
      /\ Token' = [Token EXCEPT !["writer"] = Token'["writer"]]
  BY <1>2, BoundsAssumption DEF Token
<1> QED
  BY <1>1, <1>2, <1>3, <1>4, <1>5, <1>6 DEF Abstract!Observe, Abstract!Safe, Token

\* A position that reaches a reader is Observe of that reader, while what was
\* announced is sound.
LEMMA AdvanceRefines ==
    ASSUME IInv, NEW i \in Readers, NEW v \in sent, Advance(i, v), Sound(v), Sound(readerCurrent[i])
    PROVE  Abstract!Observe(i)
<1>1. /\ UNCHANGED <<current, unfinishedIds, rows, pc, ids>>
      /\ readerCurrent' = [readerCurrent EXCEPT ![i] = MaxOf2(@, v)]
  BY DEF Advance
<1>2. current' = current /\ RowIds' = RowIds /\ Pending' = Pending /\ CurrentToken' = CurrentToken
  BY <1>1 DEF RowIds, Pending, CurrentToken
<1>3. readerCurrent \in [Readers -> Nat] /\ v \in Nat
  BY DEF IInv, TypeOK
<1>4. readerCurrent[i] <= readerCurrent'[i] /\ Sound(readerCurrent'[i])
  BY <1>1, <1>3 DEF MaxOf2
<1>5. Abstract!Safe(readerCurrent'[i], Pending)
  BY <1>4 DEF Sound, Pending, Abstract!Safe
<1>6. /\ Token[i] = readerCurrent[i] /\ Token'[i] = readerCurrent'[i]
      /\ Token' = [Token EXCEPT ![i] = Token'[i]]
  BY <1>1, <1>2, <1>3 DEF Token
<1> QED
  BY <1>2, <1>4, <1>5, <1>6 DEF Abstract!Observe, Token

\* Every step that is not a restart is one of StreamTokens or changes nothing.
LEMMA StepRefines ==
    ASSUME IInv, SentInv, [Next]_vars, restarts' + readerRestarts' = 0
    PROVE  [Abstract!Next]_(Abstract!vars)
<1>1. restarts + readerRestarts = 0 /\ ~ Restart /\ \A i \in Readers : ~ RestartReader(i)
  BY NoRestart
<1>2. /\ \A v \in sent : Sound(v)
      /\ \A i \in Readers : Sound(readerCurrent[i])
  BY <1>1 DEF SentInv
<1>3. ASSUME NEW t \in Txns, NEW n \in 1 .. MaxBatch, GetNext(t, n) PROVE Abstract!Next
  BY <1>3, GetNextRefines DEF Abstract!Next
<1>4. ASSUME NEW t \in Txns,
             Rollback(t) \/ \E new \in SUBSET (Tables \X ids[t]) : Commit(t, new)
      PROVE  Abstract!Next
  BY <1>4, CompleteRefines DEF Abstract!Next
<1>5. ASSUME NEW t \in Txns, Finish(t) PROVE Abstract!Next
  BY <1>5, FinishRefines DEF Abstract!Next
<1>6. ASSUME NEW i \in Readers, NEW v \in sent, Advance(i, v) PROVE Abstract!Next
  <2>1. Abstract!Observe(i)
    BY <1>2, <1>6, AdvanceRefines
  <2> QED
    BY <2>1 DEF Abstract!Next
<1>7. ASSUME UNCHANGED <<current, unfinishedIds, readerCurrent, rows, pc, ids>>
      PROVE  UNCHANGED Abstract!vars
  <2>1. Pending' = Pending /\ RowIds' = RowIds /\ Token' = Token
    BY <1>7 DEF Pending, RowIds, Token, CurrentToken
  <2> QED
    BY <1>7, <2>1 DEF Abstract!vars, Token
<1>8. ASSUME NEW v \in 1 .. current, Announce(v) PROVE UNCHANGED Abstract!vars
  BY <1>7, <1>8 DEF Announce
<1>9. CASE UNCHANGED vars
  BY <1>7, <1>9 DEF vars
<1> QED
  BY <1>1, <1>3, <1>4, <1>5, <1>6, <1>8, <1>9 DEF Next

\* Up to the first restart, the class implements StreamTokens: every token it
\* shows, on the writer and on every reader, only moves forward and covers no
\* id in progress.
THEOREM ImplementsAbstract == Spec => ImplementsStreamTokens
<1>1. Init => SentInv
  BY DEF Init, SentInv, Sound
<1>2. Init => Abstract!Init
  <2> SUFFICES ASSUME Init PROVE Abstract!Init
    OBVIOUS
  <2>1. Pending = {} /\ RowIds = {} /\ CurrentToken = 1 /\ current = 1
    BY DEF Init, Pending, RowIds, CurrentToken
  <2>2. Token = [i \in Readers \union {"writer"} |-> 1]
    BY <2>1 DEF Init, Token
  <2> QED
    BY <2>1, <2>2 DEF Abstract!Init, Token
<1>3. IInv /\ SentInv /\ [Next]_vars
      => [restarts' + readerRestarts' = 0 => Abstract!Next]_(Abstract!vars)
  BY StepRefines
<1>4. IInv /\ SentInv /\ [Next]_vars => IInv' /\ SentInv'
  BY NextIInv, NextSentInv
<1> QED
  BY InitIInv, <1>1, <1>2, <1>3, <1>4, PTL DEF Spec, ImplementsStreamTokens
=============================================================================
