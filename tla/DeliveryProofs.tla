--------------------------- MODULE DeliveryProofs ---------------------------
(***************************************************************************)
(* Proofs about what leaves the server and must not be lost on the way,    *)
(* for any number of events, transactions, failures and restarts: events   *)
(* for an application service, and push notifications.                     *)
(***************************************************************************)
EXTENDS Delivery, Extrema, SequenceTheorems

-----------------------------------------------------------------------------
(* Sequences *)

LEMMA FunctionIsSeq ==
    ASSUME NEW S, NEW n \in Nat, NEW f \in [1..n -> S]
    PROVE  f \in Seq(S)
    OBVIOUS

\* The elements of the empty sequence, of Append and of Tail.
LEMMA ToSetEmpty == ToSet(<<>>) = {}
    BY DEF ToSet

LEMMA ToSetAppend ==
    ASSUME NEW S, NEW s \in Seq(S), NEW x \in S
    PROVE  ToSet(Append(s, x)) = ToSet(s) \union {x}
<1> DEFINE a == Append(s, x)
<1>1. /\ DOMAIN a = 1 .. Len(s) + 1 /\ DOMAIN s = 1..Len(s) /\ Len(s) \in Nat
      /\ \A i \in 1..Len(s) : a[i] = s[i]
      /\ a[Len(s) + 1] = x
    OBVIOUS
<1> HIDE DEF a
<1>2. ASSUME NEW i \in DOMAIN a
      PROVE  a[i] \in ToSet(s) \union {x}
  <2>1. i = Len(s) + 1 \/ i \in 1..Len(s)
    BY <1>1
  <2> QED
    BY <2>1, <1>1, Zenon DEF ToSet
<1>3. 1..Len(s) \subseteq DOMAIN a /\ Len(s) + 1 \in DOMAIN a
    BY <1>1
<1>4. ToSet(s) \union {x} \subseteq ToSet(a)
    BY <1>1, <1>3, Zenon DEF ToSet
<1>5. ToSet(a) \subseteq ToSet(s) \union {x}
    BY <1>2, Zenon DEF ToSet
<1> QED
    BY <1>4, <1>5 DEF a

LEMMA ToSetTail ==
    ASSUME NEW S, NEW s \in Seq(S), s # <<>>
    PROVE  ToSet(s) = {Head(s)} \union ToSet(Tail(s))
<1> DEFINE u == Tail(s)
<1>1. /\ DOMAIN s = 1..Len(s) /\ Len(s) \in Nat /\ Len(s) >= 1 /\ Head(s) = s[1]
      /\ DOMAIN u = 1 .. Len(s) - 1 /\ \A i \in 1 .. Len(s) - 1 : u[i] = s[i + 1]
    OBVIOUS
<1> HIDE DEF u
<1>2. ASSUME NEW i \in DOMAIN s
      PROVE  s[i] \in {Head(s)} \union ToSet(u)
  <2>1. CASE i = 1
    BY <2>1, <1>1
  <2>2. CASE i # 1
    <3>1. i - 1 \in DOMAIN u /\ u[i - 1] = s[i]
        BY <2>2, <1>1
    <3> QED
        BY <3>1, Zenon DEF ToSet
  <2> QED
    BY <2>1, <2>2
<1>3. ASSUME NEW i \in DOMAIN u
      PROVE  u[i] \in ToSet(s)
  <2>1. i + 1 \in DOMAIN s /\ u[i] = s[i + 1]
    BY <1>1
  <2> QED
    BY <2>1, Zenon DEF ToSet
<1>4. 1 \in DOMAIN s
    BY <1>1
<1>5. Head(s) \in ToSet(s)
    BY <1>1, <1>4, Zenon DEF ToSet
<1> QED
    BY <1>2, <1>3, <1>5, Zenon DEF u, ToSet

\* A transaction takes its events off the queue, and loses none.
LEMMA NextTxnProp ==
    ASSUME TxnLimit \in Nat \ {0}, NEW q \in Seq(Events)
    PROVE  /\ NextTxn(q).at \in {"idle", "check"} /\ NextTxn(q).txn = None
           /\ NextTxn(q) \in [at : {"idle", "check"}, up : BOOLEAN, events : Seq(Events), txn : {None}]
           /\ NextTxn(q).at = "idle" => NextTxn(q).events = <<>>
           /\ AfterNextTxn(q) \in Seq(Events)
           /\ ToSet(q) = ToSet(NextTxn(q).events) \union ToSet(AfterNextTxn(q))
<1>1. CASE q = <<>>
  <2>1. NextTxn(q) = Idle
    BY <1>1 DEF NextTxn
  <2>2. AfterNextTxn(q) = <<>>
    BY <1>1 DEF AfterNextTxn
  <2>3. /\ Idle.at = "idle" /\ Idle.txn = None /\ Idle.events = <<>>
        /\ Idle \in [at : {"idle", "check"}, up : BOOLEAN, events : Seq(Events), txn : {None}]
    BY DEF Idle
  <2>4. ToSet(q) = ToSet(Idle.events) \union ToSet(<<>>)
    BY <1>1, <2>3, ToSetEmpty
  <2> QED
    BY <2>1, <2>2, <2>3, <2>4
<1>2. CASE q # <<>>
  <2> DEFINE m == Min({TxnLimit, Len(q)})
             f == SubSeq(q, 1, m)
             g == AfterNextTxn(q)
  <2>1. Len(q) \in Nat /\ Len(q) >= 1 /\ DOMAIN q = 1..Len(q)
    BY <1>2
  <2>2. m \in Nat /\ TxnLimit \in Nat /\ m <= TxnLimit /\ m <= Len(q) /\ (m < Len(q) => TxnLimit <= m)
    BY <2>1, MinNat
  <2>3. NextTxn(q) = [at |-> "check", up |-> FALSE, events |-> f, txn |-> None]
    BY <1>2 DEF NextTxn, Idle
  <2> HIDE DEF m, f, g
  <2>4. f \in Seq(Events) /\ DOMAIN f = 1..m /\ \A i \in 1..m : f[i] = q[i]
    <3>1. \A i \in 1..m : i \in DOMAIN q
        BY <2>1, <2>2
    <3>2. \A i \in DOMAIN q : q[i] \in Events
        OBVIOUS
    <3> QED
        BY <3>1, <3>2, <2>2, SubSeqProperties DEF f
  <2>5. /\ g \in Seq(Events) /\ Len(g) = IF TxnLimit + 1 <= Len(q) THEN Len(q) - (TxnLimit + 1) + 1 ELSE 0
        /\ \A i \in 1..Len(g) : g[i] = q[(TxnLimit + 1) + i - 1]
    <3>1. \A i \in TxnLimit + 1 .. Len(q) : q[i] \in Events
        BY <2>1, <2>2
    <3> QED
        BY <3>1, <2>1, <2>2, SubSeqProperties DEF g, AfterNextTxn
  <2>6. Len(g) \in Nat /\ DOMAIN g = 1..Len(g)
    BY <2>5
  <2>6a. \A i \in Nat \ {0} : i \in DOMAIN g <=> TxnLimit + i <= Len(q)
    <3>1. CASE TxnLimit + 1 <= Len(q)
      <4>1. Len(g) = Len(q) - TxnLimit
        BY <3>1, <2>1, <2>2, <2>5
      <4> QED
        BY <4>1, <2>1, <2>2, <2>6
    <3>2. CASE ~(TxnLimit + 1 <= Len(q))
      <4>1. Len(g) = 0
        BY <3>2, <2>5, Zenon
      <4> QED
        BY <4>1, <3>2, <2>1, <2>2, <2>6
    <3> QED
        BY <3>1, <3>2
  <2>7. \A i \in 1..Len(g) : g[i] = q[TxnLimit + i]
    <3>1. \A i \in Nat : (TxnLimit + 1) + i - 1 = TxnLimit + i
        BY <2>2
    <3> QED
        BY <3>1, <2>5, <2>6
  <2>8. ASSUME NEW i \in DOMAIN q
        PROVE  q[i] \in ToSet(f) \union ToSet(g)
    <3>1. CASE i <= m
      <4>1. i \in DOMAIN f /\ f[i] = q[i]
        BY <3>1, <2>1, <2>2, <2>4
      <4> QED
        BY <4>1, Zenon DEF ToSet
    <3>2. CASE ~(i <= m)
      <4>1. i > TxnLimit /\ i <= Len(q)
        BY <3>2, <2>1, <2>2
      <4>1a. i - TxnLimit \in Nat \ {0} /\ TxnLimit + (i - TxnLimit) = i
        BY <4>1, <2>1, <2>2
      <4>2. i - TxnLimit \in DOMAIN g /\ TxnLimit + (i - TxnLimit) = i
        BY <4>1, <4>1a, <2>6a, Zenon
      <4>3. g[i - TxnLimit] = q[i]
        BY <4>2, <2>6, <2>7
      <4> QED
        BY <4>2, <4>3, Zenon DEF ToSet
    <3> QED
        BY <3>1, <3>2
  <2>9. \A i \in DOMAIN f : i \in DOMAIN q /\ f[i] = q[i]
    BY <2>1, <2>2, <2>4
  <2>10. \A i \in DOMAIN g : TxnLimit + i \in DOMAIN q /\ g[i] = q[TxnLimit + i]
    <3>1. \A i \in DOMAIN g : i \in Nat \ {0}
        BY <2>6
    <3>2. \A i \in DOMAIN g : TxnLimit + i <= Len(q)
        BY <3>1, <2>6a, Zenon
    <3>3. \A i \in Nat \ {0} : TxnLimit + i <= Len(q) => TxnLimit + i \in DOMAIN q
        BY <2>1, <2>2
    <3> QED
        BY <3>1, <3>2, <3>3, <2>6, <2>7, Zenon
  <2>11. ToSet(q) = ToSet(f) \union ToSet(g)
    <3>1. ToSet(f) \subseteq ToSet(q)
        BY <2>9, Zenon DEF ToSet
    <3>2. ToSet(g) \subseteq ToSet(q)
        BY <2>10, Zenon DEF ToSet
    <3>3. ToSet(q) \subseteq ToSet(f) \union ToSet(g)
        BY <2>8, Zenon DEF ToSet
    <3> QED
        BY <3>1, <3>2, <3>3
  <2>12. NextTxn(q).at = "check" /\ NextTxn(q).events = f /\ NextTxn(q).txn = None
    BY <2>3
  <2>13. NextTxn(q) \in [at : {"idle", "check"}, up : BOOLEAN, events : Seq(Events), txn : {None}]
    BY <2>3, <2>4
  <2> QED
    BY <2>5, <2>11, <2>12, <2>13 DEF g
<1> QED
    BY <1>1, <1>2

-----------------------------------------------------------------------------
(* AppServiceScheduler *)

AsConstants ==
    /\ MaxEvents \in Nat /\ MaxTxns \in Nat /\ MaxRecoverers \in Nat
    /\ RoundLimit \in Nat \ {0} /\ TxnLimit \in Nat \ {0}

AsTypes ==
    /\ currentMax \in 0..MaxEvents /\ lastPos \in 0..currentMax
    /\ round \in [at : {"idle", "events"}, upper : 0..currentMax, todo : Seq(Events)]
    /\ boot \in {"no", "starting", "done", "failed"}
    /\ queued \in Seq(Events)
    /\ sender \in [at : {"idle", "check", "create", "send", "complete"}, up : BOOLEAN,
                   events : Seq(Events), txn : 0..MaxTxns]
    /\ txns \in [Txns -> Seq(Events)] /\ lastTxn \in 0..MaxTxns
    /\ state \in {"up", "down"}
    /\ failing \in Nat /\ starting \in Nat
    /\ recoverers \in [Recoverers -> [at : {"none", "waiting", "look", "send", "complete", "up"},
                                      txn : 0..MaxTxns]]
    /\ registered \in 0..MaxRecoverers
    /\ received \subseteq Events /\ dropped \subseteq Events

\* Somebody still has the event, or the service has it, or it is known to be lost.
Kept(e) ==
    \/ e \in received \/ e \in dropped
    \/ e \in ToSet(queued) \/ e \in ToSet(sender.events)
    \/ \E t \in Txns : e \in ToSet(txns[t])

\* Events the handler has handed over, in earlier rounds and in this one.
HandedOver(e) ==
    \/ e <= lastPos
    \/ round.at = "events" /\ e <= round.upper /\ e \notin ToSet(round.todo)

HandedOverKept == \A e \in Events : HandedOver(e) => Kept(e)

\* What _send_request is at is in the database from create_appservice_txn on,
\* until the service has it.
SenderKeeps ==
    /\ sender.at = "idle" => sender.events = <<>>
    /\ sender.at \in {"idle", "check", "create"} => sender.txn = None
    /\ sender.at \in {"send", "complete"} =>
          /\ sender.txn \in Txns /\ sender.txn <= lastTxn
          /\ ToSet(txns[sender.txn]) \subseteq ToSet(sender.events)
    /\ sender.at \in {"send", "complete"} =>
          \A e \in ToSet(sender.events) : e \in received \/ e \in ToSet(txns[sender.txn])
    /\ sender.at = "complete" => ToSet(sender.events) \subseteq received

\* A recoverer deletes a transaction that the service has.
RecovererKeeps(r) ==
    /\ recoverers[r].at \in {"send", "complete"} => recoverers[r].txn \in 1..lastTxn
    /\ recoverers[r].at = "complete" => ToSet(txns[recoverers[r].txn]) \subseteq received

\* Transactions are numbered as they are made.
Unwritten == \A t \in Txns : t > lastTxn => txns[t] = <<>>

\* The recoverer in the dictionary is at work.
RegisteredWorks ==
    registered # None => recoverers[registered].at \in {"waiting", "look", "send", "complete"}

AsInv ==
    /\ AsTypes /\ HandedOverKept /\ SenderKeeps
    /\ \A r \in Recoverers : RecovererKeeps(r)
    /\ Unwritten /\ RegisteredWorks /\ DownIsRecovered

\* The initial state satisfies the invariant.
LEMMA AsInitial ==
    ASSUME AsConstants, ServiceInit
    PROVE  AsInv
<1>1. AsTypes
  <2>1. round \in [at : {"idle", "events"}, upper : 0..currentMax, todo : Seq(Events)]
    BY DEF ServiceInit, AsConstants, NoRound
  <2>2. sender \in [at : {"idle", "check", "create", "send", "complete"}, up : BOOLEAN,
                    events : Seq(Events), txn : 0..MaxTxns]
    BY DEF ServiceInit, AsConstants, Idle, None
  <2>3. recoverers \in [Recoverers -> [at : {"none", "waiting", "look", "send", "complete", "up"},
                                       txn : 0..MaxTxns]]
    BY DEF ServiceInit, AsConstants, Gone, None
  <2> QED
    BY <2>1, <2>2, <2>3 DEF AsTypes, ServiceInit, AsConstants, Events, Txns, Recoverers, None
<1>2. HandedOverKept
  <2>1. round.at = "idle" /\ lastPos = 0
    BY DEF ServiceInit, NoRound
  <2> QED
    BY <2>1 DEF HandedOverKept, HandedOver, Events, AsConstants
<1>3. SenderKeeps
    BY DEF SenderKeeps, ServiceInit, Idle
<1>4. \A r \in Recoverers : RecovererKeeps(r)
    BY DEF RecovererKeeps, ServiceInit, Gone
<1>5. Unwritten /\ RegisteredWorks /\ DownIsRecovered
    BY DEF Unwritten, RegisteredWorks, DownIsRecovered, ServiceInit, Txns
<1> QED
    BY <1>1, <1>2, <1>3, <1>4, <1>5 DEF AsInv

\* What is kept stays kept when nothing is taken from the queue or the
\* sender, and transactions only lose what the service has.
LEMMA KeptStays ==
    ASSUME queued' = queued, sender' = sender, received \subseteq received', dropped \subseteq dropped',
           \A t \in Txns : ToSet(txns[t]) \subseteq ToSet(txns'[t]) \union received',
           NEW e, Kept(e)
    PROVE  Kept(e)'
BY DEF Kept

LEMMA HandedOverStays ==
    ASSUME HandedOverKept, lastPos' = lastPos, round' = round,
           \A e \in Events : Kept(e) => Kept(e)'
    PROVE  HandedOverKept'
BY DEF HandedOverKept, HandedOver

LEMMA SenderStays ==
    ASSUME SenderKeeps, sender' = sender, lastTxn' = lastTxn, received \subseteq received',
           \A t \in Txns : ToSet(txns'[t]) \subseteq ToSet(txns[t]),
           \A t \in Txns : ToSet(txns[t]) \subseteq ToSet(txns'[t]) \union received'
    PROVE  SenderKeeps'
BY DEF SenderKeeps

\* A recoverer that is left alone still keeps what it has to.
LEMMA RecovererStays ==
    ASSUME AsInv, AsConstants, NEW r \in Recoverers, recoverers'[r] = recoverers[r],
           received \subseteq received', lastTxn \in 0..lastTxn', lastTxn' \in Nat,
           \A t \in 1..lastTxn : ToSet(txns'[t]) \subseteq ToSet(txns[t])
    PROVE  RecovererKeeps(r)'
<1>1. RecovererKeeps(r) /\ lastTxn \in Nat
    BY DEF AsInv, AsTypes, AsConstants
<1>2. CASE recoverers[r].at \in {"send", "complete"}
  <2>1. recoverers[r].txn \in 1..lastTxn
    BY <1>1, <1>2 DEF RecovererKeeps
  <2>2. recoverers[r].txn \in 1..lastTxn'
    BY <2>1, <1>1
  <2>3. recoverers[r].at = "complete" => ToSet(txns'[recoverers[r].txn]) \subseteq received'
    BY <2>1, <1>1 DEF RecovererKeeps
  <2> QED
    BY <2>2, <2>3 DEF RecovererKeeps
<1>3. CASE recoverers[r].at \notin {"send", "complete"}
    BY <1>3 DEF RecovererKeeps
<1> QED
    BY <1>2, <1>3

\* The actions of recoverers that touch neither events nor transactions.
LEMMA EventsUntouched ==
    ASSUME AsConstants, AsInv,
           UNCHANGED <<currentMax, lastPos, round, queued, sender, txns, lastTxn, received, dropped>>
    PROVE  /\ HandedOverKept' /\ SenderKeeps' /\ Unwritten'
           /\ \A r \in Recoverers : recoverers'[r] = recoverers[r] => RecovererKeeps(r)'
<1>1. \A e \in Events : Kept(e) => Kept(e)'
    BY KeptStays
<1>2. HandedOverKept'
    BY <1>1, HandedOverStays DEF AsInv
<1>3. SenderKeeps'
    BY SenderStays DEF AsInv
<1>4. Unwritten'
    BY DEF AsInv, Unwritten
<1>5. lastTxn \in Nat /\ lastTxn' \in Nat /\ lastTxn \in 0..lastTxn'
    BY DEF AsInv, AsTypes, AsConstants
<1>6. \A r \in Recoverers : recoverers'[r] = recoverers[r] => RecovererKeeps(r)'
    BY <1>5, RecovererStays
<1> QED
    BY <1>2, <1>3, <1>4, <1>6

RecovererType == [at : {"none", "waiting", "look", "send", "complete", "up"}, txn : 0..MaxTxns]

\* A recoverer changes, and no other.
LEMMA OneChanges ==
    ASSUME AsInv, NEW r \in Recoverers, NEW rec \in RecovererType, Becomes(r, rec)
    PROVE  /\ recoverers' \in [Recoverers -> RecovererType]
           /\ recoverers'[r] = rec
           /\ \A s \in Recoverers : s # r => recoverers'[s] = recoverers[s]
BY DEF AsInv, AsTypes, Becomes, RecovererType

LEMMA RecovererRecords ==
    ASSUME AsConstants
    PROVE  /\ Waiting \in RecovererType /\ Gone \in RecovererType
           /\ Waiting.at = "waiting" /\ Gone.at = "none"
           /\ [at |-> "up", txn |-> None] \in RecovererType
           /\ [at |-> "look", txn |-> None] \in RecovererType
BY DEF AsConstants, RecovererType, Waiting, Gone, None

\* After start_recoverer there is a recoverer in the dictionary, and it works.
LEMMA StartRecovererProp ==
    ASSUME AsConstants, AsInv, StartRecoverer
    PROVE  /\ recoverers' \in [Recoverers -> RecovererType] /\ registered' \in Recoverers
           /\ recoverers'[registered'].at \in {"waiting", "look", "send", "complete"}
           /\ \A r \in Recoverers : recoverers'[r] = recoverers[r] \/ recoverers'[r] = Waiting
           /\ \A r \in Recoverers : recoverers[r] # Gone => recoverers'[r] # Gone
<1>1. /\ recoverers \in [Recoverers -> RecovererType] /\ registered \in 0..MaxRecoverers
      /\ RegisteredWorks
    BY DEF AsInv, AsTypes, RecovererType
<1>2. CASE registered # None
  <2>1. recoverers' = recoverers /\ registered' = registered
    BY <1>2 DEF StartRecoverer
  <2>2. registered \in Recoverers
    BY <1>1, <1>2 DEF Recoverers, None, AsConstants
  <2> QED
    BY <1>1, <1>2, <2>1, <2>2 DEF RegisteredWorks
<1>3. CASE registered = None
  <2> DEFINE free == {r \in Recoverers : recoverers[r] = Gone}
  <2>1. /\ free # {} /\ recoverers' = [recoverers EXCEPT ![Min(free)] = Waiting]
        /\ registered' = Min(free)
    BY <1>3 DEF StartRecoverer
  <2>2. free \in SUBSET Nat
    BY DEF Recoverers, AsConstants
  <2>3. Min(free) \in free
    BY <2>1, <2>2, MinNat
  <2> DEFINE n == Min(free)
  <2>4. n \in Recoverers
    BY <2>3
  <2> HIDE DEF n
  <2>5. recoverers' = [recoverers EXCEPT ![n] = Waiting] /\ registered' = n
    BY <2>1 DEF n
  <2>6. /\ recoverers' \in [Recoverers -> RecovererType] /\ recoverers'[n] = Waiting
        /\ \A r \in Recoverers : r # n => recoverers'[r] = recoverers[r]
    BY <1>1, <2>4, <2>5, RecovererRecords
  <2>7. Waiting # Gone
    BY RecovererRecords
  <2> QED
    BY <2>4, <2>5, <2>6, <2>7, RecovererRecords
<1> QED
    BY <1>2, <1>3

\* _on_txn_fail, and start
LEMMA AsStarts ==
    ASSUME AsConstants, AsInv,
           SetDown \/ SetDownFails \/ AfterSetDown \/ StartScheduler \/ StartSchedulerFails
    PROVE  AsInv'
<1> USE DEF handlerVars, recovererVars
<1>1. UNCHANGED <<currentMax, lastPos, round, queued, sender, txns, lastTxn, received, dropped>>
    BY DEF SetDown, SetDownFails, AfterSetDown, StartScheduler, StartSchedulerFails
<1>2. /\ HandedOverKept' /\ SenderKeeps' /\ Unwritten'
      /\ \A r \in Recoverers : recoverers'[r] = recoverers[r] => RecovererKeeps(r)'
    BY <1>1, EventsUntouched
<1>3. \/ UNCHANGED <<recoverers, registered>>
      \/ StartRecoverer
    BY DEF SetDown, SetDownFails, AfterSetDown, StartScheduler, StartSchedulerFails
<1>4. /\ recoverers' \in [Recoverers -> RecovererType] /\ registered' \in 0..MaxRecoverers
      /\ RegisteredWorks'
      /\ \A r \in Recoverers : recoverers'[r] = recoverers[r] \/ recoverers'[r] = Waiting
      /\ \A r \in Recoverers : recoverers[r] # Gone => recoverers'[r] # Gone
  <2>1. CASE UNCHANGED <<recoverers, registered>>
    BY <2>1 DEF AsInv, AsTypes, RecovererType, RegisteredWorks
  <2>2. CASE StartRecoverer
    <3>1. Recoverers \subseteq 0..MaxRecoverers
        BY DEF Recoverers, AsConstants
    <3> QED
        BY <2>2, <3>1, StartRecovererProp DEF RegisteredWorks
  <2> QED
    BY <1>3, <2>1, <2>2
<1>5. \A r \in Recoverers : RecovererKeeps(r)'
  <2>1. \A r \in Recoverers : recoverers'[r] = Waiting => RecovererKeeps(r)'
    BY RecovererRecords DEF RecovererKeeps
  <2> QED
    BY <1>2, <1>4, <2>1
<1>6. failing \in Nat /\ starting \in Nat
    BY DEF AsInv, AsTypes
<1>7. failing' \in Nat /\ starting' \in Nat /\ state' \in {"up", "down"}
      /\ boot' \in {"no", "starting", "done", "failed"}
    BY <1>6 DEF AsInv, AsTypes, SetDown, SetDownFails, AfterSetDown, StartScheduler, StartSchedulerFails
<1>8. AsTypes'
    BY <1>1, <1>4, <1>7 DEF AsInv, AsTypes, RecovererType
<1>9. DownIsRecovered'
  <2>1. CASE SetDown
    <3>1. starting' > 0
        BY <2>1, <1>6 DEF SetDown
    <3> QED
        BY <3>1 DEF DownIsRecovered
  <2>2. CASE SetDownFails
    BY <2>2 DEF SetDownFails, AsInv, DownIsRecovered
  <2>3. CASE StartSchedulerFails
    BY <2>3 DEF StartSchedulerFails, DownIsRecovered
  <2>4. ASSUME StartRecoverer
        PROVE  DownIsRecovered'
    <3>1. \E r \in Recoverers : recoverers'[r] # Gone
        BY <2>4, StartRecovererProp, RecovererRecords
    <3> QED
        BY <3>1 DEF DownIsRecovered
  <2>5. CASE AfterSetDown
    BY <2>4, <2>5 DEF AfterSetDown
  <2>6. CASE StartScheduler
    <3>1. state' = state
        BY <2>6 DEF StartScheduler
    <3>2. CASE state = "down"
        BY <2>4, <2>6, <3>2 DEF StartScheduler
    <3>3. CASE state # "down"
        BY <3>1, <3>3 DEF DownIsRecovered
    <3> QED
        BY <3>2, <3>3
  <2> QED
    BY <2>1, <2>2, <2>3, <2>5, <2>6
<1> QED
    BY <1>2, <1>4, <1>5, <1>8, <1>9 DEF AsInv

\* A recoverer's own steps that touch neither events nor transactions
LEMMA AsRecovers ==
    ASSUME AsConstants, AsInv, NEW r \in Recoverers,
           Look(r) \/ NothingLeft(r) \/ SetUp(r) \/ RetryFails(r)
    PROVE  AsInv'
<1> USE DEF handlerVars
<1>1. /\ UNCHANGED <<currentMax, lastPos, round, boot, queued, sender, txns, lastTxn, failing, starting,
                     received, dropped>>
      /\ state' \in {"up", "down"}
    BY DEF Look, NothingLeft, SetUp, RetryFails, AsInv, AsTypes
<1>2. /\ HandedOverKept' /\ SenderKeeps' /\ Unwritten'
      /\ \A s \in Recoverers : recoverers'[s] = recoverers[s] => RecovererKeeps(s)'
    BY <1>1, EventsUntouched
<1>3. ASSUME NEW rec \in RecovererType, Becomes(r, rec), rec.at = "send" => rec.txn \in 1..lastTxn,
             rec.at # "complete", registered' \in {registered, None},
             registered' = r => rec.at \in {"waiting", "look", "send"},
             state' # "up" => state' = state /\ rec # Gone
      PROVE  AsInv'
  <2>1. /\ recoverers' \in [Recoverers -> RecovererType] /\ recoverers'[r] = rec
        /\ \A s \in Recoverers : s # r => recoverers'[s] = recoverers[s]
    BY <1>3, OneChanges
  <2>2. AsTypes'
    BY <1>1, <1>3, <2>1 DEF AsInv, AsTypes, RecovererType, None, AsConstants
  <2>3. RecovererKeeps(r)'
    BY <1>1, <1>3, <2>1 DEF RecovererKeeps
  <2>4. \A s \in Recoverers : RecovererKeeps(s)'
    BY <1>2, <2>1, <2>3
  <2>5. RegisteredWorks'
    <3> SUFFICES ASSUME registered' # None
                 PROVE  recoverers'[registered'].at \in {"waiting", "look", "send", "complete"}
        BY DEF RegisteredWorks
    <3>1. registered' = registered /\ registered \in Recoverers
        BY <1>3 DEF AsInv, AsTypes, Recoverers, None, AsConstants
    <3>2. recoverers[registered].at \in {"waiting", "look", "send", "complete"}
        BY <3>1 DEF AsInv, RegisteredWorks
    <3> QED
        BY <3>1, <3>2, <1>3, <2>1
  <2>6. DownIsRecovered'
    <3>1. CASE state' = "up"
        BY <3>1 DEF DownIsRecovered
    <3>2. CASE state' # "up"
      <4>1. recoverers'[r] # Gone
        BY <3>2, <1>3, <2>1
      <4> QED
        BY <4>1 DEF DownIsRecovered
    <3> QED
        BY <3>1, <3>2
  <2> QED
    BY <1>2, <2>2, <2>4, <2>5, <2>6 DEF AsInv
<1>4. recoverers[r] \in RecovererType /\ RegisteredWorks
    BY DEF AsInv, AsTypes, RecovererType
<1>5. CASE Look(r)
  <2> DEFINE m == Min(Stored)
             rec == [at |-> "send", txn |-> m]
  <2>1. Stored # {} /\ Becomes(r, rec) /\ registered' = registered /\ state' = state
    BY <1>5 DEF Look
  <2>2. Stored \in SUBSET Nat
    BY DEF Stored, Txns, AsConstants
  <2>3. m \in Stored
    BY <2>1, <2>2, MinNat
  <2> HIDE DEF m
  <2>4. m \in 1..lastTxn
    BY <2>3 DEF Stored, Txns, AsInv, AsTypes, Unwritten, AsConstants
  <2>5. rec \in RecovererType /\ rec.at = "send" /\ rec.txn = m
    BY <2>4 DEF RecovererType, AsInv, AsTypes, AsConstants
  <2>6. rec # Gone
    BY <2>5, RecovererRecords
  <2> QED
    BY <1>3, <2>1, <2>4, <2>5, <2>6
<1>6. CASE NothingLeft(r)
  <2> DEFINE rec == IF registered = None THEN Waiting ELSE [at |-> "up", txn |-> None]
  <2>1. Becomes(r, rec) /\ registered' = None /\ state' = state
    BY <1>6 DEF NothingLeft
  <2>2. None # r
    BY DEF None, Recoverers, AsConstants
  <2>3. rec \in RecovererType /\ rec.at \in {"waiting", "up"}
    BY RecovererRecords
  <2>4. rec # Gone
    BY <2>3, RecovererRecords
  <2> QED
    BY <1>3, <2>1, <2>2, <2>3, <2>4
<1>7. CASE SetUp(r)
  <2>1. Becomes(r, Gone) /\ registered' = registered /\ state' = "up" /\ recoverers[r].at = "up"
    BY <1>7 DEF SetUp
  <2>2. registered # r
    BY <2>1, <1>4 DEF RegisteredWorks, None, Recoverers, AsConstants
  <2> QED
    BY <1>3, <2>1, <2>2, RecovererRecords
<1>8. CASE RetryFails(r)
  <2>1. Becomes(r, Waiting) /\ registered' = registered /\ state' = state
    BY <1>8 DEF RetryFails
  <2>2. Waiting # Gone
    BY RecovererRecords
  <2> QED
    BY <1>3, <2>1, <2>2, RecovererRecords
<1> QED
    BY <1>5, <1>6, <1>7, <1>8

\* A recoverer sends a transaction.
LEMMA AsResend ==
    ASSUME AsConstants, AsInv, NEW r \in Recoverers, NEW sent \in BOOLEAN, Resend(r, sent)
    PROVE  AsInv'
<1> USE DEF handlerVars
<1> DEFINE t == recoverers[r].txn
           rec == IF sent THEN [recoverers[r] EXCEPT !.at = "complete"] ELSE Waiting
<1>1. /\ UNCHANGED <<currentMax, lastPos, round, boot, queued, sender, txns, lastTxn, state, failing,
                     starting, registered, dropped>>
      /\ recoverers[r].at = "send" /\ Becomes(r, rec)
    BY DEF Resend
<1>2. received' = received \union ToSet(txns[t]) \/ (~sent /\ received' = received)
    BY DEF Resend
<1>3. /\ recoverers[r] \in RecovererType /\ txns \in [Txns -> Seq(Events)] /\ received \subseteq Events
      /\ lastTxn \in 0..MaxTxns
    BY DEF AsInv, AsTypes, RecovererType
<1>4. t \in 1..lastTxn /\ t \in Txns
    BY <1>1, <1>3 DEF AsInv, RecovererKeeps, Txns, AsConstants
<1>5. ToSet(txns[t]) \subseteq Events
  <2>1. txns[t] \in Seq(Events)
    BY <1>3, <1>4
  <2> QED
    BY <2>1 DEF ToSet
<1>6. received \subseteq received' /\ received' \subseteq Events
    BY <1>2, <1>3, <1>5
<1>7. rec \in RecovererType /\ rec.at \in {"complete", "waiting"} /\ (rec.at = "complete" => sent /\ rec.txn = t)
  <2>1. CASE sent
    <3>1. rec = [recoverers[r] EXCEPT !.at = "complete"]
        BY <2>1
    <3> QED
        BY <2>1, <3>1, <1>3 DEF RecovererType
  <2>2. CASE ~sent
    <3>1. rec = Waiting
        BY <2>2
    <3> QED
        BY <3>1, RecovererRecords
  <2> QED
    BY <2>1, <2>2
<1> HIDE DEF rec, t
<1>8. /\ recoverers' \in [Recoverers -> RecovererType] /\ recoverers'[r] = rec
      /\ \A s \in Recoverers : s # r => recoverers'[s] = recoverers[s]
    BY <1>1, <1>7, OneChanges
<1>9. AsTypes'
    BY <1>1, <1>6, <1>8 DEF AsInv, AsTypes, RecovererType
<1>10. /\ \A u \in Txns : ToSet(txns[u]) \subseteq ToSet(txns'[u]) \union received'
       /\ \A u \in Txns : ToSet(txns'[u]) \subseteq ToSet(txns[u])
    BY <1>1
<1>11. HandedOverKept'
  <2>1. \A e \in Events : Kept(e) => Kept(e)'
    BY <1>1, <1>6, <1>10, KeptStays
  <2> QED
    BY <1>1, <2>1, HandedOverStays DEF AsInv
<1>12. SenderKeeps'
    BY <1>1, <1>6, <1>10, SenderStays DEF AsInv
<1>13. RecovererKeeps(r)'
  <2>1. rec.at = "complete" => ToSet(txns[t]) \subseteq received'
    BY <1>2, <1>7
  <2>2. rec.at = "complete" => rec.txn \in 1..lastTxn' /\ ToSet(txns'[rec.txn]) \subseteq received'
    BY <1>1, <1>4, <1>7, <2>1
  <2> QED
    BY <1>7, <1>8, <2>2 DEF RecovererKeeps
<1>14. \A s \in Recoverers : RecovererKeeps(s)'
  <2>1. lastTxn \in 0..lastTxn' /\ lastTxn' \in Nat
    BY <1>1, <1>3 DEF AsConstants
  <2> QED
    BY <1>1, <1>6, <1>8, <1>13, <2>1, RecovererStays
<1>15. Unwritten'
    BY <1>1 DEF AsInv, Unwritten
<1>16. RegisteredWorks'
  <2>1. RegisteredWorks /\ (registered # None => registered \in Recoverers)
    BY DEF AsInv, AsTypes, Recoverers, None, AsConstants
  <2> QED
    BY <2>1, <1>1, <1>7, <1>8 DEF RegisteredWorks
<1>17. DownIsRecovered'
  <2>1. recoverers'[r] # Gone
    BY <1>7, <1>8, RecovererRecords
  <2> QED
    BY <2>1 DEF DownIsRecovered
<1> QED
    BY <1>9, <1>11, <1>12, <1>14, <1>15, <1>16, <1>17 DEF AsInv

\* A transaction is deleted, whose events the service has.
LEMMA TxnDeleted ==
    ASSUME AsConstants, AsInv, NEW t \in 1..lastTxn, ToSet(txns[t]) \subseteq received,
           txns' = [txns EXCEPT ![t] = <<>>], UNCHANGED <<lastTxn, received>>
    PROVE  /\ txns' \in [Txns -> Seq(Events)] /\ Unwritten'
           /\ \A u \in Txns : ToSet(txns[u]) \subseteq ToSet(txns'[u]) \union received'
           /\ \A u \in Txns : ToSet(txns'[u]) \subseteq ToSet(txns[u])
<1>1. /\ txns \in [Txns -> Seq(Events)] /\ lastTxn \in 0..MaxTxns /\ Unwritten
    BY DEF AsInv, AsTypes
<1>2. t \in Txns /\ <<>> \in Seq(Events)
    BY <1>1 DEF Txns, AsConstants
<1>3. /\ txns' \in [Txns -> Seq(Events)] /\ txns'[t] = <<>>
      /\ \A u \in Txns : u # t => txns'[u] = txns[u]
    BY <1>1, <1>2
<1>4. Unwritten'
    BY <1>1, <1>3 DEF Unwritten
<1> QED
    BY <1>3, <1>4, ToSetEmpty

\* complete, of a recoverer
LEMMA AsCompleteResent ==
    ASSUME AsConstants, AsInv, NEW r \in Recoverers, CompleteResent(r)
    PROVE  AsInv'
<1> USE DEF handlerVars
<1> DEFINE t == recoverers[r].txn
           rec == [at |-> "look", txn |-> None]
<1>1. /\ UNCHANGED <<currentMax, lastPos, round, boot, queued, sender, lastTxn, state, failing,
                     starting, registered, received, dropped>>
      /\ recoverers[r].at = "complete" /\ Becomes(r, rec)
      /\ txns' = [txns EXCEPT ![t] = <<>>]
    BY DEF CompleteResent
<1>2. t \in 1..lastTxn /\ ToSet(txns[t]) \subseteq received /\ lastTxn \in 0..MaxTxns
    BY <1>1 DEF AsInv, AsTypes, RecovererKeeps
<1>3. /\ txns' \in [Txns -> Seq(Events)] /\ Unwritten'
      /\ \A u \in Txns : ToSet(txns[u]) \subseteq ToSet(txns'[u]) \union received'
      /\ \A u \in Txns : ToSet(txns'[u]) \subseteq ToSet(txns[u])
    BY <1>1, <1>2, TxnDeleted
<1>4. rec \in RecovererType /\ rec.at = "look"
    BY RecovererRecords
<1> HIDE DEF rec, t
<1>5. /\ recoverers' \in [Recoverers -> RecovererType] /\ recoverers'[r] = rec
      /\ \A s \in Recoverers : s # r => recoverers'[s] = recoverers[s]
    BY <1>1, <1>4, OneChanges
<1>6. AsTypes'
    BY <1>1, <1>3, <1>5 DEF AsInv, AsTypes, RecovererType
<1>7. HandedOverKept'
  <2>1. \A e \in Events : Kept(e) => Kept(e)'
    BY <1>1, <1>3, KeptStays
  <2> QED
    BY <1>1, <2>1, HandedOverStays DEF AsInv
<1>8. SenderKeeps'
    BY <1>1, <1>3, SenderStays DEF AsInv
<1>9. \A s \in Recoverers : RecovererKeeps(s)'
  <2>1. RecovererKeeps(r)'
    BY <1>4, <1>5 DEF RecovererKeeps
  <2>2. lastTxn \in 0..lastTxn' /\ lastTxn' \in Nat /\ 1..lastTxn \subseteq Txns
    BY <1>1, <1>2 DEF AsConstants, Txns
  <2> QED
    BY <1>1, <1>3, <1>5, <2>1, <2>2, RecovererStays
<1>10. RegisteredWorks'
  <2>1. RegisteredWorks /\ (registered # None => registered \in Recoverers)
    BY DEF AsInv, AsTypes, Recoverers, None, AsConstants
  <2> QED
    BY <2>1, <1>1, <1>4, <1>5 DEF RegisteredWorks
<1>11. DownIsRecovered'
  <2>1. recoverers'[r] # Gone
    BY <1>4, <1>5, RecovererRecords
  <2> QED
    BY <2>1 DEF DownIsRecovered
<1> QED
    BY <1>3, <1>6, <1>7, <1>8, <1>9, <1>10, <1>11 DEF AsInv

SenderType ==
    [at : {"idle", "check", "create", "send", "complete"}, up : BOOLEAN, events : Seq(Events),
     txn : 0..MaxTxns]

\* A step of the queuer: what remains to be shown of it.
LEMMA QueuerStep ==
    ASSUME AsConstants, AsInv, UNCHANGED <<handlerVars, state, starting, recoverers, registered>>,
           failing' \in Nat, queued' \in Seq(Events), sender' \in SenderType,
           txns' \in [Txns -> Seq(Events)], lastTxn' \in lastTxn..MaxTxns,
           received \subseteq received', received' \subseteq Events, dropped' \subseteq Events,
           \A t \in 1..lastTxn : ToSet(txns'[t]) \subseteq ToSet(txns[t]),
           SenderKeeps', Unwritten', \A e \in Events : Kept(e) => Kept(e)'
    PROVE  AsInv'
<1>1. lastTxn \in 0..MaxTxns
    BY DEF AsInv, AsTypes
<1>2. lastTxn' \in 0..MaxTxns /\ lastTxn \in 0..lastTxn' /\ lastTxn' \in Nat
    BY <1>1 DEF AsConstants
<1>3. AsTypes'
    BY <1>2 DEF AsInv, AsTypes, SenderType, handlerVars
<1>4. HandedOverKept'
    BY HandedOverStays DEF AsInv, handlerVars
<1>5. \A r \in Recoverers : RecovererKeeps(r)'
    BY <1>2, RecovererStays
<1>6. RegisteredWorks' /\ DownIsRecovered'
    BY DEF AsInv, RegisteredWorks, DownIsRecovered, handlerVars
<1> QED
    BY <1>3, <1>4, <1>5, <1>6 DEF AsInv

\* The loop of _send_request goes on with the events of the queue.
LEMMA NextRequestProp ==
    ASSUME AsConstants, AsInv, NextRequest
    PROVE  /\ queued' \in Seq(Events) /\ sender' \in SenderType /\ SenderKeeps'
           /\ ToSet(queued) = ToSet(sender'.events) \union ToSet(queued')
<1>1. queued \in Seq(Events) /\ TxnLimit \in Nat \ {0}
    BY DEF AsInv, AsTypes, AsConstants
<1>2. sender' = NextTxn(queued) /\ queued' = AfterNextTxn(queued)
    BY DEF NextRequest
<1>3. /\ sender'.at \in {"idle", "check"} /\ sender'.txn = None
      /\ sender' \in [at : {"idle", "check"}, up : BOOLEAN, events : Seq(Events), txn : {None}]
      /\ sender'.at = "idle" => sender'.events = <<>>
      /\ queued' \in Seq(Events)
      /\ ToSet(queued) = ToSet(sender'.events) \union ToSet(queued')
    BY <1>1, <1>2, NextTxnProp
<1>4. sender' \in SenderType
    BY <1>3 DEF SenderType, None, AsConstants
<1>5. SenderKeeps'
    BY <1>3 DEF SenderKeeps
<1> QED
    BY <1>3, <1>4, <1>5

\* The events of the sender and of transactions are events.
LEMMA EventsOfSequences ==
    ASSUME AsInv
    PROVE  /\ sender \in SenderType /\ ToSet(sender.events) \subseteq Events
           /\ txns \in [Txns -> Seq(Events)] /\ queued \in Seq(Events)
           /\ failing \in Nat /\ received \subseteq Events /\ dropped \subseteq Events
           /\ lastTxn \in 0..MaxTxns
<1>1. sender \in SenderType /\ txns \in [Txns -> Seq(Events)] /\ queued \in Seq(Events)
    BY DEF AsInv, AsTypes, SenderType
<1>2. sender.events \in Seq(Events)
    BY <1>1 DEF SenderType
<1>3. ToSet(sender.events) \subseteq Events
    BY <1>2 DEF ToSet
<1>4. failing \in Nat /\ received \subseteq Events /\ dropped \subseteq Events /\ lastTxn \in 0..MaxTxns
    BY DEF AsInv, AsTypes
<1> QED
    BY <1>1, <1>3, <1>4

\* _is_service_up
LEMMA AsCheckUp ==
    ASSUME AsConstants, AsInv, CheckUp
    PROVE  AsInv'
<1>1. sender \in SenderType /\ sender.at = "check"
    BY EventsOfSequences DEF CheckUp
<1>2. sender' = [sender EXCEPT !.at = "create", !.up = (state = "up")]
    BY DEF CheckUp
<1>3. (state = "up") \in BOOLEAN
    OBVIOUS
<1>4. /\ sender'.at = "create" /\ sender'.events = sender.events /\ sender'.txn = sender.txn
      /\ sender' \in SenderType
    BY <1>1, <1>2, <1>3 DEF SenderType
<1>5. /\ UNCHANGED <<handlerVars, queued, txns, lastTxn, state, starting, recoverers, registered, received,
                     dropped, failing>>
    BY DEF CheckUp, recovererVars
<1>6. SenderKeeps'
    BY <1>1, <1>4, <1>5 DEF AsInv, SenderKeeps
<1>7. Unwritten'
    BY <1>5 DEF AsInv, Unwritten
<1>8. \A e \in Events : Kept(e) => Kept(e)'
    BY <1>4, <1>5 DEF Kept
<1>9. lastTxn' \in lastTxn..MaxTxns
    BY <1>5, EventsOfSequences DEF AsConstants
<1>10. /\ failing' \in Nat /\ queued' \in Seq(Events) /\ txns' \in [Txns -> Seq(Events)]
       /\ received \subseteq received' /\ received' \subseteq Events /\ dropped' \subseteq Events
       /\ \A t \in 1..lastTxn : ToSet(txns'[t]) \subseteq ToSet(txns[t])
    BY <1>5, EventsOfSequences
<1> QED
    BY <1>4, <1>5, <1>6, <1>7, <1>8, <1>9, <1>10, QueuerStep

\* create_appservice_txn
LEMMA AsCreateTxn ==
    ASSUME AsConstants, AsInv, CreateTxn
    PROVE  AsInv'
<1> DEFINE n == lastTxn + 1
<1>1. /\ UNCHANGED <<handlerVars, state, starting, recoverers, registered, received, dropped, failing>>
      /\ lastTxn < MaxTxns /\ lastTxn' = n /\ txns' = [txns EXCEPT ![n] = sender.events]
      /\ sender.at = "create"
    BY DEF CreateTxn, recovererVars
<1>2. \/ sender' = [sender EXCEPT !.at = "send", !.txn = n] /\ queued' = queued
      \/ NextRequest
    BY DEF CreateTxn
<1>3. n \in Txns /\ n \in lastTxn..MaxTxns /\ n \notin 1..lastTxn /\ n \in 0..MaxTxns
    BY <1>1, EventsOfSequences DEF Txns, AsConstants
<1>4. sender \in SenderType /\ sender.events \in Seq(Events)
    BY EventsOfSequences DEF SenderType
<1> HIDE DEF n
<1>5. /\ txns' \in [Txns -> Seq(Events)] /\ txns'[n] = sender.events
      /\ \A u \in Txns : u # n => txns'[u] = txns[u]
    BY <1>1, <1>3, <1>4, EventsOfSequences
<1>6. txns[n] = <<>> /\ Unwritten'
  <2>1. \A u \in Txns : u > n => u > lastTxn /\ u # n
    BY EventsOfSequences DEF n, Txns, AsConstants
  <2>2. n > lastTxn
    BY EventsOfSequences DEF n, AsConstants
  <2> QED
    BY <1>1, <1>3, <1>5, <2>1, <2>2 DEF AsInv, Unwritten
<1>7. \A u \in 1..lastTxn : u \in Txns /\ u # n
    BY <1>3, EventsOfSequences DEF Txns, AsConstants
<1>8. /\ \A u \in 1..lastTxn : ToSet(txns'[u]) \subseteq ToSet(txns[u])
      /\ \A u \in Txns : ToSet(txns[u]) \subseteq ToSet(txns'[u])
    BY <1>5, <1>6, <1>7, ToSetEmpty
<1>9. /\ queued' \in Seq(Events) /\ sender' \in SenderType /\ SenderKeeps'
      /\ ToSet(queued) \subseteq ToSet(sender'.events) \union ToSet(queued')
  <2>1. CASE NextRequest
    BY <2>1, NextRequestProp
  <2>2. CASE sender' = [sender EXCEPT !.at = "send", !.txn = n] /\ queued' = queued
    <3>1. /\ sender' \in SenderType /\ sender'.at = "send" /\ sender'.txn = n
          /\ sender'.events = sender.events
        BY <2>2, <1>3, <1>4 DEF SenderType
    <3>2. SenderKeeps'
        BY <3>1, <1>1, <1>3, <1>5 DEF SenderKeeps
    <3> QED
        BY <2>2, <3>1, <3>2, EventsOfSequences
  <2> QED
    BY <1>2, <2>1, <2>2
<1>10. \A e \in Events : Kept(e) => Kept(e)'
    BY <1>1, <1>3, <1>5, <1>8, <1>9 DEF Kept
<1>11. /\ failing' \in Nat /\ lastTxn' \in lastTxn..MaxTxns
       /\ received \subseteq received' /\ received' \subseteq Events /\ dropped' \subseteq Events
    BY <1>1, <1>3, EventsOfSequences
<1> QED
    BY <1>1, <1>5, <1>6, <1>8, <1>9, <1>10, <1>11, QueuerStep

\* The sender goes on after it has lost its events, or when they are received,
\* or leaves them to a recoverer.
LEMMA AsGoesOn ==
    ASSUME AsConstants, AsInv, NextRequest,
           UNCHANGED <<handlerVars, state, starting, recoverers, registered, lastTxn>>,
           failing' \in Nat, received \subseteq received', received' \subseteq Events,
           dropped \subseteq dropped', dropped' \subseteq Events, txns' \in [Txns -> Seq(Events)], Unwritten',
           \A u \in Txns : ToSet(txns'[u]) \subseteq ToSet(txns[u]),
           \A u \in Txns : ToSet(txns[u]) \subseteq ToSet(txns'[u]) \union received',
           \A e \in ToSet(sender.events) : \/ e \in received' \/ e \in dropped'
                                           \/ \E u \in Txns : e \in ToSet(txns'[u])
    PROVE  AsInv'
<1>1. /\ queued' \in Seq(Events) /\ sender' \in SenderType /\ SenderKeeps'
      /\ ToSet(queued) = ToSet(sender'.events) \union ToSet(queued')
    BY NextRequestProp
<1>2. \A e \in Events : Kept(e) => Kept(e)'
    BY <1>1 DEF Kept
<1>3. lastTxn' \in lastTxn..MaxTxns /\ 1..lastTxn \subseteq Txns
    BY EventsOfSequences DEF AsConstants, Txns
<1> QED
    BY <1>1, <1>2, <1>3, QueuerStep

\* Nothing is created: the events are dropped.
LEMMA AsCreateFails ==
    ASSUME AsConstants, AsInv, CreateFails
    PROVE  AsInv'
<1>1. /\ UNCHANGED <<handlerVars, state, starting, recoverers, registered, lastTxn, txns, received>>
      /\ NextRequest /\ dropped' = dropped \union ToSet(sender.events) /\ failing' = failing + 1
    BY DEF CreateFails
<1>2. Unwritten'
    BY <1>1 DEF AsInv, Unwritten
<1>3. failing' \in Nat
    BY <1>1, EventsOfSequences
<1> QED
    BY <1>1, <1>2, <1>3, EventsOfSequences, AsGoesOn

\* complete_appservice_txn fails: the row stays, and will be sent again.
LEMMA AsCompleteFails ==
    ASSUME AsConstants, AsInv, CompleteFails
    PROVE  AsInv'
<1>1. /\ UNCHANGED <<handlerVars, state, starting, recoverers, registered, lastTxn, txns, received, dropped>>
      /\ NextRequest /\ failing' = failing + 1 /\ sender.at = "complete"
    BY DEF CompleteFails
<1>2. Unwritten'
    BY <1>1 DEF AsInv, Unwritten
<1>3. failing' \in Nat
    BY <1>1, EventsOfSequences
<1>4. ToSet(sender.events) \subseteq received
    BY <1>1 DEF AsInv, SenderKeeps
<1> QED
    BY <1>1, <1>2, <1>3, <1>4, EventsOfSequences, AsGoesOn

\* complete_appservice_txn
LEMMA AsComplete ==
    ASSUME AsConstants, AsInv, Complete
    PROVE  AsInv'
<1> DEFINE t == sender.txn
<1>1. /\ UNCHANGED <<handlerVars, state, starting, recoverers, registered, lastTxn, received, dropped, failing>>
      /\ NextRequest /\ sender.at = "complete" /\ txns' = [txns EXCEPT ![t] = <<>>]
    BY DEF Complete, recovererVars
<1>2. ToSet(sender.events) \subseteq received /\ t \in 1..lastTxn /\ ToSet(txns[t]) \subseteq received
    BY <1>1, EventsOfSequences DEF AsInv, SenderKeeps, Txns, AsConstants
<1>3. /\ txns' \in [Txns -> Seq(Events)] /\ Unwritten'
      /\ \A u \in Txns : ToSet(txns[u]) \subseteq ToSet(txns'[u]) \union received'
      /\ \A u \in Txns : ToSet(txns'[u]) \subseteq ToSet(txns[u])
    BY <1>1, <1>2, TxnDeleted
<1> QED
    BY <1>1, <1>2, <1>3, EventsOfSequences, AsGoesOn

\* The queuer sends a transaction.
LEMMA AsSend ==
    ASSUME AsConstants, AsInv, NEW sent \in BOOLEAN, Send(sent)
    PROVE  AsInv'
<1>1. /\ UNCHANGED <<handlerVars, state, starting, recoverers, registered, lastTxn, txns, dropped>>
      /\ sender.at = "send"
    BY DEF Send
<1>2. received' = received \union ToSet(sender.events) \/ (~sent /\ received' = received)
    BY DEF Send
<1>3. received \subseteq received' /\ received' \subseteq Events
    BY <1>2, EventsOfSequences
<1>4. Unwritten'
    BY <1>1 DEF AsInv, Unwritten
<1>5. /\ sender.txn \in Txns /\ sender.txn <= lastTxn
      /\ ToSet(txns[sender.txn]) \subseteq ToSet(sender.events)
      /\ \A e \in ToSet(sender.events) : e \in received \/ e \in ToSet(txns[sender.txn])
    BY <1>1 DEF AsInv, SenderKeeps
<1>6. CASE sent
  <2>1. sender' = [sender EXCEPT !.at = "complete"] /\ queued' = queued /\ failing' = failing
    BY <1>6 DEF Send
  <2>2. sender \in SenderType
    BY EventsOfSequences
  <2>3. /\ sender' \in SenderType /\ sender'.at = "complete" /\ sender'.txn = sender.txn
        /\ sender'.events = sender.events
    BY <2>1, <2>2 DEF SenderType
  <2>4. ToSet(sender.events) \subseteq received'
    BY <1>2, <1>6
  <2>5. SenderKeeps'
    BY <1>1, <1>5, <2>3, <2>4 DEF SenderKeeps
  <2>6. \A e \in Events : Kept(e) => Kept(e)'
    BY <1>1, <1>3, <2>1, <2>3 DEF Kept
  <2>7. lastTxn' \in lastTxn..MaxTxns
    BY <1>1, EventsOfSequences DEF AsConstants
  <2>8. /\ failing' \in Nat /\ queued' \in Seq(Events) /\ txns' \in [Txns -> Seq(Events)]
        /\ dropped' \subseteq Events /\ \A t \in 1..lastTxn : ToSet(txns'[t]) \subseteq ToSet(txns[t])
    BY <1>1, <2>1, EventsOfSequences
  <2> QED
    BY <1>1, <1>3, <1>4, <2>3, <2>5, <2>6, <2>7, <2>8, QueuerStep
<1>7. CASE ~sent
  <2>1. NextRequest /\ failing' = failing + 1
    BY <1>7 DEF Send
  <2>2. failing' \in Nat
    BY <2>1, EventsOfSequences
  <2> QED
    BY <1>1, <1>3, <1>4, <1>5, <2>1, <2>2, EventsOfSequences, AsGoesOn
<1> QED
    BY <1>6, <1>7

\* The steps of the handler leave transactions and recoverers alone.
LEMMA HandlerStep ==
    ASSUME AsConstants, AsInv,
           UNCHANGED <<txns, lastTxn, state, failing, starting, recoverers, registered, received, dropped>>,
           currentMax' \in 0..MaxEvents, lastPos' \in 0..currentMax',
           round' \in [at : {"idle", "events"}, upper : 0..currentMax', todo : Seq(Events)],
           boot' \in {"no", "starting", "done", "failed"}, boot' = "done" => boot = "done",
           queued' \in Seq(Events), sender' \in SenderType, SenderKeeps', HandedOverKept'
    PROVE  AsInv'
<1>1. lastTxn \in 0..lastTxn' /\ lastTxn' \in Nat
    BY DEF AsInv, AsTypes, AsConstants
<1>2. AsTypes'
    BY DEF AsInv, AsTypes, SenderType
<1>3. \A r \in Recoverers : RecovererKeeps(r)'
    BY <1>1, RecovererStays
<1>4. RegisteredWorks' /\ DownIsRecovered' /\ Unwritten'
    BY DEF AsInv, RegisteredWorks, DownIsRecovered, Unwritten
<1> QED
    BY <1>2, <1>3, <1>4 DEF AsInv

\* New events, the start and the end of a round
LEMMA AsHandler ==
    ASSUME AsConstants, AsInv, NewEvent \/ ReadNewEvents \/ SetLastPos \/ RoundFails
    PROVE  AsInv'
<1> DEFINE RoundType(max) == [at : {"idle", "events"}, upper : 0..max, todo : Seq(Events)]
<1>1. /\ UNCHANGED <<txns, lastTxn, state, failing, starting, recoverers, registered, received, dropped>>
      /\ UNCHANGED <<boot, queued, sender>>
    BY DEF NewEvent, ReadNewEvents, SetLastPos, RoundFails, recovererVars
<1>2. /\ currentMax \in 0..MaxEvents /\ lastPos \in 0..currentMax /\ round \in RoundType(currentMax)
      /\ MaxEvents \in Nat /\ HandedOverKept
    BY DEF AsInv, AsTypes, AsConstants
<1>3. SenderKeeps' /\ \A e : Kept(e)' <=> Kept(e)
    BY <1>1 DEF AsInv, SenderKeeps, Kept
<1>4. /\ boot' \in {"no", "starting", "done", "failed"} /\ boot' = boot
      /\ queued' \in Seq(Events) /\ sender' \in SenderType
    BY <1>1, EventsOfSequences DEF AsInv, AsTypes
<1>5. NoRound \in RoundType(currentMax) /\ NoRound.at = "idle"
    BY <1>2 DEF NoRound
<1>6. /\ currentMax' \in 0..MaxEvents /\ lastPos' \in 0..currentMax' /\ round' \in RoundType(currentMax')
      /\ HandedOverKept'
  <2>1. CASE NewEvent
    <3>1. currentMax' = currentMax + 1 /\ currentMax < MaxEvents /\ lastPos' = lastPos /\ round' = round
        BY <2>1 DEF NewEvent
    <3>2. currentMax' \in 0..MaxEvents /\ lastPos' \in 0..currentMax' /\ 0..currentMax \subseteq 0..currentMax'
        BY <3>1, <1>2
    <3>3. round' \in RoundType(currentMax')
        BY <3>1, <3>2, <1>2
    <3> QED
        BY <3>1, <3>2, <3>3, <1>2, <1>3 DEF HandedOverKept, HandedOver
  <2>2. CASE ReadNewEvents
    <3> DEFINE upper == Min({currentMax, lastPos + RoundLimit})
               todo == [k \in 1 .. upper - lastPos |-> lastPos + k]
    <3>1. /\ round' = [at |-> "events", upper |-> upper, todo |-> todo]
          /\ currentMax' = currentMax /\ lastPos' = lastPos /\ lastPos < currentMax
        BY <2>2 DEF ReadNewEvents
    <3>2. upper \in lastPos..currentMax
        BY <1>2, <3>1, MinNat DEF AsConstants
    <3> HIDE DEF upper
    <3>3. upper - lastPos \in Nat /\ \A k \in 1 .. upper - lastPos : lastPos + k \in Events
        BY <1>2, <3>2 DEF Events
    <3>4. todo \in Seq(Events) /\ DOMAIN todo = 1 .. upper - lastPos
      <4>1. todo \in [1 .. upper - lastPos -> Events]
        BY <3>3
      <4> QED
        BY <3>3, <4>1
    <3>5. upper \in 0..currentMax
        BY <3>2, <1>2
    <3>6. round' \in RoundType(currentMax')
        BY <3>1, <3>4, <3>5
    <3>7. ASSUME NEW e \in Events, e > lastPos, e <= upper
          PROVE  e \in ToSet(todo)
      <4>1. e - lastPos \in 1 .. upper - lastPos /\ lastPos + (e - lastPos) = e
        BY <3>7, <3>2, <1>2 DEF Events
      <4>2. todo[e - lastPos] = e
        BY <4>1
      <4> QED
        BY <4>1, <4>2, <3>4, Zenon DEF ToSet
    <3> HIDE DEF todo
    <3>8. ASSUME NEW e \in Events, HandedOver(e)'
          PROVE  e <= lastPos
      <4>1. e <= lastPos \/ (e <= upper /\ e \notin ToSet(todo))
        BY <3>8, <3>1 DEF HandedOver
      <4>2. e <= lastPos \/ e > lastPos
        BY <1>2 DEF Events
      <4> QED
        BY <4>1, <4>2, <3>7
    <3> QED
        BY <3>1, <3>6, <3>8, <1>2, <1>3 DEF HandedOverKept, HandedOver
  <2>3. CASE SetLastPos
    <3>1. /\ round.at = "events" /\ round.todo = <<>> /\ lastPos' = round.upper
          /\ round' = NoRound /\ currentMax' = currentMax
        BY <2>3 DEF SetLastPos
    <3>2. \A e \in Events : HandedOver(e)' => HandedOver(e)
        BY <3>1, <1>5, ToSetEmpty DEF HandedOver
    <3> QED
        BY <3>1, <3>2, <1>2, <1>3, <1>5 DEF HandedOverKept
  <2>4. CASE RoundFails
    <3>1. round' = NoRound /\ currentMax' = currentMax /\ lastPos' = lastPos
        BY <2>4 DEF RoundFails
    <3>2. \A e \in Events : HandedOver(e)' => HandedOver(e)
        BY <3>1, <1>5 DEF HandedOver
    <3> QED
        BY <3>1, <3>2, <1>2, <1>3, <1>5 DEF HandedOverKept
  <2> QED
    BY <2>1, <2>2, <2>3, <2>4
<1> QED
    BY <1>1, <1>3, <1>4, <1>6, HandlerStep

\* handle_event and enqueue_for_appservice
LEMMA AsHandleEvent ==
    ASSUME AsConstants, AsInv, HandleEvent
    PROVE  AsInv'
<1> DEFINE e0 == Head(round.todo)
           q == Append(queued, e0)
           rest == Tail(round.todo)
<1>1. /\ UNCHANGED <<txns, lastTxn, state, failing, starting, recoverers, registered, received, dropped>>
      /\ UNCHANGED <<currentMax, lastPos>>
      /\ round.at = "events" /\ round.todo # <<>> /\ round' = [round EXCEPT !.todo = rest]
      /\ boot' = IF boot = "no" THEN "starting" ELSE boot
    BY DEF HandleEvent, recovererVars
<1>2. \/ sender.at = "idle" /\ sender' = NextTxn(q) /\ queued' = AfterNextTxn(q)
      \/ queued' = q /\ sender' = sender
    BY DEF HandleEvent
<1>3. /\ currentMax \in 0..MaxEvents /\ lastPos \in 0..currentMax
      /\ round \in [at : {"idle", "events"}, upper : 0..currentMax, todo : Seq(Events)]
      /\ boot \in {"no", "starting", "done", "failed"} /\ TxnLimit \in Nat \ {0}
    BY DEF AsInv, AsTypes, AsConstants
<1>4. round.todo \in Seq(Events) /\ rest \in Seq(Events) /\ e0 \in Events
    BY <1>1, <1>3
<1>5. q \in Seq(Events) /\ ToSet(q) = ToSet(queued) \union {e0}
    BY <1>4, ToSetAppend, EventsOfSequences
<1>6. ToSet(round.todo) = {e0} \union ToSet(rest)
    BY <1>1, <1>4, ToSetTail
<1> HIDE DEF e0, q, rest
<1>7. /\ round' \in [at : {"idle", "events"}, upper : 0..currentMax, todo : Seq(Events)]
      /\ round'.at = "events" /\ round'.upper = round.upper /\ round'.todo = rest
    BY <1>1, <1>3, <1>4
<1>8. /\ queued' \in Seq(Events) /\ sender' \in SenderType /\ SenderKeeps'
      /\ ToSet(queued) \union ToSet(sender.events) \union {e0} \subseteq ToSet(queued') \union ToSet(sender'.events)
  <2>1. CASE sender.at = "idle" /\ sender' = NextTxn(q) /\ queued' = AfterNextTxn(q)
    <3>1. /\ sender'.at \in {"idle", "check"} /\ sender'.txn = None
          /\ sender' \in [at : {"idle", "check"}, up : BOOLEAN, events : Seq(Events), txn : {None}]
          /\ sender'.at = "idle" => sender'.events = <<>>
          /\ queued' \in Seq(Events)
          /\ ToSet(q) = ToSet(sender'.events) \union ToSet(queued')
        BY <2>1, <1>3, <1>5, NextTxnProp
    <3>2. sender' \in SenderType
        BY <3>1 DEF SenderType, None, AsConstants
    <3>3. SenderKeeps'
        BY <3>1 DEF SenderKeeps
    <3>4. ToSet(sender.events) = {}
        BY <2>1, ToSetEmpty DEF AsInv, SenderKeeps
    <3> QED
        BY <3>1, <3>2, <3>3, <3>4, <1>5
  <2>2. CASE queued' = q /\ sender' = sender
    <3>1. SenderKeeps'
        BY <2>2, <1>1 DEF AsInv, SenderKeeps
    <3> QED
        BY <2>2, <3>1, <1>5, EventsOfSequences
  <2> QED
    BY <1>2, <2>1, <2>2
<1>9. HandedOverKept'
  <2> SUFFICES ASSUME NEW e \in Events, HandedOver(e)'
               PROVE  Kept(e)'
    BY DEF HandedOverKept
  <2>1. HandedOver(e) \/ e = e0
    BY <1>1, <1>6, <1>7 DEF HandedOver
  <2>2. CASE e = e0
    BY <2>2, <1>8 DEF Kept
  <2>3. CASE HandedOver(e)
    <3>1. Kept(e)
        BY <2>3 DEF AsInv, HandedOverKept
    <3> QED
        BY <3>1, <1>1, <1>8 DEF Kept
  <2> QED
    BY <2>1, <2>2, <2>3
<1> QED
    BY <1>1, <1>3, <1>7, <1>8, <1>9, HandlerStep

\* The process stops.
LEMMA AsRestart ==
    ASSUME AsConstants, AsInv, Restart
    PROVE  AsInv'
<1>1. /\ UNCHANGED <<currentMax, lastPos, txns, lastTxn, state, received>>
      /\ round' = NoRound /\ boot' = "no" /\ queued' = <<>> /\ sender' = Idle /\ failing' = 0 /\ starting' = 0
      /\ recoverers' = [r \in Recoverers |-> Gone] /\ registered' = None
    BY DEF Restart
<1>2. dropped' = dropped \union {e \in 1..lastPos : \/ e \in ToSet(queued)
                                                    \/ e \in ToSet(sender.events) /\ sender.txn = None}
    BY DEF Restart
<1>3. currentMax \in 0..MaxEvents /\ lastPos \in 0..currentMax /\ dropped \subseteq Events
    BY DEF AsInv, AsTypes
<1>4. dropped' \subseteq Events
  <2>1. 1..lastPos \subseteq Events
    BY <1>3 DEF Events, AsConstants
  <2> QED
    BY <2>1, <1>2, <1>3
<1>5. round' \in [at : {"idle", "events"}, upper : 0..currentMax', todo : Seq(Events)] /\ round'.at = "idle"
    BY <1>1, <1>3 DEF NoRound, AsConstants
<1>6. sender' \in SenderType /\ sender'.at = "idle" /\ sender'.txn = None /\ sender'.events = <<>>
    BY <1>1 DEF Idle, SenderType, None, AsConstants
<1>7. AsTypes'
    BY <1>1, <1>4, <1>5, <1>6, RecovererRecords
       DEF AsInv, AsTypes, SenderType, RecovererType, None, AsConstants
<1>8. SenderKeeps'
    BY <1>6 DEF SenderKeeps
<1>9. \A r \in Recoverers : RecovererKeeps(r)'
    BY <1>1, RecovererRecords DEF RecovererKeeps
<1>10. Unwritten' /\ RegisteredWorks' /\ DownIsRecovered'
    BY <1>1 DEF AsInv, Unwritten, RegisteredWorks, DownIsRecovered
<1>11. HandedOverKept'
  <2> SUFFICES ASSUME NEW e \in Events, HandedOver(e)'
               PROVE  Kept(e)'
    BY DEF HandedOverKept
  <2>1. e <= lastPos
    BY <1>1, <1>5 DEF HandedOver
  <2>2. Kept(e) /\ e \in 1..lastPos
    BY <2>1, <1>3 DEF AsInv, HandedOverKept, HandedOver, Events, AsConstants
  <2>3. CASE e \in ToSet(sender.events) /\ sender.txn # None
    <3>1. sender.at \in {"send", "complete"}
        BY <2>3, EventsOfSequences DEF AsInv, SenderKeeps, SenderType
    <3>2. sender.txn \in Txns /\ (e \in received \/ e \in ToSet(txns[sender.txn]))
        BY <2>3, <3>1 DEF AsInv, SenderKeeps
    <3> QED
        BY <3>2, <1>1 DEF Kept
  <2>4. CASE ~(e \in ToSet(sender.events) /\ sender.txn # None)
    <3>1. \/ e \in received \/ e \in dropped' \/ \E t \in Txns : e \in ToSet(txns[t])
        BY <2>2, <2>4, <1>2 DEF Kept
    <3> QED
        BY <3>1, <1>1 DEF Kept
  <2> QED
    BY <2>3, <2>4
<1> QED
    BY <1>7, <1>8, <1>9, <1>10, <1>11 DEF AsInv

\* Nothing changes.
LEMMA AsStutters ==
    ASSUME AsInv, UNCHANGED serviceVars
    PROVE  AsInv'
<1>1. AsTypes'
    BY DEF AsInv, AsTypes, serviceVars
<1>2. HandedOverKept' /\ SenderKeeps'
    BY DEF AsInv, HandedOverKept, HandedOver, Kept, SenderKeeps, serviceVars
<1>3. (\A r \in Recoverers : RecovererKeeps(r)') /\ Unwritten' /\ RegisteredWorks' /\ DownIsRecovered'
    BY DEF AsInv, RecovererKeeps, Unwritten, RegisteredWorks, DownIsRecovered, serviceVars
<1> QED
    BY <1>1, <1>2, <1>3 DEF AsInv

\* Application services: an event that the handler is done with is received,
\* queued, being sent or stored, or known to be lost; and a service that is
\* down is being recovered, or about to be.
THEOREM EventsReachService ==
    ASSUME AsConstants
    PROVE  ServiceSpec => [](ServiceTypeOK /\ NothingForgotten /\ DownIsRecovered)
<1>1. ASSUME ServiceInit
      PROVE  AsInv
    BY <1>1, AsInitial
<1>2. ASSUME AsInv, [ServiceNext]_serviceVars
      PROVE  AsInv'
  <2>1. CASE UNCHANGED serviceVars
    BY <1>2, <2>1, AsStutters
  <2>2. CASE NewEvent \/ ReadNewEvents \/ SetLastPos \/ RoundFails
    BY <1>2, <2>2, AsHandler
  <2>3. CASE HandleEvent
    BY <1>2, <2>3, AsHandleEvent
  <2>4. CASE CheckUp
    BY <1>2, <2>4, AsCheckUp
  <2>5. CASE CreateTxn
    BY <1>2, <2>5, AsCreateTxn
  <2>6. CASE CreateFails
    BY <1>2, <2>6, AsCreateFails
  <2>7. CASE \E sent \in BOOLEAN : Send(sent)
    BY <1>2, <2>7, AsSend
  <2>8. CASE Complete
    BY <1>2, <2>8, AsComplete
  <2>9. CASE CompleteFails
    BY <1>2, <2>9, AsCompleteFails
  <2>10. CASE SetDown \/ SetDownFails \/ AfterSetDown \/ StartScheduler \/ StartSchedulerFails
    BY <1>2, <2>10, AsStarts
  <2>11. ASSUME NEW r \in Recoverers, Recover(r) \/ RetryFails(r)
         PROVE  AsInv'
    <3>1. CASE Look(r) \/ NothingLeft(r) \/ SetUp(r) \/ RetryFails(r)
        BY <1>2, <3>1, AsRecovers
    <3>2. CASE \E sent \in BOOLEAN : Resend(r, sent)
        BY <1>2, <3>2, AsResend
    <3>3. CASE CompleteResent(r)
        BY <1>2, <3>3, AsCompleteResent
    <3> QED
        BY <2>11, <3>1, <3>2, <3>3 DEF Recover
  <2>12. CASE Restart
    BY <1>2, <2>12, AsRestart
  <2> QED
    BY <1>2, <2>1, <2>2, <2>3, <2>4, <2>5, <2>6, <2>7, <2>8, <2>9, <2>10, <2>11, <2>12 DEF ServiceNext
<1>3. ASSUME AsInv
      PROVE  ServiceTypeOK /\ NothingForgotten /\ DownIsRecovered
  <2>1. ServiceTypeOK
    BY <1>3 DEF AsInv, AsTypes, ServiceTypeOK, Txns, Recoverers, None, AsConstants
  <2>2. NothingForgotten
    <3> SUFFICES ASSUME NEW e \in 1..lastPos
                 PROVE  \/ e \in received \union dropped \union ToSet(queued) \union ToSet(sender.events)
                        \/ \E t \in Stored : e \in ToSet(txns[t])
        BY DEF NothingForgotten
    <3>1. e \in Events /\ HandedOver(e)
        BY <1>3 DEF AsInv, AsTypes, Events, HandedOver, AsConstants
    <3>2. Kept(e)
        BY <1>3, <3>1 DEF AsInv, HandedOverKept
    <3>3. \A t \in Txns : e \in ToSet(txns[t]) => t \in Stored
        BY ToSetEmpty DEF Stored
    <3> QED
        BY <3>2, <3>3 DEF Kept
  <2> QED
    BY <1>3, <2>1, <2>2 DEF AsInv
<1> QED
    BY <1>1, <1>2, <1>3, PTL DEF ServiceSpec

\* A service that is marked DOWN has a recoverer, or is about to get one.
COROLLARY ServiceIsRecovered ==
    ASSUME AsConstants
    PROVE  ServiceSpec => []DownIsRecovered
BY EventsReachService, PTL

-----------------------------------------------------------------------------
(* HttpPusher *)

PushConstants == MaxEvents \in Nat /\ PushLimit \in Nat /\ MaxPushers \in Nat

PusherType ==
    [at : {"gone", "idle", "fetch", "push", "remove", "store", "clear", "failing", "failed", "skip"},
     last : Nat, max : Nat, startingMax : Nat, todo : Seq(Nat), failing : {"no", "recent", "long"},
     timed : BOOLEAN, oldTimers : Int]

\* The events that need no notification any more
Settled == Nat \ owed

\* An object of HttpPusher, when n is the last event and H the events that are
\* settled: those up to its position are, and so are those before the push
\* action it is at; its push actions follow each other.
PusherOK(o, n, H) ==
    /\ o \in PusherType
    /\ o.last <= n /\ o.max <= n /\ o.startingMax <= n
    /\ \A k \in DOMAIN o.todo : o.todo[k] <= n /\ o.todo[k] = o.todo[1] + k - 1
    /\ \A e \in Nat : e <= o.last => e \in H
    /\ o.at \in {"push", "remove", "failing", "failed"} =>
          o.todo # <<>> /\ \A e \in Nat : e < o.todo[1] => e \in H
    /\ o.at = "remove" => o.todo[1] \in H
    /\ o.at \in {"store", "clear", "skip"} => o.todo # <<>> /\ o.last = o.todo[1]

\* The row, likewise
RowOK(r, n, H) ==
    /\ r \in [exists : BOOLEAN, last : 0..n, failing : {"no", "recent", "long"}]
    /\ r.exists => \A e \in Nat : e <= r.last => e \in H

PushInv ==
    /\ latest \in Nat /\ receipt \in 0..latest /\ removed \in 0..latest
    /\ owed \subseteq 1..latest
    /\ \A e \in owed : receipt < e /\ removed < e
    /\ RowOK(pushRow, latest, Settled)
    /\ DOMAIN pushers = Push!Pushers
    /\ \A p \in Push!Pushers : PusherOK(pushers[p], latest, Settled)

\* Events are added at the end, and those that are settled stay so.
LEMMA PusherStays ==
    ASSUME NEW o, NEW n \in Nat, NEW m \in Nat, n <= m, NEW H, NEW J, \A e \in H : e <= n => e \in J,
           PusherOK(o, n, H)
    PROVE  PusherOK(o, m, J)
<1>1. o \in PusherType
    BY DEF PusherOK
<1>2. /\ o.last \in Nat /\ o.max \in Nat /\ o.startingMax \in Nat /\ o.todo \in Seq(Nat)
    BY <1>1 DEF PusherType
<1>3. o.last <= m /\ o.max <= m /\ o.startingMax <= m /\ o.last <= n
    BY <1>2 DEF PusherOK
<1>4. \A k \in DOMAIN o.todo : o.todo[k] \in Nat
    BY <1>2
<1>5. \A k \in DOMAIN o.todo : o.todo[k] <= m /\ o.todo[k] = o.todo[1] + k - 1
  <2>1. \A k \in DOMAIN o.todo : o.todo[k] <= m
    BY <1>4 DEF PusherOK
  <2> QED
    BY <2>1, Zenon DEF PusherOK
<1>6. \A e \in Nat : e <= o.last => e \in J
  <2>1. \A e \in Nat : e <= o.last => e <= n
    BY <1>2, <1>3
  <2> QED
    BY <2>1, Zenon DEF PusherOK
<1>7. ASSUME o.at \in {"push", "remove", "failing", "failed"}
      PROVE  /\ o.todo # <<>> /\ \A e \in Nat : e < o.todo[1] => e \in J
             /\ o.todo[1] \in H => o.todo[1] \in J
  <2>1. o.todo # <<>> /\ \A e \in Nat : e < o.todo[1] => e \in H
    BY <1>7, Zenon DEF PusherOK
  <2>2. 1 \in DOMAIN o.todo
    BY <1>2, <2>1
  <2>3. o.todo[1] \in Nat /\ o.todo[1] <= n
    BY <1>4, <2>2, Zenon DEF PusherOK
  <2>4. \A e \in Nat : e < o.todo[1] => e <= n
    BY <2>3
  <2> QED
    BY <2>1, <2>3, <2>4, Zenon
<1>8. o.at = "remove" => o.todo[1] \in J
    BY <1>7, Zenon DEF PusherOK
<1> QED
    BY <1>1, <1>3, <1>5, <1>6, <1>7, <1>8, Zenon DEF PusherOK

\* Fields that the invariant does not speak of may change.
LEMMA PusherIrrelevant ==
    ASSUME NEW o, NEW x, NEW n \in Nat, NEW H, PusherOK(o, n, H), x \in PusherType,
           x.at \in {"gone", "idle", "fetch"} \/ (x.at = o.at /\ x.todo = o.todo),
           x.last = o.last, x.todo \in {o.todo, <<>>},
           x.max <= n, x.startingMax <= n
    PROVE  PusherOK(x, n, H)
<1>1. \A k \in DOMAIN x.todo : x.todo[k] <= n /\ x.todo[k] = x.todo[1] + k - 1
  <2>1. CASE x.todo = o.todo
    BY <2>1, Zenon DEF PusherOK
  <2>2. CASE x.todo = <<>>
    BY <2>2
  <2> QED
    BY <2>1, <2>2
<1> QED
    BY <1>1 DEF PusherOK

\* A turn of _process, its start and its end, and a cancelled timer
LEMMA PusherTurns ==
    ASSUME NEW o, NEW n \in Nat, NEW H, PusherOK(o, n, H)
    PROVE  /\ PusherOK(Push!Turn(o), n, H)
           /\ PusherOK(Push!StartProcessing(o), n, H)
           /\ PusherOK(Push!Stopped(o), n, H)
           /\ PusherOK(Push!EndOfRound(o), n, H)
<1>1. o \in PusherType /\ o.max <= n
    BY DEF PusherOK
<1>2. PusherOK(Push!Turn(o), n, H)
  <2> DEFINE x == Push!Turn(o)
  <2>1. /\ x \in PusherType /\ x.at = "fetch" /\ x.last = o.last /\ x.todo = o.todo /\ x.max = o.max
        /\ x.startingMax = o.max
    BY <1>1 DEF Push!Turn, PusherType
  <2> HIDE DEF x
  <2> QED
    BY <1>1, <2>1, PusherIrrelevant DEF x
<1>3. PusherOK(Push!StartProcessing(o), n, H)
    BY <1>2 DEF Push!StartProcessing
<1>4. PusherOK(Push!Stopped(o), n, H)
  <2> DEFINE x == Push!Stopped(o)
  <2>1. /\ x \in PusherType /\ x.at = o.at /\ x.last = o.last /\ x.todo = o.todo /\ x.max = o.max
        /\ x.startingMax = o.startingMax
    BY <1>1 DEF Push!Stopped, PusherType
  <2>2. o.startingMax <= n
    BY DEF PusherOK
  <2> HIDE DEF x
  <2> QED
    BY <1>1, <2>1, <2>2, PusherIrrelevant DEF x
<1>5. PusherOK(Push!EndOfRound(o), n, H)
  <2> DEFINE ended == [o EXCEPT !.todo = <<>>, !.startingMax = 0]
             x == [ended EXCEPT !.at = "idle"]
             y == Push!Turn(ended)
  <2>1. /\ ended \in PusherType /\ ended.last = o.last /\ ended.todo = <<>> /\ ended.max = o.max
        /\ ended.startingMax = 0
    <3>1. <<>> \in Seq(Nat)
        OBVIOUS
    <3> QED
        BY <1>1, <3>1 DEF PusherType
  <2> HIDE DEF ended
  <2>2. /\ x \in PusherType /\ x.at = "idle" /\ x.last = o.last /\ x.todo = <<>> /\ x.max = o.max
        /\ x.startingMax = 0
    BY <2>1 DEF PusherType
  <2>3. /\ y \in PusherType /\ y.at = "fetch" /\ y.last = o.last /\ y.todo = <<>> /\ y.max = o.max
        /\ y.startingMax = o.max
    BY <2>1, <1>1 DEF PusherType, Push!Turn
  <2> HIDE DEF x, y
  <2>4. PusherOK(y, n, H)
    BY <1>1, <2>3, PusherIrrelevant
  <2>5. PusherOK(x, n, H)
    <3>1. x.startingMax <= n
        BY <2>2
    <3> QED
        BY <3>1, <1>1, <2>2, PusherIrrelevant
  <2>6. Push!EndOfRound(o) = IF o.max = o.startingMax THEN x ELSE y
    BY DEF Push!EndOfRound, ended, x, y
  <2> QED
    BY <2>4, <2>5, <2>6
<1> QED
    BY <1>2, <1>3, <1>4, <1>5

\* The push action at hand is settled: the position moves to it.
LEMMA PusherProcessed ==
    ASSUME NEW o, NEW n \in Nat, NEW H, PusherOK(o, n, H),
           o.at \in {"push", "remove", "failed"}, o.todo[1] \in H, NEW a \in {"store", "skip"}
    PROVE  PusherOK([o EXCEPT !.at = a, !.last = Head(o.todo)], n, H)
<1> DEFINE x == [o EXCEPT !.at = a, !.last = Head(o.todo)]
<1>1. o \in PusherType /\ o.max <= n /\ o.startingMax <= n /\ o.todo # <<>>
    BY DEF PusherOK
<1>2. o.todo \in Seq(Nat)
    BY <1>1 DEF PusherType
<1>3. Head(o.todo) = o.todo[1] /\ o.todo[1] \in Nat /\ 1 \in DOMAIN o.todo
    BY <1>1, <1>2
<1>4. /\ x \in PusherType /\ x.at = a /\ x.last = o.todo[1] /\ x.todo = o.todo /\ x.max = o.max
      /\ x.startingMax = o.startingMax
    BY <1>1, <1>3 DEF PusherType
<1> HIDE DEF x
<1>5. o.todo[1] <= n
    BY <1>3 DEF PusherOK
<1>6. \A e \in Nat : e <= o.todo[1] => e \in H
  <2>1. \A e \in Nat : e < o.todo[1] => e \in H
    BY DEF PusherOK
  <2>2. \A e \in Nat : e <= o.todo[1] => e < o.todo[1] \/ e = o.todo[1]
    BY <1>3
  <2> QED
    BY <2>1, <2>2, Zenon
<1>7. \A k \in DOMAIN x.todo : x.todo[k] <= n /\ x.todo[k] = x.todo[1] + k - 1
    BY <1>4, Zenon DEF PusherOK
<1> QED
    BY <1>1, <1>4, <1>5, <1>6, <1>7 DEF x, PusherOK

\* On to the push action after the one at the position
LEMMA PusherNextAction ==
    ASSUME NEW o, NEW n \in Nat, NEW H, PusherOK(o, n, H), o.at \in {"store", "clear"}
    PROVE  PusherOK(Push!NextAction(o), n, H)
<1>1. o \in PusherType /\ o.last <= n /\ o.max <= n /\ o.startingMax <= n /\ o.todo # <<>> /\ o.last = o.todo[1]
    BY DEF PusherOK
<1>2. o.todo \in Seq(Nat)
    BY <1>1 DEF PusherType
<1>3. CASE Len(o.todo) > 1
  <2> DEFINE rest == Tail(o.todo)
             x == [o EXCEPT !.at = "push", !.todo = Tail(@)]
  <2>1. /\ rest \in Seq(Nat) /\ Len(rest) = Len(o.todo) - 1 /\ DOMAIN rest = 1 .. Len(o.todo) - 1
        /\ DOMAIN o.todo = 1..Len(o.todo) /\ Len(o.todo) \in Nat
    BY <1>1, <1>2
  <2>2. \A k \in 1 .. Len(o.todo) - 1 : rest[k] = o.todo[k + 1]
    BY <1>1, <1>2
  <2>3. rest # <<>>
    <3>1. Len(rest) > 0
        BY <1>3, <2>1
    <3> HIDE DEF rest
    <3> QED
        BY <3>1
  <2>4. /\ x \in PusherType /\ x.at = "push" /\ x.last = o.last /\ x.todo = rest /\ x.max = o.max
        /\ x.startingMax = o.startingMax
    BY <1>1, <2>1 DEF PusherType
  <2> HIDE DEF x, rest
  <2>5. /\ o.todo[1] \in Nat /\ \A k \in DOMAIN o.todo : o.todo[k] <= n /\ o.todo[k] = o.todo[1] + k - 1
    <3>1. o.todo[1] \in Nat
        BY <1>1, <1>2
    <3> QED
        BY <3>1, Zenon DEF PusherOK
  <2>6. 1 \in DOMAIN rest /\ 2 \in DOMAIN o.todo /\ rest[1] = o.todo[2]
    BY <1>3, <2>1, <2>2
  <2>7. rest[1] = o.todo[1] + 1
    <3>1. o.todo[2] = o.todo[1] + 2 - 1
        BY <2>5, <2>6, Zenon
    <3> QED
        BY <3>1, <2>5, <2>6
  <2>8. \A k \in DOMAIN rest : rest[k] <= n /\ rest[k] = rest[1] + k - 1
    <3> SUFFICES ASSUME NEW k \in DOMAIN rest
                 PROVE  rest[k] <= n /\ rest[k] = rest[1] + k - 1
        OBVIOUS
    <3>1. k \in Nat /\ k + 1 \in DOMAIN o.todo /\ rest[k] = o.todo[k + 1]
      <4>1. k \in 1 .. Len(o.todo) - 1
        BY <2>1, Zenon
      <4>2. k \in Nat /\ k + 1 \in 1..Len(o.todo)
        BY <4>1, <2>1
      <4> QED
        BY <4>1, <4>2, <2>1, <2>2, Zenon
    <3>2. o.todo[k + 1] <= n /\ o.todo[k + 1] = o.todo[1] + (k + 1) - 1
        BY <3>1, <2>5, Zenon
    <3>3. o.todo[1] + (k + 1) - 1 = (o.todo[1] + 1) + k - 1
        BY <3>1, <2>5
    <3> QED
        BY <3>1, <3>2, <3>3, <2>7, Zenon
  <2>9. \A e \in Nat : e < rest[1] => e \in H
    <3>1. \A e \in Nat : e < o.todo[1] + 1 => e <= o.todo[1]
        BY <2>5
    <3> QED
        BY <3>1, <2>7, <1>1, Zenon DEF PusherOK
  <2>10. PusherOK(x, n, H)
    <3>1. \A e \in Nat : e <= x.last => e \in H
        BY <2>4, Zenon DEF PusherOK
    <3> QED
        BY <3>1, <1>1, <2>3, <2>4, <2>8, <2>9 DEF PusherOK
  <2> QED
    BY <1>3, <2>10 DEF Push!NextAction, x
<1>4. CASE ~(Len(o.todo) > 1)
    BY <1>4, PusherTurns DEF Push!NextAction
<1> QED
    BY <1>3, <1>4

LEMMA RowStays ==
    ASSUME NEW r, NEW n \in Nat, NEW m \in Nat, n <= m, NEW H, NEW J, \A e \in H : e <= n => e \in J,
           RowOK(r, n, H)
    PROVE  RowOK(r, m, J)
<1>1. 0..n \subseteq 0..m
    OBVIOUS
<1>2. r \in [exists : BOOLEAN, last : 0..m, failing : {"no", "recent", "long"}] /\ r.last \in 0..n
    BY <1>1 DEF RowOK
<1>3. \A e \in Nat : e <= r.last => e <= n
    BY <1>2
<1> QED
    BY <1>2, <1>3, Zenon DEF RowOK

\* A step of the pushers: what remains to be shown of it.
LEMMA PushStep ==
    ASSUME PushInv, UNCHANGED <<latest, receipt, removed>>, owed' \subseteq owed,
           pushRow' = pushRow \/ RowOK(pushRow', latest, Settled'),
           DOMAIN pushers' = Push!Pushers,
           \A p \in Push!Pushers : \/ pushers'[p] = pushers[p]
                                   \/ PusherOK(pushers'[p], latest, Settled')
    PROVE  PushInv'
<1>1. latest \in Nat /\ latest <= latest
    BY DEF PushInv
<1>2. \A e \in Settled : e <= latest => e \in Settled'
    BY DEF Settled
<1>3. RowOK(pushRow', latest, Settled')
    BY <1>1, <1>2, RowStays DEF PushInv
<1>4. \A p \in Push!Pushers : PusherOK(pushers'[p], latest, Settled')
    BY <1>1, <1>2, PusherStays DEF PushInv
<1>5. owed' \subseteq 1..latest' /\ \A e \in owed' : receipt' < e /\ removed' < e
    BY DEF PushInv
<1> QED
    BY <1>3, <1>4, <1>5 DEF PushInv

\* The same for a step of one pusher
LEMMA OnePusherStep ==
    ASSUME PushInv, UNCHANGED <<latest, receipt, removed>>, owed' \subseteq owed,
           pushRow' = pushRow \/ RowOK(pushRow', latest, Settled'),
           NEW p, NEW o, Push!Becomes(p, o), p \in Push!Pushers => PusherOK(o, latest, Settled')
    PROVE  PushInv'
<1>1. DOMAIN pushers' = Push!Pushers
    BY DEF PushInv, Push!Becomes
<1>2. \A q \in Push!Pushers : IF q = p THEN pushers'[q] = o ELSE pushers'[q] = pushers[q]
  <2>1. DOMAIN pushers = Push!Pushers
    BY DEF PushInv
  <2> QED
    BY <2>1, Zenon DEF Push!Becomes
<1>3. \A q \in Push!Pushers : pushers'[q] = pushers[q] \/ PusherOK(pushers'[q], latest, Settled')
    BY <1>2, Zenon
<1> QED
    BY <1>1, <1>3, PushStep

\* The initial state satisfies the invariant.
LEMMA PusherGone ==
    ASSUME NEW n \in Nat, NEW H, 0 \in H
    PROVE  PusherOK(Push!Gone, n, H)
<1> DEFINE x == Push!Gone
<1>1. <<>> \in Seq(Nat)
    OBVIOUS
<1>2. /\ x \in PusherType /\ x.at = "gone" /\ x.last = 0 /\ x.max = 0 /\ x.startingMax = 0 /\ x.todo = <<>>
    BY <1>1 DEF Push!Gone, PusherType
<1> HIDE DEF x
<1>3. DOMAIN x.todo = {}
    BY <1>2
<1>4. PusherOK(x, n, H)
    BY <1>2, <1>3 DEF PusherOK
<1> QED
    BY <1>4 DEF x

LEMMA NoRowOK ==
    ASSUME NEW n \in Nat, NEW H
    PROVE  RowOK(Push!NoRow, n, H)
<1>1. Push!NoRow.exists = FALSE
    BY DEF Push!NoRow
<1>2. Push!NoRow \in [exists : BOOLEAN, last : 0..n, failing : {"no", "recent", "long"}]
    BY DEF Push!NoRow
<1> QED
    BY <1>1, <1>2 DEF RowOK

LEMMA PushInitial ==
    ASSUME PushConstants, Push!Init
    PROVE  PushInv
<1>1. /\ latest \in Nat /\ receipt \in 0..latest /\ removed \in 0..latest
      /\ owed \subseteq 1..latest /\ \A e \in owed : receipt < e /\ removed < e
    BY DEF Push!Init
<1>2. RowOK(pushRow, latest, Settled)
    BY <1>1, NoRowOK DEF Push!Init
<1>3. DOMAIN pushers = Push!Pushers /\ \A p \in Push!Pushers : pushers[p] = Push!Gone
    BY DEF Push!Init
<1>4. 0 \in Settled
    BY DEF Push!Init, Settled
<1>5. \A p \in Push!Pushers : PusherOK(pushers[p], latest, Settled)
    BY <1>1, <1>3, <1>4, PusherGone
<1> QED
    BY <1>1, <1>2, <1>3, <1>5 DEF PushInv

\* Restart
LEMMA PushRestart ==
    ASSUME PushInv, Push!Restart
    PROVE  PushInv'
<1>1. /\ UNCHANGED <<latest, receipt, removed, owed, pushRow>>
      /\ DOMAIN pushers' = Push!Pushers /\ \A p \in Push!Pushers : pushers'[p] = Push!Gone
    BY DEF Push!Restart
<1>2. \A p \in Push!Pushers : PusherOK(pushers'[p], latest, Settled')
  <2>1. latest \in Nat /\ 0 \in Settled'
    BY <1>1 DEF PushInv, Settled
  <2> QED
    BY <1>1, <2>1, PusherGone
<1> QED
    BY <1>1, <1>2, PushStep

\* Events and receipts come in, and rows are deleted.
LEMMA PushOutside ==
    ASSUME PushInv, Push!NewEvent \/ Push!ReadReceipt \/ Push!RemoveOldPushActions
    PROVE  PushInv'
<1>1. /\ latest \in Nat /\ receipt \in 0..latest /\ removed \in 0..latest /\ receipt \in Nat /\ removed \in Nat
      /\ owed \subseteq 1..latest /\ \A e \in owed : receipt < e /\ removed < e
    BY DEF PushInv
<1>2. UNCHANGED <<pushRow, pushers>>
    BY DEF Push!NewEvent, Push!ReadReceipt, Push!RemoveOldPushActions
<1>3. /\ latest' \in Nat /\ latest <= latest' /\ receipt' \in 0..latest' /\ removed' \in 0..latest'
      /\ owed' \subseteq owed \union {latest + 1}
    BY <1>1 DEF Push!NewEvent, Push!ReadReceipt, Push!RemoveOldPushActions
<1>4. owed' \subseteq 1..latest' /\ \A e \in owed' : receipt' < e /\ removed' < e
  <2>1. CASE Push!NewEvent
    <3>1. latest' = latest + 1 /\ owed' = owed \union {latest + 1} /\ UNCHANGED <<receipt, removed>>
        BY <2>1 DEF Push!NewEvent
    <3> QED
        BY <1>1, <3>1
  <2>2. CASE Push!ReadReceipt
    BY <2>2 DEF Push!ReadReceipt
  <2>3. CASE Push!RemoveOldPushActions
    <3>1. latest' = latest /\ receipt' = receipt /\ removed' = removed + 1 /\ owed' = owed \ {removed + 1}
        BY <2>3 DEF Push!RemoveOldPushActions
    <3>2. \A e \in owed : e \in Nat
        BY <1>1
    <3> QED
        BY <1>1, <3>1, <3>2
  <2> QED
    BY <2>1, <2>2, <2>3
<1>5. \A e \in Settled : e <= latest => e \in Settled'
    BY <1>1, <1>3 DEF Settled
<1>6. RowOK(pushRow', latest', Settled')
    BY <1>1, <1>2, <1>3, <1>5, RowStays DEF PushInv
<1>7. \A p \in Push!Pushers : PusherOK(pushers'[p], latest', Settled')
    BY <1>1, <1>2, <1>3, <1>5, PusherStays DEF PushInv
<1> QED
    BY <1>2, <1>3, <1>4, <1>6, <1>7 DEF PushInv

\* A pusher that the invariant holds of
LEMMA ThePusher ==
    ASSUME PushInv, NEW p \in Push!Pushers, owed' \subseteq owed
    PROVE  /\ PusherOK(pushers[p], latest, Settled)
           /\ PusherOK(pushers[p], latest, Settled')
           /\ pushers[p] \in PusherType
           /\ latest \in Nat /\ receipt \in Nat /\ removed \in Nat /\ Settled \subseteq Settled'
<1>1. latest \in Nat /\ receipt \in Nat /\ removed \in Nat /\ latest <= latest
    BY DEF PushInv
<1>2. Settled \subseteq Settled'
    BY DEF Settled
<1>3. PusherOK(pushers[p], latest, Settled)
    BY DEF PushInv
<1>4. PusherOK(pushers[p], latest, Settled')
    BY <1>1, <1>2, <1>3, PusherStays
<1> QED
    BY <1>1, <1>2, <1>3, <1>4 DEF PusherOK

\* Failing for long
LEMMA PushTimePasses ==
    ASSUME PushInv, Push!TimePasses
    PROVE  PushInv'
<1> DEFINE Aged(f) == IF f = "recent" THEN "long" ELSE f
<1>1. /\ UNCHANGED <<latest, receipt, removed, owed>>
      /\ pushRow' = [pushRow EXCEPT !.failing = Aged(@)]
      /\ pushers' = [p \in Push!Pushers |-> [pushers[p] EXCEPT !.failing = Aged(@)]]
    BY DEF Push!TimePasses
<1>2. RowOK(pushRow', latest, Settled')
  <2>1. RowOK(pushRow, latest, Settled) /\ Settled' = Settled
    BY <1>1 DEF PushInv, Settled
  <2>2. pushRow \in [exists : BOOLEAN, last : 0..latest, failing : {"no", "recent", "long"}]
    BY <2>1 DEF RowOK
  <2>3. /\ pushRow' \in [exists : BOOLEAN, last : 0..latest, failing : {"no", "recent", "long"}]
        /\ pushRow'.exists = pushRow.exists /\ pushRow'.last = pushRow.last
    BY <1>1, <2>2
  <2> QED
    BY <2>1, <2>3, Zenon DEF RowOK
<1>3. ASSUME NEW p \in Push!Pushers
      PROVE  PusherOK(pushers'[p], latest, Settled')
  <2> DEFINE o == pushers[p]
             x == pushers'[p]
  <2>1. PusherOK(o, latest, Settled') /\ o \in PusherType /\ latest \in Nat
    BY <1>1, ThePusher
  <2>2. x = [o EXCEPT !.failing = Aged(@)]
    BY <1>1
  <2> HIDE DEF o, x
  <2>3. /\ x \in PusherType /\ x.at = o.at /\ x.last = o.last /\ x.todo = o.todo /\ x.max = o.max
        /\ x.startingMax = o.startingMax
    BY <2>1, <2>2 DEF PusherType
  <2>4. PusherOK(x, latest, Settled')
    <3>1. o.max <= latest /\ o.startingMax <= latest
        BY <2>1 DEF PusherOK
    <3> QED
        BY <2>1, <2>3, <3>1, PusherIrrelevant
  <2> QED
    BY <2>4 DEF x
<1>4. DOMAIN pushers' = Push!Pushers
    BY <1>1
<1> QED
    BY <1>1, <1>2, <1>3, <1>4, PushStep

\* add_or_update_pusher: nothing is owed up to the position of the row.
LEMMA PushAdd ==
    ASSUME PushInv, Push!AddOrUpdatePusher
    PROVE  PushInv'
<1>1. PICK position \in 0..latest :
          /\ pushRow' = [pushRow EXCEPT !.exists = TRUE, !.last = position]
          /\ owed' = owed \ (1..position)
    BY DEF Push!AddOrUpdatePusher
<1>2. UNCHANGED <<latest, receipt, removed, pushers>>
    BY DEF Push!AddOrUpdatePusher
<1>3. latest \in Nat /\ RowOK(pushRow, latest, Settled) /\ owed \subseteq 1..latest /\ position \in Nat
    BY DEF PushInv
<1>4. /\ pushRow' \in [exists : BOOLEAN, last : 0..latest, failing : {"no", "recent", "long"}]
      /\ pushRow'.last = position
  <2>1. pushRow \in [exists : BOOLEAN, last : 0..latest, failing : {"no", "recent", "long"}]
    BY <1>3 DEF RowOK
  <2>2. pushRow.failing \in {"no", "recent", "long"}
    BY <2>1
  <2>3. pushRow' = [exists |-> TRUE, last |-> position, failing |-> pushRow.failing]
    BY <1>1, <2>1
  <2> QED
    BY <2>2, <2>3
<1>5. \A e \in Nat : e <= position => e \in Settled'
  <2>1. \A e \in Nat : e <= position => e \notin owed'
    <3>1. \A e \in owed : e \in Nat /\ e >= 1
        BY <1>3
    <3> QED
        BY <1>1, <1>3, <3>1
  <2> QED
    BY <2>1 DEF Settled
<1>6. RowOK(pushRow', latest, Settled')
    BY <1>4, <1>5 DEF RowOK
<1>7. DOMAIN pushers' = Push!Pushers /\ owed' \subseteq owed
    BY <1>1, <1>2 DEF PushInv
<1> QED
    BY <1>2, <1>6, <1>7, PushStep

\* _start_pusher: the new object begins where the row is.
LEMMA PushStart ==
    ASSUME PushInv, Push!StartPusher
    PROVE  PushInv'
<1> DEFINE new == [Push!Gone EXCEPT !.at = "idle", !.last = pushRow.last, !.max = latest, !.failing = pushRow.failing]
<1>1. UNCHANGED <<latest, receipt, removed, owed, pushRow>>
    BY DEF Push!StartPusher
<1>2. latest \in Nat /\ RowOK(pushRow, latest, Settled)
    BY DEF PushInv
<1>3. Settled' = Settled
    BY <1>1 DEF Settled
<1>4. CASE pushRow.exists
  <2>1. pushers' = [p \in Push!Pushers |->
                       IF p = Push!Min(Push!Unused) THEN Push!StartProcessing(new)
                       ELSE IF p = pool THEN Push!Stopped(pushers[p]) ELSE pushers[p]]
    BY <1>4, Zenon DEF Push!StartPusher
  <2>2. PusherOK(new, latest, Settled')
    <3>1. pushRow.last \in 0..latest /\ pushRow.failing \in {"no", "recent", "long"}
        BY <1>2 DEF RowOK
    <3>2. \A e \in Nat : e <= pushRow.last => e \in Settled
        BY <1>2, <1>4, Zenon DEF RowOK
    <3>3. <<>> \in Seq(Nat) /\ pushRow.last \in Nat /\ pushRow.last <= latest
        BY <3>1, <1>2
    <3>4. /\ new \in PusherType /\ new.at = "idle" /\ new.last = pushRow.last /\ new.max = latest
          /\ new.startingMax = 0 /\ new.todo = <<>>
      <4>1. Push!Gone \in PusherType /\ Push!Gone.startingMax = 0 /\ Push!Gone.todo = <<>>
        BY <3>3 DEF Push!Gone, PusherType
      <4> QED
        BY <4>1, <1>2, <3>1, <3>3 DEF PusherType
    <3> HIDE DEF new
    <3>5. DOMAIN new.todo = {} /\ latest <= latest /\ 0 <= latest
        BY <3>4, <1>2
    <3> QED
        BY <1>3, <3>2, <3>3, <3>4, <3>5 DEF PusherOK
  <2> HIDE DEF new
  <2>3. PusherOK(Push!StartProcessing(new), latest, Settled')
    BY <2>2, <1>2, PusherTurns
  <2>4. DOMAIN pushers' = Push!Pushers
    BY <2>1
  <2>5. ASSUME NEW p \in Push!Pushers
        PROVE  PusherOK(pushers'[p], latest, Settled')
    <3>1. PusherOK(pushers[p], latest, Settled')
        BY <1>1, ThePusher
    <3>2. PusherOK(Push!Stopped(pushers[p]), latest, Settled')
        BY <3>1, <1>2, PusherTurns
    <3> QED
        BY <2>1, <2>3, <3>1, <3>2, Zenon
  <2> QED
    BY <1>1, <2>4, <2>5, PushStep
<1>5. CASE ~pushRow.exists
  <2>1. pushers' = pushers
    BY <1>5 DEF Push!StartPusher
  <2>2. DOMAIN pushers' = Push!Pushers
    BY <2>1 DEF PushInv
  <2> QED
    BY <1>1, <2>1, <2>2, PushStep
<1> QED
    BY <1>4, <1>5

\* on_new_notifications
LEMMA PushNotified ==
    ASSUME PushInv, Push!OnNewNotifications
    PROVE  PushInv'
<1> DEFINE o == pushers[pool]
           x == [o EXCEPT !.max = latest]
<1>1. /\ UNCHANGED <<latest, receipt, removed, owed, pushRow>>
      /\ Push!Becomes(pool, Push!StartProcessing(x))
    BY DEF Push!OnNewNotifications
<1>2. ASSUME pool \in Push!Pushers
      PROVE  PusherOK(Push!StartProcessing(x), latest, Settled')
  <2>1. /\ PusherOK(o, latest, Settled') /\ o \in PusherType /\ latest \in Nat
    BY <1>1, <1>2, ThePusher
  <2> HIDE DEF o
  <2>2. /\ x \in PusherType /\ x.at = o.at /\ x.last = o.last /\ x.todo = o.todo /\ x.max = latest
        /\ x.startingMax = o.startingMax
    BY <2>1 DEF PusherType
  <2> HIDE DEF x
  <2>3. o.startingMax <= latest /\ latest <= latest
    BY <2>1 DEF PusherOK
  <2>4. PusherOK(x, latest, Settled')
    BY <2>1, <2>2, <2>3, PusherIrrelevant
  <2> QED
    BY <2>1, <2>4, PusherTurns
<1> HIDE DEF x
<1> QED
    BY <1>1, <1>2, OnePusherStep

\* on_timer
LEMMA PushTimer ==
    ASSUME PushInv, NEW p \in Push!Pushers, Push!OnTimer(p)
    PROVE  PushInv'
<1> DEFINE o == pushers[p]
           x == [o EXCEPT !.timed = FALSE]
           y == [o EXCEPT !.oldTimers = @ - 1]
<1>1. UNCHANGED <<latest, receipt, removed, owed, pushRow>>
    BY DEF Push!OnTimer
<1>2. Push!Becomes(p, Push!StartProcessing(x)) \/ Push!Becomes(p, Push!StartProcessing(y))
    BY DEF Push!OnTimer
<1>3. /\ PusherOK(o, latest, Settled') /\ o \in PusherType /\ latest \in Nat
    BY <1>1, ThePusher
<1>4. o.max <= latest /\ o.startingMax <= latest
    BY <1>3 DEF PusherOK
<1> HIDE DEF o
<1>5. /\ x \in PusherType /\ x.at = o.at /\ x.last = o.last /\ x.todo = o.todo /\ x.max = o.max
      /\ x.startingMax = o.startingMax
    BY <1>3 DEF PusherType
<1>6. /\ y \in PusherType /\ y.at = o.at /\ y.last = o.last /\ y.todo = o.todo /\ y.max = o.max
      /\ y.startingMax = o.startingMax
    BY <1>3 DEF PusherType
<1> HIDE DEF x, y
<1>7. PusherOK(x, latest, Settled') /\ PusherOK(y, latest, Settled')
    BY <1>3, <1>4, <1>5, <1>6, PusherIrrelevant
<1>8. /\ PusherOK(Push!StartProcessing(x), latest, Settled')
      /\ PusherOK(Push!StartProcessing(y), latest, Settled')
    BY <1>3, <1>7, PusherTurns
<1> QED
    BY <1>1, <1>2, <1>8, OnePusherStep

\* The push actions that are fetched begin right after the position, the
\* receipt or the last row that was deleted, whichever is latest, and follow
\* each other.
LEMMA UnprocessedProp ==
    ASSUME PushConstants, NEW last \in Nat, receipt \in Nat, removed \in Nat, NEW upto \in Nat,
           NEW from, from = Push!Max({last, removed}),
           NEW todo, todo = Push!Unprocessed(from, upto), todo # <<>>
    PROVE  /\ todo \in Seq(Nat)
           /\ \A k \in DOMAIN todo : todo[k] <= upto /\ todo[k] = todo[1] + k - 1
           /\ \A e \in Nat : e < todo[1] => e <= last \/ e <= receipt \/ e <= removed
<1>0. \A S : Push!Max(S) = Max(S) /\ Push!Min(S) = Min(S)
    BY Zenon DEF Push!Max, Push!Min, Max, Min
<1>1. ASSUME NEW u \in Nat, NEW v \in Nat
      PROVE  Max({u, v}) \in Nat /\ u <= Max({u, v}) /\ v <= Max({u, v}) /\ (Max({u, v}) = u \/ Max({u, v}) = v)
  <2>1. {u, v} \in SUBSET Nat /\ {u, v} # {} /\ u + v \in Nat /\ \A x \in {u, v} : x <= u + v
    OBVIOUS
  <2>2. Max({u, v}) \in {u, v} /\ \A x \in {u, v} : x <= Max({u, v})
    BY <2>1, MaxNat
  <2> QED
    BY <2>2
<1>2. from \in Nat /\ (from = last \/ from = removed)
    BY <1>0, <1>1
<1> DEFINE first == Max({from, receipt})
           m == Min({from + PushLimit, upto})
<1>3. first \in Nat
    BY <1>1, <1>2
<1>3a. first = last \/ first = receipt \/ first = removed
    BY <1>1, <1>2
<1>4. m \in Nat /\ m <= upto
  <2>1. {from + PushLimit, upto} \in SUBSET Nat
    BY <1>2 DEF PushConstants
  <2> QED
    BY <2>1, MinNat
<1>5. todo = [k \in 1 .. m - first |-> first + k]
    BY <1>0 DEF Push!Unprocessed
<1> HIDE DEF first, m
<1>6. m - first \in Nat /\ m - first >= 1
  <2>1. CASE m - first >= 1
    BY <2>1, <1>3, <1>4
  <2>2. CASE ~(m - first >= 1)
    <3>1. 1 .. m - first = 1..0
        BY <2>2, <1>3, <1>4
    <3>2. todo = [k \in 1..0 |-> first + k]
        BY <3>1, <1>5
    <3>3. todo \in [1..0 -> Nat]
        BY <3>2, <1>3
    <3>4. todo \in Seq(Nat) /\ Len(todo) = 0
        BY <3>3
    <3> QED
        BY <3>4
  <2> QED
    BY <2>1, <2>2
<1>7. DOMAIN todo = 1 .. m - first /\ \A k \in 1 .. m - first : todo[k] = first + k
    BY <1>5
<1>8. todo \in Seq(Nat)
  <2>1. \A k \in 1 .. m - first : first + k \in Nat
    BY <1>3, <1>6
  <2>2. todo \in [1 .. m - first -> Nat]
    BY <2>1, <1>5
  <2> QED
    BY <1>6, <2>2, FunctionIsSeq
<1>9. todo[1] = first + 1
  <2>1. 1 \in 1 .. m - first
    BY <1>6
  <2> QED
    BY <2>1, <1>7, Zenon
<1>10. ASSUME NEW k \in DOMAIN todo
       PROVE  todo[k] <= upto /\ todo[k] = todo[1] + k - 1
  <2>1. k \in 1 .. m - first /\ todo[k] = first + k
    BY <1>7
  <2>2. first + k <= upto /\ first + k = (first + 1) + k - 1
    BY <2>1, <1>3, <1>4
  <2> QED
    BY <2>1, <2>2, <1>9, Zenon
<1>11. \A e \in Nat : e < first + 1 => e <= first
    BY <1>3
<1>12. \A e \in Nat : e < todo[1] => e <= last \/ e <= receipt \/ e <= removed
    BY <1>3a, <1>9, <1>11, Zenon
<1> QED
    BY <1>8, <1>10, <1>12

\* _unsafe_process reads the push actions.
LEMMA PushFetch ==
    ASSUME PushConstants, PushInv, NEW p \in Push!Pushers, Push!Fetch(p)
    PROVE  PushInv'
<1> DEFINE o == pushers[p]
           from == Push!RowsAfter(o)
           todo == Push!Unprocessed(from, o.startingMax)
           x == [o EXCEPT !.at = "push", !.todo = todo]
<1>1. /\ UNCHANGED <<latest, receipt, removed, owed, pushRow>> /\ o.at = "fetch"
      /\ Push!Becomes(p, IF todo = <<>> THEN Push!EndOfRound(o) ELSE x)
    BY DEF Push!Fetch
<1>2. /\ PusherOK(o, latest, Settled') /\ o \in PusherType
      /\ latest \in Nat /\ receipt \in Nat /\ removed \in Nat
    BY <1>1, ThePusher
<1>3. from = Push!Max({o.last, removed})
    BY DEF Push!RowsAfter
<1> HIDE DEF o, from
<1>4. CASE todo = <<>>
    BY <1>1, <1>2, <1>4, PusherTurns, OnePusherStep
<1>5. CASE todo # <<>>
  <2>1. o.last \in Nat /\ o.startingMax \in Nat
    BY <1>2 DEF PusherType
  <2>2. o.last <= latest /\ o.max <= latest /\ o.startingMax <= latest
    BY <1>2 DEF PusherOK
  <2> HIDE DEF todo
  <2>3. /\ todo \in Seq(Nat)
        /\ \A k \in DOMAIN todo : todo[k] <= o.startingMax /\ todo[k] = todo[1] + k - 1
        /\ \A e \in Nat : e < todo[1] => e <= o.last \/ e <= receipt \/ e <= removed
    BY <1>2, <1>3, <1>5, <2>1, UnprocessedProp DEF todo
  <2>4. /\ x \in PusherType /\ x.at = "push" /\ x.last = o.last /\ x.todo = todo /\ x.max = o.max
        /\ x.startingMax = o.startingMax
    BY <1>2, <2>3 DEF PusherType
  <2> HIDE DEF x
  <2>5. \A k \in DOMAIN todo : todo[k] <= latest
    <3>1. \A k \in DOMAIN todo : todo[k] \in Nat
        BY <2>3
    <3> QED
        BY <3>1, <2>1, <2>2, <2>3, <1>2
  <2>6. \A e \in Nat : e < todo[1] => e \in Settled'
    <3>1. \A e \in Nat : e <= receipt \/ e <= removed => e \in Settled'
      <4>1. \A e \in owed : receipt < e /\ removed < e
        BY DEF PushInv
      <4>2. \A e \in Nat : e <= receipt \/ e <= removed => ~(receipt < e /\ removed < e)
        BY <1>2
      <4> QED
        BY <1>1, <4>1, <4>2, Zenon DEF Settled
    <3>2. \A e \in Nat : e <= o.last => e \in Settled'
        BY <1>2 DEF PusherOK
    <3> QED
        BY <3>1, <3>2, <2>3, Zenon
  <2>7. PusherOK(x, latest, Settled')
    <3>1. \A k \in DOMAIN x.todo : x.todo[k] <= latest /\ x.todo[k] = x.todo[1] + k - 1
        BY <2>3, <2>4, <2>5, Zenon
    <3>2. \A e \in Nat : e <= x.last => e \in Settled'
        BY <1>2, <2>4, Zenon DEF PusherOK
    <3> QED
        BY <3>1, <3>2, <1>5, <2>2, <2>4, <2>6 DEF PusherOK
  <2> QED
    BY <1>1, <1>5, <2>7, OnePusherStep
<1> QED
    BY <1>4, <1>5

\* An object with another state of the same kind
LEMMA PusherMoves ==
    ASSUME NEW o, NEW n \in Nat, NEW H, PusherOK(o, n, H),
           NEW a, NEW f \in {"no", "recent", "long"},
           \/ o.at = "push" /\ a \in {"failing", "failed"}
           \/ o.at = "failing" /\ a = "failed"
           \/ o.at \in {"store", "skip"} /\ a = "clear"
    PROVE  PusherOK([o EXCEPT !.at = a, !.failing = f], n, H)
<1> DEFINE x == [o EXCEPT !.at = a, !.failing = f]
<1>1. o \in PusherType /\ o.last <= n /\ o.max <= n /\ o.startingMax <= n
    BY DEF PusherOK
<1>2. a \in {"failing", "failed", "clear"}
    OBVIOUS
<1>3. /\ x \in PusherType /\ x.at = a /\ x.last = o.last /\ x.todo = o.todo /\ x.max = o.max
      /\ x.startingMax = o.startingMax
    BY <1>1, <1>2 DEF PusherType
<1> HIDE DEF x
<1>4. \A k \in DOMAIN x.todo : x.todo[k] <= n /\ x.todo[k] = x.todo[1] + k - 1
    BY <1>3, Zenon DEF PusherOK
<1>5. \A e \in Nat : e <= x.last => e \in H
    BY <1>3, Zenon DEF PusherOK
<1>6. x.at \in {"push", "remove", "failing", "failed"} =>
          x.todo # <<>> /\ \A e \in Nat : e < x.todo[1] => e \in H
  <2>1. x.at \in {"push", "remove", "failing", "failed"} => o.at \in {"push", "failing"}
    BY <1>3
  <2> QED
    BY <2>1, <1>3 DEF PusherOK
<1>7. x.at # "remove" /\ (x.at \in {"store", "clear", "skip"} => x.todo # <<>> /\ x.last = x.todo[1])
  <2>1. x.at \in {"store", "clear", "skip"} => o.at \in {"store", "skip"}
    BY <1>3
  <2> QED
    BY <2>1, <1>2, <1>3 DEF PusherOK
<1>8. PusherOK(x, n, H)
    BY <1>1, <1>3, <1>4, <1>5, <1>6, <1>7 DEF PusherOK
<1> QED
    BY <1>8 DEF x

\* The gateway takes a notification, or rejects the key with it.
LEMMA PushPushed ==
    ASSUME PushInv, NEW p \in Push!Pushers, Push!PushSent(p) \/ Push!PushRejected(p)
    PROVE  PushInv'
<1> DEFINE o == pushers[p]
<1>1. /\ UNCHANGED <<latest, receipt, removed, pushRow>> /\ o.at = "push"
      /\ owed' = owed \ {Head(o.todo)}
    BY DEF Push!PushSent, Push!PushRejected
<1>2. /\ PusherOK(o, latest, Settled') /\ o \in PusherType
      /\ latest \in Nat /\ receipt \in Nat
    BY <1>1, ThePusher
<1>3. o.todo \in Seq(Nat) /\ o.todo # <<>>
    BY <1>1, <1>2 DEF PusherType, PusherOK
<1>4. Head(o.todo) = o.todo[1] /\ o.todo[1] \in Nat
    BY <1>3
<1>5. o.todo[1] \in Settled'
    BY <1>1, <1>4 DEF Settled
<1>6. CASE Push!PushSent(p)
  <2>1. Push!Becomes(p, Push!Processed(o))
    BY <1>6 DEF Push!PushSent
  <2>2. PusherOK(Push!Processed(o), latest, Settled')
    BY <1>1, <1>2, <1>5, PusherProcessed DEF Push!Processed
  <2> HIDE DEF o
  <2> QED
    BY <1>1, <2>1, <2>2, OnePusherStep
<1>7. CASE Push!PushRejected(p)
  <2> DEFINE Obj(q) == IF q = pool THEN Push!Stopped(pushers[q]) ELSE pushers[q]
  <2>1. pushers' = [q \in Push!Pushers |-> IF q = p THEN [Obj(q) EXCEPT !.at = "remove"] ELSE Obj(q)]
    BY <1>7 DEF Push!PushRejected
  <2>2. DOMAIN pushers' = Push!Pushers
    BY <2>1
  <2>3. ASSUME NEW q \in Push!Pushers
        PROVE  PusherOK(Obj(q), latest, Settled')
    <3>1. PusherOK(pushers[q], latest, Settled')
        BY <1>1, ThePusher
    <3>2. PusherOK(Push!Stopped(pushers[q]), latest, Settled')
        BY <1>2, <3>1, PusherTurns
    <3> QED
        BY <3>1, <3>2
  <2>4. Obj(p).at = o.at /\ Obj(p).todo = o.todo
    BY <1>2 DEF Push!Stopped, PusherType
  <2> DEFINE y == Obj(p)
             x == [y EXCEPT !.at = "remove"]
  <2>5. PusherOK(y, latest, Settled') /\ y.at = "push" /\ y.todo[1] \in Settled'
    BY <1>1, <1>5, <2>3, <2>4
  <2>6. \A q \in Push!Pushers : IF q = p THEN pushers'[q] = x ELSE pushers'[q] = Obj(q)
    BY <2>1
  <2> HIDE DEF o, y, Obj
  <2>7. y \in PusherType
    BY <2>5 DEF PusherOK
  <2>8. /\ x \in PusherType /\ x.at = "remove" /\ x.last = y.last /\ x.todo = y.todo /\ x.max = y.max
        /\ x.startingMax = y.startingMax
    BY <2>7 DEF PusherType
  <2> HIDE DEF x
  <2>9. PusherOK(x, latest, Settled')
    <3>1. \A k \in DOMAIN x.todo : x.todo[k] <= latest /\ x.todo[k] = x.todo[1] + k - 1
        BY <2>5, <2>8, Zenon DEF PusherOK
    <3>2. \A e \in Nat : e <= x.last => e \in Settled'
        BY <2>5, <2>8, Zenon DEF PusherOK
    <3> QED
        BY <3>1, <3>2, <2>5, <2>8 DEF PusherOK
  <2>10. \A q \in Push!Pushers : PusherOK(pushers'[q], latest, Settled')
    BY <2>3, <2>6, <2>9, Zenon
  <2> QED
    BY <1>1, <2>2, <2>10, PushStep
<1> QED
    BY <1>6, <1>7

\* The row is deleted.
LEMMA PushDelete ==
    ASSUME PushInv, NEW p \in Push!Pushers, Push!DeletePusher(p)
    PROVE  PushInv'
<1> DEFINE o == pushers[p]
<1>1. /\ UNCHANGED <<latest, receipt, removed, owed>> /\ o.at = "remove"
      /\ pushRow' = Push!NoRow /\ Push!Becomes(p, Push!Processed(o))
    BY DEF Push!DeletePusher
<1>2. /\ PusherOK(o, latest, Settled') /\ o \in PusherType
      /\ latest \in Nat /\ receipt \in Nat
    BY <1>1, ThePusher
<1>3. o.todo[1] \in Settled'
    BY <1>1, <1>2 DEF PusherOK
<1>4. PusherOK(Push!Processed(o), latest, Settled')
    BY <1>1, <1>2, <1>3, PusherProcessed DEF Push!Processed
<1>5. RowOK(pushRow', latest, Settled')
    BY <1>1, <1>2, NoRowOK
<1> HIDE DEF o
<1> QED
    BY <1>1, <1>4, <1>5, OnePusherStep

\* A row with another position, or failing_since
LEMMA RowMoves ==
    ASSUME PushInv, owed' \subseteq owed,
           NEW p \in Push!Pushers, NEW f \in {"no", "recent", "long"}
    PROVE  /\ RowOK([pushRow EXCEPT !.last = pushers[p].last], latest, Settled')
           /\ RowOK([pushRow EXCEPT !.failing = f], latest, Settled')
<1> DEFINE o == pushers[p]
           x == [pushRow EXCEPT !.last = o.last]
           y == [pushRow EXCEPT !.failing = f]
<1>1. /\ PusherOK(o, latest, Settled') /\ o \in PusherType /\ Settled \subseteq Settled'
      /\ latest \in Nat
    BY ThePusher
<1>2. RowOK(pushRow, latest, Settled)
    BY DEF PushInv
<1>3. pushRow \in [exists : BOOLEAN, last : 0..latest, failing : {"no", "recent", "long"}]
    BY <1>2 DEF RowOK
<1>4. o.last \in 0..latest
    BY <1>1 DEF PusherOK, PusherType
<1>5. \A e \in Nat : e <= o.last => e \in Settled'
    BY <1>1, Zenon DEF PusherOK
<1> HIDE DEF o
<1>6. /\ x \in [exists : BOOLEAN, last : 0..latest, failing : {"no", "recent", "long"}] /\ x.last = o.last
      /\ y \in [exists : BOOLEAN, last : 0..latest, failing : {"no", "recent", "long"}] /\ y.last = pushRow.last
      /\ y.exists = pushRow.exists
    BY <1>3, <1>4
<1> HIDE DEF x, y
<1>7. RowOK(x, latest, Settled')
    BY <1>5, <1>6, Zenon DEF RowOK
<1>8. RowOK(y, latest, Settled')
    BY <1>1, <1>2, <1>6, Zenon DEF RowOK
<1> QED
    BY <1>7, <1>8 DEF x, y, o

\* The position is stored, and failing_since with it.
LEMMA PushStores ==
    ASSUME PushInv, NEW p \in Push!Pushers,
           Push!StorePosition(p) \/ Push!StoreSkipped(p) \/ Push!ClearFailing(p) \/ Push!StoreFailing(p)
    PROVE  PushInv'
<1> DEFINE o == pushers[p]
           cleared == [o EXCEPT !.at = "clear", !.failing = "no"]
           failed == [o EXCEPT !.at = "failed", !.failing = o.failing]
           moved == [pushRow EXCEPT !.last = o.last]
<1>1. UNCHANGED <<latest, receipt, removed, owed>>
    BY DEF Push!StorePosition, Push!StoreSkipped, Push!ClearFailing, Push!StoreFailing
<1>2. /\ PusherOK(o, latest, Settled') /\ o \in PusherType
      /\ latest \in Nat /\ receipt \in Nat
    BY <1>1, ThePusher
<1>3. RowOK(moved, latest, Settled')
    BY <1>1, RowMoves
<1>4. o.failing \in {"no", "recent", "long"}
    BY <1>2 DEF PusherType
<1>5. /\ RowOK([pushRow EXCEPT !.failing = "no"], latest, Settled')
      /\ RowOK([pushRow EXCEPT !.failing = o.failing], latest, Settled')
    BY <1>1, <1>4, RowMoves
<1>6. CASE Push!StorePosition(p)
  <2>1. o.at = "store"
    BY <1>6 DEF Push!StorePosition
  <2>2. \/ pushRow' = moved /\ Push!Becomes(p, Push!NextAction(o))
        \/ pushRow' = moved /\ Push!Becomes(p, cleared)
        \/ pushRow' = pushRow /\ Push!Becomes(p, Push!EndOfRound(Push!Stopped(o)))
    BY <1>6, Zenon DEF Push!StorePosition
  <2>3. PusherOK(Push!NextAction(o), latest, Settled')
    BY <1>2, <2>1, PusherNextAction
  <2>4. PusherOK(cleared, latest, Settled')
    BY <1>2, <2>1, PusherMoves
  <2>5. PusherOK(Push!Stopped(o), latest, Settled')
    BY <1>2, PusherTurns
  <2>6. PusherOK(Push!EndOfRound(Push!Stopped(o)), latest, Settled')
    BY <1>2, <2>5, PusherTurns
  <2> HIDE DEF o, cleared, moved
  <2> QED
    BY <1>1, <1>3, <2>2, <2>3, <2>4, <2>6, OnePusherStep
<1>7. CASE Push!StoreSkipped(p)
  <2>1. o.at = "skip"
    BY <1>7 DEF Push!StoreSkipped
  <2>2. \/ pushRow' = moved /\ Push!Becomes(p, cleared)
        \/ pushRow' = pushRow /\ Push!Becomes(p, Push!EndOfRound(o))
    BY <1>7, Zenon DEF Push!StoreSkipped
  <2>3. PusherOK(cleared, latest, Settled')
    BY <1>2, <2>1, PusherMoves
  <2>4. PusherOK(Push!EndOfRound(o), latest, Settled')
    BY <1>2, PusherTurns
  <2> HIDE DEF o, cleared, moved
  <2> QED
    BY <1>1, <1>3, <2>2, <2>3, <2>4, OnePusherStep
<1>8. CASE Push!ClearFailing(p)
  <2>1. /\ o.at = "clear" /\ Push!Becomes(p, Push!NextAction(o))
        /\ pushRow' = pushRow \/ pushRow' = [pushRow EXCEPT !.failing = "no"]
    BY <1>8, Zenon DEF Push!ClearFailing
  <2>2. PusherOK(Push!NextAction(o), latest, Settled')
    BY <1>2, <2>1, PusherNextAction
  <2> HIDE DEF o
  <2> QED
    BY <1>1, <1>5, <2>1, <2>2, OnePusherStep
<1>9. CASE Push!StoreFailing(p)
  <2>1. /\ o.at = "failing" /\ Push!Becomes(p, [o EXCEPT !.at = "failed"])
        /\ pushRow' = pushRow \/ pushRow' = [pushRow EXCEPT !.failing = o.failing]
    BY <1>9, Zenon DEF Push!StoreFailing
  <2>2. failed = [o EXCEPT !.at = "failed"]
    BY <1>2 DEF PusherType
  <2>3. PusherOK(failed, latest, Settled')
    BY <1>2, <1>4, <2>1, PusherMoves
  <2> HIDE DEF o, failed
  <2> QED
    BY <1>1, <1>5, <2>1, <2>2, <2>3, OnePusherStep
<1> QED
    BY <1>6, <1>7, <1>8, <1>9

\* A request fails, and what follows
LEMMA PushFailed ==
    ASSUME PushInv, NEW p \in Push!Pushers,
           Push!PushFails(p) \/ Push!Delay(p) \/ Push!ProcessFails(p)
    PROVE  PushInv'
<1> DEFINE o == pushers[p]
<1>1. UNCHANGED <<latest, receipt, removed, owed, pushRow>>
    BY DEF Push!PushFails, Push!Delay, Push!ProcessFails
<1>2. /\ PusherOK(o, latest, Settled') /\ o \in PusherType
      /\ latest \in Nat /\ receipt \in Nat
    BY <1>1, ThePusher
<1>3. o.failing \in {"no", "recent", "long"}
    BY <1>2 DEF PusherType
<1>4. CASE Push!PushFails(p)
  <2> DEFINE recent == [o EXCEPT !.at = "failing", !.failing = "recent"]
             failed == [o EXCEPT !.at = "failed", !.failing = o.failing]
  <2>1. /\ o.at = "push"
        /\ Push!Becomes(p, recent) \/ Push!Becomes(p, [o EXCEPT !.at = "failed"])
    BY <1>4, Zenon DEF Push!PushFails
  <2>2. failed = [o EXCEPT !.at = "failed"]
    BY <1>2 DEF PusherType
  <2>3. PusherOK(failed, latest, Settled') /\ PusherOK(recent, latest, Settled')
    BY <1>2, <1>3, <2>1, PusherMoves
  <2> HIDE DEF o, failed, recent
  <2> QED
    BY <1>1, <2>1, <2>2, <2>3, OnePusherStep
<1>5. CASE Push!Delay(p)
  <2> DEFINE n == IF o.timed THEN o.oldTimers + 1 ELSE o.oldTimers
             x == [o EXCEPT !.timed = TRUE, !.oldTimers = IF o.timed THEN @ + 1 ELSE @]
  <2>1. Push!Becomes(p, Push!EndOfRound(x))
    BY <1>5, Zenon DEF Push!Delay
  <2>2. n \in Int
    <3>1. o.oldTimers \in Int
        BY <1>2 DEF PusherType
    <3>2. o.oldTimers + 1 \in Int
        BY <3>1
    <3> QED
        BY <3>1, <3>2, Zenon
  <2>3. x = [o EXCEPT !.timed = TRUE, !.oldTimers = n]
    BY <1>2 DEF PusherType
  <2> HIDE DEF n, x
  <2>4. /\ x \in PusherType /\ x.at = o.at /\ x.last = o.last /\ x.todo = o.todo /\ x.max = o.max
        /\ x.startingMax = o.startingMax
    BY <1>2, <2>2, <2>3 DEF PusherType
  <2>5. PusherOK(x, latest, Settled')
    <3>1. o.max <= latest /\ o.startingMax <= latest
        BY <1>2 DEF PusherOK
    <3> HIDE DEF o
    <3> QED
        BY <1>2, <2>4, <3>1, PusherIrrelevant
  <2>6. PusherOK(Push!EndOfRound(x), latest, Settled')
    BY <1>2, <2>5, PusherTurns
  <2> QED
    BY <1>1, <2>1, <2>6, OnePusherStep
<1>6. CASE Push!ProcessFails(p)
  <2>1. Push!Becomes(p, Push!EndOfRound(o))
    BY <1>6 DEF Push!ProcessFails
  <2>2. PusherOK(Push!EndOfRound(o), latest, Settled')
    BY <1>2, PusherTurns
  <2> HIDE DEF o
  <2> QED
    BY <1>1, <2>1, <2>2, OnePusherStep
<1> QED
    BY <1>4, <1>5, <1>6

\* "Giving up on a notification"
LEMMA PushGivesUp ==
    ASSUME PushInv, NEW p \in Push!Pushers, Push!GiveUp(p)
    PROVE  PushInv'
<1> DEFINE o == pushers[p]
           x == [o EXCEPT !.at = "skip", !.last = Head(o.todo)]
<1>1. /\ UNCHANGED <<latest, receipt, removed, pushRow>> /\ o.at = "failed"
      /\ owed' = owed \ {Head(o.todo)} /\ Push!Becomes(p, x)
    BY DEF Push!GiveUp
<1>2. /\ PusherOK(o, latest, Settled') /\ o \in PusherType
      /\ latest \in Nat /\ receipt \in Nat
    BY <1>1, ThePusher
<1>3. o.todo \in Seq(Nat) /\ o.todo # <<>>
    BY <1>1, <1>2 DEF PusherType, PusherOK
<1>4. Head(o.todo) = o.todo[1] /\ o.todo[1] \in Nat
    BY <1>3
<1>5. o.todo[1] \in Settled'
    BY <1>1, <1>4 DEF Settled
<1>6. PusherOK(x, latest, Settled')
    BY <1>1, <1>2, <1>5, PusherProcessed
<1> HIDE DEF o, x
<1> QED
    BY <1>1, <1>6, OnePusherStep

\* The stored position steps over no notification: each event since the
\* pusher was added, up to it, was taken by the gateway, or read, or given up,
\* or its row was deleted when it was more than a day old.
THEOREM NothingIsSteppedOver ==
    ASSUME PushConstants
    PROVE  Push!Spec => []NothingSteppedOver
<1>1. ASSUME Push!Init
      PROVE  PushInv
    BY <1>1, PushInitial
<1>2. ASSUME PushInv, [Push!Next]_Push!vars
      PROVE  PushInv'
  <2>1. CASE UNCHANGED Push!vars
    <3>1. /\ UNCHANGED <<latest, receipt, removed, owed, pushRow, pushers>>
          /\ DOMAIN pushers' = Push!Pushers
        BY <1>2, <2>1 DEF Push!vars, PushInv
    <3> QED
        BY <1>2, <3>1, PushStep
  <2>2. CASE Push!NewEvent \/ Push!ReadReceipt \/ Push!RemoveOldPushActions
    BY <1>2, <2>2, PushOutside
  <2>3. CASE Push!TimePasses
    BY <1>2, <2>3, PushTimePasses
  <2>4. CASE Push!AddOrUpdatePusher
    BY <1>2, <2>4, PushAdd
  <2>5. CASE Push!StartPusher
    BY <1>2, <2>5, PushStart
  <2>6. CASE Push!OnNewNotifications
    BY <1>2, <2>6, PushNotified
  <2>7. ASSUME NEW p \in Push!Pushers, Push!OnTimer(p) \/ Push!Process(p) \/ Push!ProcessFails(p)
        PROVE  PushInv'
    <3>1. CASE Push!OnTimer(p)
        BY <1>2, <3>1, PushTimer
    <3>2. CASE Push!Fetch(p)
        BY <1>2, <3>2, PushFetch
    <3>3. CASE Push!PushSent(p) \/ Push!PushRejected(p)
        BY <1>2, <3>3, PushPushed
    <3>4. CASE Push!DeletePusher(p)
        BY <1>2, <3>4, PushDelete
    <3>5. CASE Push!StorePosition(p) \/ Push!StoreSkipped(p) \/ Push!ClearFailing(p) \/ Push!StoreFailing(p)
        BY <1>2, <3>5, PushStores
    <3>6. CASE Push!PushFails(p) \/ Push!Delay(p) \/ Push!ProcessFails(p)
        BY <1>2, <3>6, PushFailed
    <3>7. CASE Push!GiveUp(p)
        BY <1>2, <3>7, PushGivesUp
    <3> QED
        BY <2>7, <3>1, <3>2, <3>3, <3>4, <3>5, <3>6, <3>7 DEF Push!Process
  <2>8. CASE Push!Restart
    BY <1>2, <2>8, PushRestart
  <2> QED
    BY <1>2, <2>1, <2>2, <2>3, <2>4, <2>5, <2>6, <2>7, <2>8 DEF Push!Next
<1>3. ASSUME PushInv
      PROVE  NothingSteppedOver
  <2>1. latest \in Nat /\ owed \subseteq 1..latest /\ RowOK(pushRow, latest, Settled)
    BY <1>3 DEF PushInv
  <2>2. pushRow.last \in Nat
    BY <2>1 DEF RowOK
  <2> SUFFICES ASSUME pushRow.exists, NEW e \in owed, e <= pushRow.last
               PROVE  FALSE
    <3>1. \A e \in owed : e \in Nat
        BY <2>1
    <3>2. \A e \in owed : e > pushRow.last \/ e <= pushRow.last
        BY <2>2, <3>1
    <3> QED
        BY <3>2, Zenon DEF NothingSteppedOver, Push!NothingSteppedOver
  <2>3. e \in Nat
    BY <2>1
  <2>4. e \in Settled
    BY <2>1, <2>3, Zenon DEF RowOK
  <2> QED
    BY <2>4 DEF Settled
<1> QED
    BY <1>1, <1>2, <1>3, PTL DEF Push!Spec
=============================================================================
