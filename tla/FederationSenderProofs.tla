------------------------ MODULE FederationSenderProofs ------------------------
(***************************************************************************)
(* Proofs about the federation sender, for any number of rooms, events,    *)
(* events in a round, faults, back-offs and restarts: its types, and that  *)
(* no event given to the queue of the destination in stream order is       *)
(* forgotten.                                                              *)
(*                                                                         *)
(* An event that is the newest so far when it is handed over has nothing   *)
(* newer in the queue, in destination_rooms or recorded as sent.  From     *)
(* then on whatever is recorded as sent is either below the row of its     *)
(* room, or was sent after the event itself.                               *)
(***************************************************************************)
EXTENDS FederationSender, Extrema, FiniteSetTheorems, TLAPS

-----------------------------------------------------------------------------
(* The inductive invariant. *)

\* The types, with numbers that stand for events in the range of events, and
\* what the transmission loop has in hand.
DatabaseType ==
    /\ events \in Seq(Rooms) /\ Len(events) <= MaxEvents
    /\ outPos \in 0..Len(events)
    /\ destinationRooms \in [Rooms -> 0..Len(events)]
    /\ \A r \in Rooms : destinationRooms[r] # 0 => events[destinationRooms[r]] = r
    /\ lastSuccessful \in {Unknown} \union (0..Len(events))
    /\ retry \in [interval : {"none", "short", "long"}, wait : {"due", "soon", "far"}]

HandlerType == [events : Seq(1..Len(events)) \ {<<>>}, stored : BOOLEAN, orphan : BOOLEAN]

SenderType ==
    /\ processing \in {"idle", "query", "handle"}
    /\ nextToken \in 0..Len(events)
    /\ handlers \subseteq HandlerType

QueueType ==
    /\ queue \in Seq(1..Len(events)) /\ todo \in Seq(1..Len(events))
    /\ catchingUp \in BOOLEAN /\ newData \in BOOLEAN /\ firstCheck \in BOOLEAN
    /\ lastSkipped \in 0..Len(events)
    /\ lastKnown \in {Unknown} \union (0..Len(events))
    /\ loop \in {"idle", "limiter", "read_last", "look", "looked", "catch_up", "record", "select",
                 "send", "mark"}
    /\ loop \in {"catch_up", "record", "send", "mark"} => todo # <<>>
    /\ loop \in {"look", "looked", "catch_up", "record"} => lastKnown # Unknown

HistoryType ==
    /\ delivered \subseteq 1..Len(events)
    /\ newest \in 0..Len(events) /\ offered \subseteq 1..Len(events)
    /\ faults \in 0..MaxFaults /\ longBackOffs \in 0..MaxLongBackOffs /\ crashes \in 0..MaxCrashes

TypeInv == DatabaseType /\ SenderType /\ QueueType /\ HistoryType

\* What the queue, the loop and the tables hold is not newer than newest.
Stored == {destinationRooms[r] : r \in Rooms}
DealtWith == Range(queue) \union Range(todo) \union Stored \union {lastSuccessful, lastKnown}

UpToNewest ==
    /\ \A x \in DealtWith : x <= newest
    /\ \A h \in handlers : h.stored => Head(h.events) <= newest

\* What the transmission loop has in hand, and what it has recorded.
LoopState ==
    /\ loop \in {"select", "send", "mark"} => ~catchingUp
    /\ loop \in {"read_last", "look", "looked", "catch_up", "record"} => catchingUp
    /\ loop = "send" => Len(todo) <= Len(queue) /\ \A i \in DOMAIN todo : todo[i] = queue[i]
    /\ loop = "record" => lastKnown = Head(todo)
    /\ loop = "mark" => \A i \in DOMAIN todo : todo[i] \in delivered
    /\ \A x \in {lastSuccessful, lastKnown} : x > 0 => Reached(x)
    /\ lastSuccessful = Unknown => offered = {}

\* When any of s is recorded as sent, e has been reached by then, or is above
\* the record.
Covered(s, e) ==
    \A j \in DOMAIN s :
        \/ s[j] < destinationRooms[events[e]]
        \/ \E i \in 1..j : events[s[i]] = events[e] /\ s[i] >= e

\* Catch-up is not about to end: it has not looked, or the event was skipped
\* after it looked.
CatchUpGoesOn(e) ==
    catchingUp /\ (loop = "looked" /\ todo = <<>> => lastKnown < e /\ e <= lastSkipped)

\* What holds for an event until it is reached.
Pending(e) ==
    /\ destinationRooms[events[e]] > lastSuccessful
    /\ destinationRooms[events[e]] > lastKnown
    /\ Covered(todo, e)
    /\ \/ Queued(e) /\ Covered(queue, e)
       \/ CatchUpGoesOn(e)

Kept == \A e \in offered : destinationRooms[events[e]] >= e /\ (Reached(e) \/ Pending(e))

FedInv == TypeInv /\ UpToNewest /\ LoopState /\ Kept

-----------------------------------------------------------------------------
(* InOrder. *)

RankIn(S, e) == Cardinality({f \in S : f <= e})

LEMMA RankType ==
    ASSUME NEW S, IsFiniteSet(S), NEW e
    PROVE  IsFiniteSet({f \in S : f <= e}) /\ RankIn(S, e) \in Nat /\ RankIn(S, e) <= Cardinality(S)
<1>1. {f \in S : f <= e} \subseteq S
  OBVIOUS
<1> QED
  BY <1>1, FS_Subset, FS_CardinalityType DEF RankIn

\* Ranks are in the order of the elements.
LEMMA RankGrows ==
    ASSUME NEW S \in SUBSET Nat, IsFiniteSet(S), NEW e \in S, NEW f \in S, e < f
    PROVE  RankIn(S, e) < RankIn(S, f)
<1> DEFINE A == {x \in S : x <= e}
           B == {x \in S : x <= f}
<1>0. \A x \in S : x \in Nat
  OBVIOUS
<1>1. A \subseteq B \ {f}
  <2> SUFFICES ASSUME NEW x \in A PROVE x \in B \ {f}
    OBVIOUS
  <2>1. x \in Nat /\ e \in Nat /\ f \in Nat /\ x <= e
    BY <1>0
  <2>2. x <= f /\ x # f
    BY <2>1
  <2> QED
    BY <2>2
<1>2. f \in B
  BY SMT
<1>3. IsFiniteSet(A) /\ IsFiniteSet(B)
  BY RankType
<1>4. RankIn(S, e) = Cardinality(A) /\ RankIn(S, f) = Cardinality(B)
  BY DEF RankIn
<1> HIDE DEF A, B
<1>5. IsFiniteSet(B \ {f}) /\ Cardinality(B \ {f}) = Cardinality(B) - 1
  BY <1>2, <1>3, FS_RemoveElement
<1>6. Cardinality(A) <= Cardinality(B \ {f})
  BY <1>1, <1>5, FS_Subset
<1>7. Cardinality(A) \in Nat /\ Cardinality(B) \in Nat
  BY <1>3, FS_CardinalityType
<1> QED
  BY <1>4, <1>5, <1>6, <1>7

\* Every rank up to the size of the set is some element's.
LEMMA RankExists ==
    ASSUME NEW n \in Nat, NEW S \in SUBSET (1..n), NEW i \in 1..Cardinality(S)
    PROVE  \E e \in S : RankIn(S, e) = i
<1> DEFINE A == {e \in S : RankIn(S, e) >= i}
<1>0. IsFiniteSet(S) /\ \A x \in S : x \in Nat /\ x <= n
  <2>1. IsFiniteSet(1..n)
    BY FS_Interval
  <2>2. IsFiniteSet(S)
    BY <2>1, FS_Subset
  <2> QED
    BY <2>2
<1>1. Cardinality(S) \in Nat /\ i \in Nat /\ i >= 1 /\ i <= Cardinality(S)
  BY <1>0, FS_CardinalityType
<1>2. S # {}
  BY <1>1, FS_EmptySet
<1>3. PICK b \in S : \A x \in S : x <= b
  <2>1. Max(S) \in S /\ \A x \in S : x <= Max(S)
    BY <1>0, <1>2, MaxNat
  <2> QED
    BY <2>1
<1>4. b \in A
  <2>1. {f \in S : f <= b} = S
    BY <1>3
  <2>2. RankIn(S, b) = Cardinality(S)
    BY <2>1 DEF RankIn
  <2> QED
    BY <2>2, <1>1
<1>5. A \in SUBSET Nat /\ A # {}
  BY <1>0, <1>4
<1>6. PICK m \in A : \A x \in A : m <= x
  BY <1>5, MinNat
<1>7. m \in S /\ m \in Nat /\ RankIn(S, m) >= i
  BY <1>0
<1> DEFINE B == {f \in S : f < m}
<1>8. IsFiniteSet(B) /\ Cardinality(B) \in Nat
  <2>1. B \subseteq S
    OBVIOUS
  <2> QED
    BY <2>1, <1>0, FS_Subset, FS_CardinalityType
<1>9. RankIn(S, m) = Cardinality(B) + 1
  <2>1. {f \in S : f <= m} = B \union {m}
    <3>1. ASSUME NEW f \in S PROVE f <= m <=> f < m \/ f = m
      BY <1>0, <1>7
    <3> QED
      BY <3>1, <1>7, Zenon
  <2>2. m \notin B
    BY <1>7
  <2> HIDE DEF B
  <2>3. Cardinality(B \union {m}) = Cardinality(B) + 1
    BY <2>2, <1>8, FS_AddElement
  <2> QED
    BY <2>1, <2>3 DEF RankIn
<1>10. ASSUME Cardinality(B) >= i
       PROVE  FALSE
  <2>1. B # {} /\ B \in SUBSET Nat /\ \A x \in B : x <= m
    <3>1. Cardinality(B) # 0
      BY <1>1, <1>8, <1>10
    <3>2. B # {}
      BY <3>1, FS_EmptySet
    <3>3. \A x \in S : x \in Nat /\ (x < m => x <= m)
      BY <1>0, <1>7
    <3> QED
      BY <3>2, <3>3, Zenon
  <2>2. PICK p \in B : \A x \in B : x <= p
    BY <2>1, <1>7, MaxNat
  <2>3. {f \in S : f <= p} = B
    <3>1. ASSUME NEW f \in S PROVE f <= p <=> f < m
      <4>1. f \in Nat /\ m \in Nat /\ p \in Nat /\ p < m /\ (f < m => f <= p)
        BY <2>2, <1>0, <1>7
      <4> QED
        BY <4>1
    <3> QED
      BY <3>1, Zenon
  <2>4. RankIn(S, p) >= i
    BY <2>3, <1>10 DEF RankIn
  <2>5. p \in A
    BY <2>2, <2>4
  <2> QED
    BY <2>2, <2>5, <1>6, <1>7
<1>11. RankIn(S, m) = i
  <2> DEFINE c == Cardinality(B)
  <2>1. c \in Nat /\ RankIn(S, m) = c + 1 /\ ~ (c >= i)
    BY <1>8, <1>9, <1>10
  <2> HIDE DEF c
  <2> QED
    BY <2>1, <1>1, <1>7
<1> QED
  BY <1>7, <1>11

\* InOrder lists elements of the set, and none before a smaller one.
LEMMA InOrderListed ==
    ASSUME NEW b \in Nat, NEW S \in SUBSET (1..b), NEW n \in Nat \ {0}
    PROVE  /\ InOrder(S, n) \in Seq(S)
           /\ S # {} => InOrder(S, n) # <<>>
           /\ \A w \in S : \A j \in DOMAIN InOrder(S, n) :
                 InOrder(S, n)[j] < w \/ \E i \in 1..j : InOrder(S, n)[i] = w
<1> DEFINE len == IF Cardinality(S) < n THEN Cardinality(S) ELSE n
           s == InOrder(S, n)
<1>1. IsFiniteSet(S) /\ Cardinality(S) \in Nat /\ (\A x \in S : x \in Nat)
  <2>1. IsFiniteSet(1..b)
    BY FS_Interval
  <2>2. IsFiniteSet(S)
    BY <2>1, FS_Subset
  <2> QED
    BY <2>2, FS_CardinalityType
<1>2. len \in Nat /\ len <= Cardinality(S)
  BY <1>1
<1>3. s = [i \in 1..len |-> CHOOSE e \in S : RankIn(S, e) = i]
  BY Zenon DEF InOrder, RankIn
<1>4. S # {} => len # 0
  <2>1. S # {} => Cardinality(S) # 0
    BY <1>1, FS_EmptySet
  <2> QED
    BY <2>1
<1> HIDE DEF len, s
<1>5. \A i \in 1..len : s[i] \in S /\ RankIn(S, s[i]) = i
  <2> SUFFICES ASSUME NEW i \in 1..len PROVE s[i] \in S /\ RankIn(S, s[i]) = i
    OBVIOUS
  <2>1. i \in 1..Cardinality(S)
    BY <1>1, <1>2
  <2>2. \E e \in S : RankIn(S, e) = i
    BY <2>1, RankExists
  <2>3. s[i] = CHOOSE e \in S : RankIn(S, e) = i
    BY <1>3
  <2> QED
    BY <2>2, <2>3, Zenon
<1>6. s \in Seq(S) /\ Len(s) = len /\ DOMAIN s = 1..len
  <2>1. s \in [1..len -> S]
    BY <1>3, <1>5
  <2> QED
    BY <2>1, <1>2
<1>7. ASSUME NEW w \in S, NEW j \in DOMAIN s, ~ (s[j] < w)
      PROVE  \E i \in 1..j : s[i] = w
  <2> DEFINE k == RankIn(S, w)
  <2>1. j \in Nat /\ j <= len /\ s[j] \in S /\ s[j] \in Nat /\ w \in Nat /\ RankIn(S, s[j]) = j
    <3>1. j \in 1..len
      BY <1>6
    <3>2. s[j] \in S /\ RankIn(S, s[j]) = j
      BY <3>1, <1>5
    <3>3. j \in Nat /\ j <= len
      BY <3>1, <1>2
    <3>4. s[j] \in Nat /\ w \in Nat
      BY <3>2, <1>1, Zenon
    <3> QED
      BY <3>2, <3>3, <3>4, Zenon
  <2>2. k \in Nat
    BY <1>1, RankType
  <2>3. k <= j
    <3>1. CASE w = s[j]
      BY <3>1, <2>1
    <3>2. CASE w < s[j]
      <4>1. k < RankIn(S, s[j])
        BY <3>2, <2>1, <1>1, RankGrows
      <4> HIDE DEF k
      <4> QED
        BY <4>1, <2>1, <2>2
    <3> QED
      BY <3>1, <3>2, <2>1, <1>7
  <2>4. k >= 1
    <3>1. w \in {f \in S : f <= w} /\ IsFiniteSet({f \in S : f <= w})
      BY <2>1, <1>1, RankType
    <3>2. Cardinality({f \in S : f <= w}) # 0
      BY <3>1, FS_EmptySet
    <3>3. k # 0
      BY <3>2 DEF RankIn
    <3> HIDE DEF k
    <3> QED
      BY <3>3, <2>2
  <2> HIDE DEF k
  <2>5. k \in 1..len /\ k \in 1..j
    BY <2>1, <2>2, <2>3, <2>4, <1>2
  <2>6. s[k] \in S /\ s[k] \in Nat /\ RankIn(S, s[k]) = k
    BY <2>5, <1>5, <1>1
  <2>7. ~ (s[k] < w) /\ ~ (w < s[k])
    <3>1. ASSUME s[k] < w PROVE FALSE
      <4>1. RankIn(S, s[k]) < RankIn(S, w)
        BY <3>1, <2>6, <1>1, RankGrows
      <4> QED
        BY <4>1, <2>6, <2>2 DEF k
    <3>2. ASSUME w < s[k] PROVE FALSE
      <4>1. RankIn(S, w) < RankIn(S, s[k])
        BY <3>2, <2>6, <1>1, RankGrows
      <4> QED
        BY <4>1, <2>6, <2>2 DEF k
    <3> QED
      BY <3>1, <3>2
  <2>8. s[k] = w
    BY <2>1, <2>6, <2>7
  <2> QED
    BY <2>5, <2>8
<1>8. S # {} => s # <<>>
  BY <1>4, <1>6
<1> QED
  BY <1>6, <1>7, <1>8 DEF s

-----------------------------------------------------------------------------
(* Types. *)

LEMMA SeqWider == ASSUME NEW A, NEW B, A \subseteq B, NEW s \in Seq(A) PROVE s \in Seq(B)
OBVIOUS


LEMMA TypeInit == ASSUME Init PROVE TypeInv
<1> USE LimitsAssumption DEF LimitsAssumption
<1>1. events = <<>> /\ Len(events) = 0 /\ queue = <<>> /\ todo = <<>>
  BY DEF Init
<1>2. DatabaseType
  BY <1>1 DEF Init, DatabaseType, NoRetry, Unknown
<1>3. SenderType
  BY <1>1 DEF Init, SenderType
<1>4. QueueType
  <2>1. loop = "idle" /\ lastSkipped = 0 /\ lastKnown = Unknown
    BY DEF Init
  <2>2. catchingUp \in BOOLEAN /\ newData \in BOOLEAN /\ firstCheck \in BOOLEAN
    BY Zenon DEF Init
  <2> QED
    BY <1>1, <2>1, <2>2 DEF QueueType, Unknown
<1>5. HistoryType
  BY <1>1 DEF Init, HistoryType
<1> QED
  BY <1>2, <1>3, <1>4, <1>5 DEF TypeInv

\* What does not change keeps its type.
LEMMA DatabaseFrame == ASSUME DatabaseType, UNCHANGED database PROVE DatabaseType'
BY DEF DatabaseType, database

LEMMA SenderFrame == ASSUME SenderType, UNCHANGED <<events, sender>> PROVE SenderType'
BY DEF SenderType, sender, HandlerType

LEMMA QueueFrame == ASSUME QueueType, UNCHANGED <<events, perDestinationQueue>> PROVE QueueType'
BY DEF QueueType, perDestinationQueue

LEMMA HistoryFrame ==
    ASSUME HistoryType, UNCHANGED <<events, delivered, history, bounds>>
    PROVE  HistoryType'
BY DEF HistoryType, history, bounds

LEMMA TypeNewEvent == ASSUME TypeInv, NEW r \in Rooms, NewEvent(r) PROVE TypeInv'
<1> USE DEF TypeInv
<1>1. /\ events \in Seq(Rooms) /\ events' = Append(events, r) /\ Len(events) < MaxEvents
      /\ MaxEvents \in Nat
  BY LimitsAssumption DEF DatabaseType, NewEvent, LimitsAssumption
<1>2. /\ events' \in Seq(Rooms) /\ Len(events') = Len(events) + 1 /\ Len(events') <= MaxEvents
      /\ Len(events) \in Nat /\ \A x \in 1..Len(events) : events'[x] = events[x]
  BY <1>1
<1>3. 1..Len(events) \subseteq 1..Len(events') /\ 0..Len(events) \subseteq 0..Len(events')
  BY <1>2
<1>4. Seq(1..Len(events)) \subseteq Seq(1..Len(events'))
  BY <1>3, SeqWider
<1>5. DatabaseType'
  <2>1. /\ outPos' = outPos /\ destinationRooms' = destinationRooms
        /\ lastSuccessful' = lastSuccessful /\ retry' = retry
    BY DEF NewEvent
  <2>2. destinationRooms' \in [Rooms -> 0..Len(events')]
    BY <2>1, <1>3 DEF DatabaseType
  <2>3. ASSUME NEW q \in Rooms, destinationRooms'[q] # 0
        PROVE  events'[destinationRooms'[q]] = q
    BY <2>1, <2>3, <1>2 DEF DatabaseType
  <2>4. outPos' \in 0..Len(events') /\ lastSuccessful' \in {Unknown} \union (0..Len(events'))
    BY <2>1, <1>3 DEF DatabaseType
  <2>5. retry' \in [interval : {"none", "short", "long"}, wait : {"due", "soon", "far"}]
    BY <2>1 DEF DatabaseType
  <2> QED
    BY <1>2, <2>2, <2>3, <2>4, <2>5 DEF DatabaseType, Unknown
<1>6. SenderType'
  <2>1. nextToken' = nextToken /\ handlers' = handlers /\ processing' = Poked
    BY DEF NewEvent
  <2>2. HandlerType \subseteq HandlerType'
    BY <1>4, Zenon DEF HandlerType
  <2> QED
    BY <2>1, <2>2, <1>3 DEF SenderType, Poked
<1>7. QueueType'
  BY <1>3, <1>4 DEF QueueType, NewEvent, perDestinationQueue, Unknown
<1>8. HistoryType'
  BY <1>3 DEF HistoryType, NewEvent, history, bounds
<1> QED
  BY <1>5, <1>6, <1>7, <1>8

LEMMA TypeReadNewEvents == ASSUME TypeInv, ReadNewEvents PROVE TypeInv'
<1> USE DEF TypeInv
<1> DEFINE n == Len(events)
           all == outPos + 1 .. n
           round == {e \in all : e <= outPos + RoundLimit}
           InRoom(r) == {e \in round : events[e] = r}
           New == {[events |-> InOrder(InRoom(r), RoundLimit), stored |-> FALSE, orphan |-> FALSE] :
                    r \in {q \in Rooms : InRoom(q) # {}}}
<1>1. n \in Nat /\ outPos \in Nat /\ outPos <= n /\ RoundLimit \in Nat \ {0}
  BY LimitsAssumption DEF DatabaseType, LimitsAssumption
<1>2. nextToken' \in 0..n
  <2>0. outPos + 1 \in Int /\ n \in Int
    BY <1>1
  <2>1. Cardinality(all) = IF outPos + 1 > n THEN 0 ELSE n - (outPos + 1) + 1
    BY <2>0, FS_Interval, Zenon
  <2>2. nextToken' = IF Cardinality(all) < RoundLimit THEN n ELSE outPos + RoundLimit
    BY DEF ReadNewEvents, LimitedTo
  <2> QED
    BY <1>1, <2>1, <2>2
<1>3. New \subseteq HandlerType
  <2> SUFFICES ASSUME NEW r \in Rooms, InRoom(r) # {}
               PROVE  [events |-> InOrder(InRoom(r), RoundLimit), stored |-> FALSE, orphan |-> FALSE]
                         \in HandlerType
    BY Zenon
  <2>1. InRoom(r) \in SUBSET (1..n)
    BY <1>1
  <2> DEFINE S == InRoom(r)
  <2>2. S \in SUBSET (1..n) /\ S # {}
    BY <2>1
  <2> HIDE DEF S, InRoom, n
  <2>3. InOrder(S, RoundLimit) \in Seq(S) /\ InOrder(S, RoundLimit) # <<>>
    BY <1>1, <2>2, InOrderListed
  <2> DEFINE t == InOrder(S, RoundLimit)
  <2>4. t \in Seq(S) /\ t # <<>>
    BY <2>3
  <2> HIDE DEF t
  <2>5. t \in Seq(1..n) \ {<<>>}
    BY <2>2, <2>4, SeqWider
  <2>6. [events |-> t, stored |-> FALSE, orphan |-> FALSE] \in HandlerType
    BY <2>5, Zenon DEF HandlerType, n
  <2> QED
    BY <2>6, Zenon DEF S, t
<1>4. SenderType'
  <2>1. handlers' = handlers \union New
    BY Zenon DEF ReadNewEvents
  <2>2. events' = events /\ HandlerType' = HandlerType
    BY DEF ReadNewEvents, database, HandlerType
  <2>3. processing' \in {"idle", "handle"}
    BY DEF ReadNewEvents
  <2> HIDE DEF New
  <2> QED
    BY <1>2, <1>3, <2>1, <2>2, <2>3 DEF SenderType
<1>5. UNCHANGED <<database, perDestinationQueue, delivered, history, bounds>>
  BY Zenon DEF ReadNewEvents
<1>6. events' = events
  BY <1>5 DEF database
<1> QED
  BY <1>4, <1>5, <1>6, DatabaseFrame, QueueFrame, HistoryFrame

LEMMA AttemptType ==
    ASSUME QueueType, AttemptNewTransaction,
           UNCHANGED <<events, queue, catchingUp, lastSkipped, lastKnown, firstCheck, todo>>
    PROVE  QueueType'
<1>1. newData' \in BOOLEAN
  BY Zenon DEF AttemptNewTransaction
<1>2. loop' = IF loop = "idle" THEN "limiter" ELSE loop
  BY Zenon DEF AttemptNewTransaction
<1> QED
  BY <1>1, <1>2 DEF QueueType

LEMMA HandlerHead ==
    ASSUME TypeInv, NEW h \in handlers
    PROVE  /\ h.events \in Seq(1..Len(events)) /\ h.events # <<>>
           /\ h.stored \in BOOLEAN /\ h.orphan \in BOOLEAN
           /\ Len(events) \in Nat /\ Head(h.events) \in 1..Len(events)
           /\ events[Head(h.events)] \in Rooms
           /\ Len(h.events) \in Nat \ {0} /\ h.events[1] = Head(h.events)
<1>1. events \in Seq(Rooms) /\ h \in HandlerType
  BY DEF TypeInv, DatabaseType, SenderType
<1>2. h.events \in Seq(1..Len(events)) /\ h.events # <<>> /\ h.stored \in BOOLEAN /\ h.orphan \in BOOLEAN
  BY <1>1, Zenon DEF HandlerType
<1> DEFINE s == h.events
<1>3. s \in Seq(1..Len(events)) /\ s # <<>>
  BY <1>2
<1> HIDE DEF s
<1>4. Head(s) \in 1..Len(events) /\ Len(s) \in Nat \ {0} /\ s[1] = Head(s)
  BY <1>3
<1> QED
  BY <1>1, <1>2, <1>4 DEF s

LEMMA TypeStoreDestinationRoom ==
    ASSUME TypeInv, NEW h \in handlers, StoreDestinationRoom(h)
    PROVE  TypeInv'
<1> USE DEF TypeInv
<1> DEFINE x == Head(h.events)
           q == events[x]
<1>1. /\ x \in 1..Len(events) /\ q \in Rooms
      /\ h.events \in Seq(1..Len(events)) /\ h.events # <<>> /\ h.orphan \in BOOLEAN
      /\ Len(events) \in Nat
  BY HandlerHead
<1>2. /\ destinationRooms' = [destinationRooms EXCEPT ![q] = x]
      /\ handlers' = (handlers \ {h}) \union {[h EXCEPT !.stored = TRUE]}
      /\ UNCHANGED <<events, outPos, lastSuccessful, retry, processing, nextToken,
                     perDestinationQueue, delivered, bounds>>
      /\ offered' \subseteq offered /\ (newest' = newest \/ newest' = x)
  BY Zenon DEF StoreDestinationRoom
<1>3. [h EXCEPT !.stored = TRUE] \in HandlerType
  <2>1. h \in HandlerType
    BY DEF SenderType
  <2> QED
    BY <2>1, Zenon DEF HandlerType
<1> HIDE DEF x, q
<1>4. DatabaseType'
  <2>1. destinationRooms' \in [Rooms -> 0..Len(events)]
    BY <1>1, <1>2 DEF DatabaseType
  <2>2. ASSUME NEW r \in Rooms, destinationRooms'[r] # 0
        PROVE  events[destinationRooms'[r]] = r
    <3>1. CASE r = q
      BY <3>1, <1>2 DEF DatabaseType, q
    <3>2. CASE r # q
      BY <3>2, <2>2, <1>2 DEF DatabaseType
    <3> QED
      BY <3>1, <3>2
  <2> QED
    BY <2>1, <2>2, <1>2 DEF DatabaseType
<1>5. SenderType'
  <2>1. HandlerType' = HandlerType
    BY <1>2 DEF HandlerType
  <2> QED
    BY <2>1, <1>2, <1>3 DEF SenderType
<1>6. HistoryType'
  <2>1. x \in 0..Len(events)
    BY <1>1
  <2>2. newest' \in 0..Len(events)
    BY <2>1, <1>2 DEF HistoryType
  <2> QED
    BY <2>2, <1>2 DEF HistoryType, bounds
<1> QED
  BY <1>2, <1>4, <1>5, <1>6, QueueFrame

LEMMA TypeHandOver == ASSUME TypeInv, NEW h \in handlers, HandOver(h) PROVE TypeInv'
<1> USE DEF TypeInv
<1> DEFINE x == Head(h.events)
           rest == [events |-> Tail(h.events), stored |-> FALSE, orphan |-> h.orphan]
<1>1. /\ x \in 1..Len(events) /\ h.orphan \in BOOLEAN /\ Len(events) \in Nat
      /\ h.events \in Seq(1..Len(events)) /\ h.events # <<>>
  BY HandlerHead
<1>2. UNCHANGED <<database, processing, nextToken, delivered, newest, bounds>>
  BY Zenon DEF HandOver
<1>3. events' = events
  BY <1>2 DEF database
<1>4. SenderType'
  <2>1. HandlerType' = HandlerType
    BY <1>3 DEF HandlerType
  <2>2. handlers' = (handlers \ {h}) \union (IF rest.events = <<>> THEN {} ELSE {rest})
    BY Zenon DEF HandOver
  <2>3. Tail(h.events) \in Seq(1..Len(events))
    <3> DEFINE s == h.events
    <3>1. s \in Seq(1..Len(events)) /\ s # <<>>
      BY <1>1
    <3> HIDE DEF s
    <3>2. Tail(s) \in Seq(1..Len(events))
      BY <3>1
    <3> QED
      BY <3>2 DEF s
  <2>4. rest.events = <<>> \/ rest \in HandlerType
    BY <2>3, <1>1, Zenon DEF HandlerType
  <2> HIDE DEF rest
  <2>5. handlers' \subseteq HandlerType
    <3>1. handlers \subseteq HandlerType
      BY DEF SenderType
    <3>2. CASE rest.events = <<>>
      BY <3>1, <3>2, <2>2
    <3>3. CASE rest.events # <<>>
      BY <3>1, <3>3, <2>2, <2>4
    <3> QED
      BY <3>2, <3>3
  <2> QED
    BY <2>1, <2>5, <1>2, <1>3 DEF SenderType
<1>5. QueueType'
  <2>1. CASE retry.wait = "far"
    <3>1. UNCHANGED perDestinationQueue
      BY <2>1, Zenon DEF HandOver
    <3> QED
      BY <3>1, <1>3, QueueFrame
  <2>2. CASE retry.wait # "far"
    <3>1. SendPdu(x) /\ UNCHANGED <<catchingUp, lastKnown, firstCheck, todo>>
      BY <2>2, Zenon DEF HandOver
    <3>2. newData' \in BOOLEAN
      BY <3>1, Zenon DEF SendPdu, AttemptNewTransaction
    <3>3. loop' = IF loop = "idle" THEN "limiter" ELSE loop
      BY <3>1, Zenon DEF SendPdu, AttemptNewTransaction
    <3>4. (queue' = Append(queue, x) /\ lastSkipped' = lastSkipped) \/ (queue' = queue /\ lastSkipped' = x)
      BY <3>1, Zenon DEF SendPdu
    <3> HIDE DEF x
    <3>5. queue' \in Seq(1..Len(events)) /\ lastSkipped' \in 0..Len(events)
      <4>1. queue \in Seq(1..Len(events)) /\ lastSkipped \in 0..Len(events)
        BY DEF QueueType
      <4>2. Append(queue, x) \in Seq(1..Len(events)) /\ x \in 0..Len(events)
        BY <4>1, <1>1
      <4> QED
        BY <3>4, <4>1, <4>2, Zenon
    <3> QED
      BY <3>1, <3>2, <3>3, <3>5, <1>3 DEF QueueType
  <2> QED
    BY <2>1, <2>2
<1>6. HistoryType'
  <2>1. offered' \subseteq offered \union {x}
    BY Zenon DEF HandOver
  <2> QED
    BY <2>1, <1>1, <1>2, <1>3 DEF HistoryType, bounds
<1> QED
  BY <1>2, <1>4, <1>5, <1>6, DatabaseFrame

LEMMA TypeHandlerFails == ASSUME TypeInv, NEW h \in handlers, HandlerFails(h) PROVE TypeInv'
<1> USE DEF TypeInv
<1>1. UNCHANGED <<database, nextToken, perDestinationQueue, delivered, history, longBackOffs, crashes>>
  BY Zenon DEF HandlerFails
<1>2. events' = events /\ HandlerType' = HandlerType
  BY <1>1 DEF database, HandlerType
<1>3. handlers' \subseteq HandlerType
  <2>1. ASSUME NEW g \in handlers PROVE [g EXCEPT !.orphan = TRUE] \in HandlerType
    <3>1. g \in HandlerType
      BY DEF SenderType
    <3> QED
      BY <3>1, Zenon DEF HandlerType
  <2>2. \/ handlers' = handlers \ {h}
        \/ handlers' = {[g EXCEPT !.orphan = TRUE] : g \in handlers \ {h}}
    BY Zenon DEF HandlerFails
  <2>3. CASE handlers' = handlers \ {h}
    BY <2>3 DEF SenderType
  <2>4. CASE handlers' = {[g EXCEPT !.orphan = TRUE] : g \in handlers \ {h}}
    BY <2>1, <2>4, Zenon
  <2> QED
    BY <2>2, <2>3, <2>4
<1>4. SenderType'
  <2>1. processing' = processing \/ processing' = "idle"
    BY Zenon DEF HandlerFails
  <2> QED
    BY <2>1, <1>1, <1>2, <1>3 DEF SenderType
<1>5. HistoryType'
  <2>1. faults < MaxFaults /\ faults' = faults + 1
    BY DEF HandlerFails
  <2> QED
    BY <2>1, <1>1, <1>2, LimitsAssumption DEF HistoryType, history, LimitsAssumption
<1> QED
  BY <1>1, <1>2, <1>4, <1>5, DatabaseFrame, QueueFrame

\* Steps that leave the events, the sender and its bookkeeping alone.
LEMMA QueueOrEmpty ==
    ASSUME QueueType, queue' \in {queue, <<>>}
    PROVE  queue' \in Seq(1..Len(events))
<1>1. queue \in Seq(1..Len(events)) /\ <<>> \in Seq(1..Len(events))
  BY DEF QueueType
<1> QED
  BY <1>1, Zenon

LEMMA TypeEndLoop ==
    ASSUME QueueType, EndLoop, catchingUp' \in BOOLEAN, queue' \in {queue, <<>>},
           UNCHANGED <<events, lastSkipped, lastKnown, newData>>
    PROVE  QueueType'
<1>1. loop' = "idle" /\ todo' = <<>>
  BY Zenon DEF EndLoop
<1>2. firstCheck' \in BOOLEAN
  BY Zenon DEF EndLoop
<1>3. queue' \in Seq(1..Len(events))
  BY QueueOrEmpty
<1> QED
  BY <1>1, <1>2, <1>3 DEF QueueType

LEMMA NotRetryingEffect ==
    ASSUME QueueType, NotRetrying
    PROVE  EndLoop /\ catchingUp' \in BOOLEAN /\ queue' \in {queue, <<>>}
<1>1. EndLoop
  BY Zenon DEF NotRetrying
<1>2. CASE retry.interval = "long"
  BY <1>1, <1>2, Zenon DEF NotRetrying, StartCatchingUp
<1>3. CASE retry.interval # "long"
  <2>1. UNCHANGED <<catchingUp, queue>>
    BY <1>3, Zenon DEF NotRetrying
  <2> QED
    BY <1>1, <2>1, Zenon DEF QueueType
<1> QED
  BY <1>2, <1>3

LEMMA TypeCheckLimiter == ASSUME TypeInv, CheckLimiter PROVE TypeInv'
<1> USE DEF TypeInv
<1>1. UNCHANGED <<database, sender, lastSkipped, lastKnown, delivered, history, bounds>>
  BY Zenon DEF CheckLimiter
<1>2. events' = events
  BY <1>1 DEF database
<1>3. CASE retry.wait # "due"
  <2>1. NotRetrying /\ newData' = newData
    BY <1>3, Zenon DEF CheckLimiter
  <2>2. QueueType'
    BY <2>1, <1>1, <1>2, NotRetryingEffect, TypeEndLoop
  <2> QED
    BY <2>2, <1>1, <1>2, DatabaseFrame, SenderFrame, HistoryFrame
<1>4. CASE retry.wait = "due"
  <2>1. UNCHANGED <<queue, catchingUp, todo>>
    BY <1>4, Zenon DEF CheckLimiter
  <2>2. \/ loop' = "read_last" \/ (loop' = "look" /\ lastKnown # Unknown) \/ loop' = "select"
    BY <1>4, Zenon DEF CheckLimiter, NextTransaction
  <2>3. newData' \in BOOLEAN /\ firstCheck' \in BOOLEAN
    <3>1. CASE catchingUp
      BY <1>4, <3>1, Zenon DEF CheckLimiter, QueueType
    <3>2. CASE ~catchingUp
      BY <1>4, <3>2, Zenon DEF CheckLimiter, QueueType, NextTransaction
    <3> QED
      BY <3>1, <3>2
  <2>4. QueueType'
    BY <2>1, <2>2, <2>3, <1>1, <1>2 DEF QueueType, Unknown
  <2> QED
    BY <2>4, <1>1, <1>2, DatabaseFrame, SenderFrame, HistoryFrame
<1> QED
  BY <1>3, <1>4

LEMMA TypeReadLastSuccessful == ASSUME TypeInv, ReadLastSuccessful PROVE TypeInv'
<1> USE DEF TypeInv
<1>1. UNCHANGED <<database, sender, queue, lastSkipped, todo, delivered, history, bounds>>
  BY Zenon DEF ReadLastSuccessful
<1>2. events' = events
  BY <1>1 DEF database
<1>3. lastKnown' = lastSuccessful /\ lastKnown' \in {Unknown} \union (0..Len(events))
  BY Zenon DEF ReadLastSuccessful, DatabaseType
<1>4. loop' = "select" \/ (loop' = "look" /\ lastSuccessful # Unknown)
  BY Zenon DEF ReadLastSuccessful, NextTransaction
<1>5. catchingUp' \in BOOLEAN /\ newData' \in BOOLEAN /\ firstCheck' \in BOOLEAN
  <2>1. CASE lastSuccessful = Unknown
    BY <2>1, Zenon DEF ReadLastSuccessful, NextTransaction
  <2>2. CASE lastSuccessful # Unknown
    BY <2>2, Zenon DEF ReadLastSuccessful, QueueType
  <2> QED
    BY <2>1, <2>2
<1>6. QueueType'
  BY <1>1, <1>2, <1>3, <1>4, <1>5 DEF QueueType
<1> QED
  BY <1>1, <1>2, <1>6, DatabaseFrame, SenderFrame, HistoryFrame

LEMMA OutstandingType ==
    ASSUME TypeInv, loop = "look"
    PROVE  /\ Outstanding \in SUBSET (1..Len(events)) /\ Len(events) \in Nat
           /\ CatchUpLimit \in Nat \ {0}
<1>1. /\ lastKnown \in Nat /\ Len(events) \in Nat
      /\ \A r \in Rooms : destinationRooms[r] \in 0..Len(events)
  BY DEF TypeInv, QueueType, DatabaseType, Unknown
<1> QED
  BY <1>1, LimitsAssumption DEF Outstanding, LimitsAssumption

LEMMA TypeLookForMissed == ASSUME TypeInv, LookForMissed PROVE TypeInv'
<1> USE DEF TypeInv
<1>1. UNCHANGED <<database, sender, queue, catchingUp, lastSkipped, lastKnown, newData, firstCheck,
                  delivered, history, bounds>>
  BY Zenon DEF LookForMissed
<1>2. events' = events
  BY <1>1 DEF database
<1>3. loop = "look" /\ loop' = "looked" /\ todo' = InOrder(Outstanding, CatchUpLimit)
  BY Zenon DEF LookForMissed
<1>4. todo' \in Seq(1..Len(events))
  <2>1. InOrder(Outstanding, CatchUpLimit) \in Seq(Outstanding)
    BY <1>3, OutstandingType, InOrderListed
  <2> QED
    BY <2>1, <1>3, OutstandingType, SeqWider
<1>5. QueueType'
  BY <1>1, <1>2, <1>3, <1>4 DEF QueueType
<1> QED
  BY <1>1, <1>2, <1>5, DatabaseFrame, SenderFrame, HistoryFrame

LEMMA TypeDecideOnCatchUp == ASSUME TypeInv, DecideOnCatchUp PROVE TypeInv'
<1> USE DEF TypeInv
<1>1. /\ loop = "looked"
      /\ UNCHANGED <<database, sender, lastSkipped, lastKnown, todo, delivered, history, bounds>>
  BY Zenon DEF DecideOnCatchUp
<1>2. events' = events
  BY <1>1 DEF database
<1>3. loop' \in {"select", "look"} \/ (loop' = "catch_up" /\ todo # <<>>)
  BY Zenon DEF DecideOnCatchUp, NextTransaction
<1>4. queue' \in {queue, <<>>}
  BY Zenon DEF DecideOnCatchUp, StartCatchingUp
<1>5. queue' \in Seq(1..Len(events))
  BY <1>4, QueueOrEmpty
<1>6. catchingUp' \in BOOLEAN /\ newData' \in BOOLEAN /\ firstCheck' \in BOOLEAN
  BY Zenon DEF DecideOnCatchUp, StartCatchingUp, NextTransaction, QueueType
<1>7. QueueType'
  BY <1>1, <1>2, <1>3, <1>5, <1>6 DEF QueueType
<1> QED
  BY <1>1, <1>2, <1>7, DatabaseFrame, SenderFrame, HistoryFrame

\* The newest event of a room.
LEMMA LatestExists ==
    ASSUME DatabaseType, NEW e \in 1..Len(events)
    PROVE  /\ Latest(events[e]) \in 1..Len(events) /\ events[Latest(events[e])] = events[e]
           /\ e <= Latest(events[e])
<1> DEFINE S == {f \in 1..Len(events) : events[f] = events[e]}
<1>0. Len(events) \in Nat /\ e \in Nat
  BY DEF DatabaseType
<1>1. Len(events) \in Nat /\ S \in SUBSET Nat /\ S # {} /\ \A x \in S : x <= Len(events)
  BY <1>0
<1>2. PICK m \in S : \A x \in S : x <= m
  <2> HIDE DEF S
  <2> QED
    BY <1>1, MaxNat
<1>3. /\ m \in 1..Len(events)
      /\ events[m] = events[e] /\ \A f \in 1..Len(events) : events[f] = events[e] => f <= m
  BY <1>2
<1>4. LET l == Latest(events[e])
      IN  l \in 1..Len(events) /\ events[l] = events[e]
          /\ \A f \in 1..Len(events) : events[f] = events[e] => f <= l
  BY <1>3, Zenon DEF Latest
<1> QED
  BY <1>4

LEMMA TransactionsType ==
    ASSUME TypeInv, Sending, NEW pdus \in Transactions
    PROVE  pdus \subseteq 1..Len(events)
<1>1. todo \in Seq(1..Len(events)) /\ todo # <<>>
  BY DEF TypeInv, QueueType, Sending
<1>2. CASE loop = "send"
  <2>1. \A i \in DOMAIN todo : todo[i] \in 1..Len(events)
    BY <1>1
  <2>2. pdus = {todo[i] : i \in DOMAIN todo}
    BY <1>2, Zenon DEF Transactions
  <2> QED
    BY <2>1, <2>2, Zenon
<1>3. CASE loop # "send"
  <2>1. Head(todo) \in 1..Len(events)
    BY <1>1
  <2>2. Latest(events[Head(todo)]) \in 1..Len(events)
    BY <2>1, LatestExists, Zenon DEF TypeInv
  <2> QED
    BY <1>3, <2>1, <2>2, Zenon DEF Transactions
<1> QED
  BY <1>2, <1>3

LEMMA TypeTransactionSent == ASSUME TypeInv, TransactionSent PROVE TypeInv'
<1> USE DEF TypeInv
<1>1. UNCHANGED <<events, outPos, destinationRooms, lastSuccessful, sender, catchingUp,
                  lastSkipped, newData, firstCheck, todo, history, bounds>>
  BY Zenon DEF TransactionSent
<1>2. Sending /\ retry' = NoRetry
  BY Zenon DEF TransactionSent
<1>3. delivered' \subseteq 1..Len(events)
  <2>1. PICK pdus \in Transactions : delivered' = delivered \union pdus
    BY Zenon DEF TransactionSent
  <2>2. pdus \subseteq 1..Len(events)
    BY <1>2, TransactionsType
  <2> QED
    BY <2>1, <2>2 DEF HistoryType
<1>4. todo \in Seq(1..Len(events)) /\ todo # <<>> /\ queue \in Seq(1..Len(events)) /\ Len(events) \in Nat
  BY <1>2 DEF QueueType, Sending, DatabaseType
<1>5. Head(todo) \in 1..Len(events) /\ Head(todo) \in Nat
  BY <1>4
<1>6. SubSeq(queue, Len(todo) + 1, Len(queue)) \in Seq(1..Len(events))
  BY <1>4
<1>7. \/ loop' = "mark" /\ queue' = Dequeue /\ lastKnown' = lastKnown
      \/ loop' = "record" /\ lastKnown' = Head(todo) /\ queue' = queue
  BY Zenon DEF TransactionSent
<1>8. /\ queue' \in Seq(1..Len(events)) /\ lastKnown' \in {Unknown} \union (0..Len(events))
      /\ loop' = "mark" \/ (loop' = "record" /\ lastKnown' # Unknown)
  <2>1. CASE loop' = "mark" /\ queue' = Dequeue /\ lastKnown' = lastKnown
    BY <2>1, <1>6 DEF QueueType, Dequeue
  <2>2. CASE loop' = "record" /\ lastKnown' = Head(todo) /\ queue' = queue
    BY <2>2, <1>4, <1>5 DEF Unknown
  <2> QED
    BY <1>7, <2>1, <2>2
<1>9. QueueType'
  BY <1>1, <1>4, <1>8 DEF QueueType
<1>10. DatabaseType'
  BY <1>1, <1>2 DEF DatabaseType, NoRetry
<1>11. HistoryType'
  BY <1>1, <1>3 DEF HistoryType, history, bounds
<1> QED
  BY <1>1, <1>9, <1>10, <1>11, SenderFrame

LEMMA BackOffType ==
    ASSUME TypeInv, BackOff
    PROVE  /\ retry' \in [interval : {"none", "short", "long"}, wait : {"due", "soon", "far"}]
           /\ longBackOffs' \in 0..MaxLongBackOffs
BY LimitsAssumption DEF BackOff, TypeInv, HistoryType, LimitsAssumption

LEMMA TypeTransactionFails == ASSUME TypeInv, TransactionFails PROVE TypeInv'
<1> USE DEF TypeInv
<1>1. UNCHANGED <<events, outPos, destinationRooms, lastSuccessful, sender, queue, catchingUp,
                  lastSkipped, lastKnown, newData, history, crashes>>
  BY Zenon DEF TransactionFails
<1>2. Sending /\ EndLoop /\ faults < MaxFaults /\ faults' = faults + 1
  BY Zenon DEF TransactionFails
<1>3. /\ retry' \in [interval : {"none", "short", "long"}, wait : {"due", "soon", "far"}]
      /\ longBackOffs' \in 0..MaxLongBackOffs
  <2>1. BackOff \/ UNCHANGED <<retry, longBackOffs>>
    BY Zenon DEF TransactionFails
  <2> QED
    BY <2>1, BackOffType DEF DatabaseType, HistoryType
<1>4. delivered' \subseteq 1..Len(events)
  <2>1. delivered' = delivered \/ \E pdus \in Transactions : delivered' = delivered \union pdus
    BY Zenon DEF TransactionFails
  <2>2. \A pdus \in Transactions : pdus \subseteq 1..Len(events)
    BY <1>2, TransactionsType
  <2>3. delivered \subseteq 1..Len(events)
    BY DEF HistoryType
  <2> QED
    BY <2>1, <2>2, <2>3, Zenon
<1>5. QueueType'
  <2>1. catchingUp' \in BOOLEAN /\ queue' \in {queue, <<>>}
    BY <1>1, Zenon DEF QueueType
  <2> QED
    BY <2>1, <1>1, <1>2, TypeEndLoop
<1>6. HistoryType'
  BY <1>1, <1>2, <1>3, <1>4, LimitsAssumption DEF HistoryType, history, LimitsAssumption
<1>7. DatabaseType'
  BY <1>1, <1>3 DEF DatabaseType
<1> QED
  BY <1>1, <1>5, <1>6, <1>7, SenderFrame

LEMMA TypeTransactionRefused == ASSUME TypeInv, TransactionRefused PROVE TypeInv'
<1> USE DEF TypeInv
<1>1. /\ NotRetrying
      /\ UNCHANGED <<database, sender, lastSkipped, lastKnown, newData, delivered, history, bounds>>
  BY Zenon DEF TransactionRefused
<1>2. events' = events
  BY <1>1 DEF database
<1>3. QueueType'
  BY <1>1, <1>2, NotRetryingEffect, TypeEndLoop
<1> QED
  BY <1>1, <1>2, <1>3, DatabaseFrame, SenderFrame, HistoryFrame

LEMMA TypeRecordCaughtUp == ASSUME TypeInv, RecordCaughtUp PROVE TypeInv'
<1> USE DEF TypeInv
<1>1. UNCHANGED <<events, outPos, destinationRooms, retry, sender, queue, catchingUp, lastSkipped,
                  lastKnown, newData, firstCheck, delivered, history, bounds>>
  BY Zenon DEF RecordCaughtUp
<1>2. /\ loop = "record" /\ lastSuccessful' = Head(todo) /\ todo' = Tail(todo)
      /\ loop' = IF Tail(todo) = <<>> THEN "look" ELSE "catch_up"
  BY Zenon DEF RecordCaughtUp
<1>3. todo \in Seq(1..Len(events)) /\ todo # <<>> /\ Len(events) \in Nat /\ lastKnown # Unknown
  BY <1>2 DEF QueueType, DatabaseType
<1>4. Head(todo) \in 0..Len(events) /\ todo' \in Seq(1..Len(events))
  BY <1>2, <1>3
<1>5. QueueType'
  BY <1>1, <1>2, <1>3, <1>4 DEF QueueType
<1>6. DatabaseType'
  BY <1>1, <1>2, <1>4 DEF DatabaseType
<1> QED
  BY <1>1, <1>5, <1>6, SenderFrame, HistoryFrame

LEMMA FirstOfType ==
    ASSUME QueueType, NEW n \in Nat \ {0}
    PROVE  /\ FirstOf(queue, n) \in Seq(1..Len(events))
           /\ Len(FirstOf(queue, n)) <= Len(queue)
           /\ DOMAIN FirstOf(queue, n) \subseteq DOMAIN queue
           /\ \A i \in DOMAIN FirstOf(queue, n) : FirstOf(queue, n)[i] = queue[i]
           /\ queue # <<>> => FirstOf(queue, n) # <<>>
           /\ queue = <<>> => FirstOf(queue, n) = <<>>
<1> DEFINE m == IF Len(queue) < n THEN Len(queue) ELSE n
<1>1. queue \in Seq(1..Len(events)) /\ Len(queue) \in Nat
  BY DEF QueueType
<1>2. m \in Nat /\ m <= Len(queue) /\ (queue # <<>> => m # 0) /\ (queue = <<>> => m = 0)
  BY <1>1
<1>3. FirstOf(queue, n) = SubSeq(queue, 1, m)
  BY Zenon DEF FirstOf
<1> HIDE DEF m
<1>4. /\ SubSeq(queue, 1, m) \in Seq(1..Len(events)) /\ Len(SubSeq(queue, 1, m)) = m
      /\ DOMAIN SubSeq(queue, 1, m) = 1..m
      /\ \A i \in 1..m : SubSeq(queue, 1, m)[i] = queue[i]
  BY <1>1, <1>2
<1> DEFINE t == FirstOf(queue, n)
<1>5. /\ t \in Seq(1..Len(events)) /\ Len(t) = m /\ DOMAIN t = 1..m
      /\ \A i \in 1..m : t[i] = queue[i]
  BY <1>3, <1>4, Zenon
<1> HIDE DEF t
<1>6. 1..m \subseteq DOMAIN queue
  BY <1>1, <1>2
<1>7. (queue # <<>> => t # <<>>) /\ (queue = <<>> => t = <<>>)
  BY <1>2, <1>5
<1>8. Len(t) <= Len(queue)
  BY <1>2, <1>5
<1>9. DOMAIN t \subseteq DOMAIN queue /\ \A i \in DOMAIN t : t[i] = queue[i]
  BY <1>5, <1>6, Zenon
<1> QED
  BY <1>5, <1>7, <1>8, <1>9, Zenon DEF t

LEMMA TypeSelectPdus == ASSUME TypeInv, SelectPdus PROVE TypeInv'
<1> USE DEF TypeInv
<1>1. UNCHANGED <<database, sender, queue, catchingUp, lastSkipped, lastKnown, firstCheck,
                  delivered, history, bounds>>
  BY Zenon DEF SelectPdus
<1>2. events' = events
  BY <1>1 DEF database
<1>3. (loop' = "send" /\ queue # <<>>) \/ loop' = "select" \/ loop' = "idle"
  BY Zenon DEF SelectPdus, NextTransaction
<1>4. newData' \in BOOLEAN
  BY Zenon DEF SelectPdus, NextTransaction, QueueType
<1>5. todo' \in Seq(1..Len(events)) /\ (queue # <<>> => todo' # <<>>)
  <2>1. todo' = FirstOf(queue, TransactionLimit)
    BY Zenon DEF SelectPdus
  <2> QED
    BY <2>1, FirstOfType, LimitsAssumption DEF LimitsAssumption
<1>6. QueueType'
  BY <1>1, <1>2, <1>3, <1>4, <1>5 DEF QueueType
<1> QED
  BY <1>1, <1>2, <1>6, DatabaseFrame, SenderFrame, HistoryFrame

LEMMA TypeMarkSent == ASSUME TypeInv, MarkSent PROVE TypeInv'
<1> USE DEF TypeInv
<1>1. UNCHANGED <<events, outPos, destinationRooms, retry, sender, queue, catchingUp, lastSkipped,
                  lastKnown, firstCheck, delivered, history, bounds>>
  BY Zenon DEF MarkSent
<1>2. loop = "mark" /\ loop' = "select" /\ lastSuccessful' = todo[Len(todo)] /\ todo' = <<>>
  BY Zenon DEF MarkSent, NextTransaction
<1>3. newData' \in BOOLEAN
  BY Zenon DEF MarkSent, NextTransaction
<1>4. todo \in Seq(1..Len(events)) /\ todo # <<>> /\ Len(events) \in Nat
  BY <1>2 DEF QueueType, DatabaseType
<1>5. todo[Len(todo)] \in 0..Len(events)
  BY <1>4
<1>6. QueueType'
  BY <1>1, <1>2, <1>3 DEF QueueType
<1>7. DatabaseType'
  BY <1>1, <1>2, <1>5 DEF DatabaseType
<1> QED
  BY <1>1, <1>6, <1>7, SenderFrame, HistoryFrame

LEMMA TypeLoopFails == ASSUME TypeInv, LoopFails PROVE TypeInv'
<1> USE DEF TypeInv
<1>1. UNCHANGED <<database, sender, queue, catchingUp, lastSkipped, lastKnown, newData, delivered,
                  history, longBackOffs, crashes>>
  BY Zenon DEF LoopFails
<1>2. events' = events
  BY <1>1 DEF database
<1>3. EndLoop /\ faults < MaxFaults /\ faults' = faults + 1
  BY Zenon DEF LoopFails
<1>4. catchingUp' \in BOOLEAN /\ queue' \in {queue, <<>>}
  BY <1>1, Zenon DEF QueueType
<1>5. QueueType'
  BY <1>1, <1>2, <1>3, <1>4, TypeEndLoop
<1>6. HistoryType'
  BY <1>1, <1>2, <1>3, LimitsAssumption DEF HistoryType, history, LimitsAssumption
<1> QED
  BY <1>1, <1>2, <1>5, <1>6, DatabaseFrame, SenderFrame

LEMMA TypeRestart == ASSUME TypeInv, Restart PROVE TypeInv'
<1> USE DEF TypeInv
<1>1. UNCHANGED <<database, delivered, history, faults, longBackOffs>>
  BY Zenon DEF Restart
<1>2. events' = events
  BY <1>1 DEF database
<1>3. /\ processing' = "idle" /\ nextToken' = 0 /\ handlers' = {} /\ queue' = <<>> /\ todo' = <<>>
      /\ lastSkipped' = 0 /\ lastKnown' = Unknown /\ loop' = "idle"
      /\ crashes < MaxCrashes /\ crashes' = crashes + 1
  BY Zenon DEF Restart
<1>4. catchingUp' \in BOOLEAN /\ newData' \in BOOLEAN /\ firstCheck' \in BOOLEAN
  BY Zenon DEF Restart
<1>5. Len(events) \in Nat
  BY DEF DatabaseType
<1>6. QueueType'
  BY <1>2, <1>3, <1>4, <1>5 DEF QueueType
<1>7. SenderType'
  BY <1>2, <1>3, <1>5 DEF SenderType
<1>8. HistoryType'
  BY <1>1, <1>2, <1>3, LimitsAssumption DEF HistoryType, history, LimitsAssumption
<1> QED
  BY <1>1, <1>6, <1>7, <1>8, DatabaseFrame

\* Every step keeps the types.
LEMMA TypeStep == ASSUME TypeInv, [Next]_vars PROVE TypeInv'
<1> USE DEF TypeInv
<1>1. ASSUME NEW r \in Rooms, NewEvent(r) PROVE TypeInv'
  BY <1>1, TypeNewEvent
<1>2. CASE Notify
  <2>1. UNCHANGED <<database, nextToken, handlers, perDestinationQueue, delivered, history, bounds>>
    BY <1>2, Zenon DEF Notify
  <2>2. events' = events
    BY <2>1 DEF database
  <2>3. SenderType'
    BY <1>2, <2>1, <2>2 DEF Notify, Poked, SenderType, HandlerType
  <2> QED
    BY <2>1, <2>2, <2>3, DatabaseFrame, QueueFrame, HistoryFrame
<1>3. CASE ReadNewEvents
  BY <1>3, TypeReadNewEvents
<1>4. CASE UpdateOutPos
  <2>1. /\ UNCHANGED <<events, destinationRooms, lastSuccessful, retry, nextToken, handlers,
                       perDestinationQueue, delivered, history, bounds>>
        /\ outPos' = nextToken /\ processing' = "query"
    BY <1>4, Zenon DEF UpdateOutPos
  <2>2. SenderType'
    BY <2>1 DEF SenderType, HandlerType
  <2>3. DatabaseType'
    BY <2>1 DEF DatabaseType, SenderType
  <2> QED
    BY <2>1, <2>2, <2>3, QueueFrame, HistoryFrame
<1>5. CASE ProcessingFails
  <2>1. /\ UNCHANGED <<database, nextToken, handlers, perDestinationQueue, delivered,
                       history, longBackOffs, crashes>>
        /\ faults < MaxFaults /\ faults' = faults + 1 /\ processing' = "idle"
    BY <1>5, Zenon DEF ProcessingFails
  <2>2. events' = events
    BY <2>1 DEF database
  <2>3. SenderType'
    BY <2>1, <2>2 DEF SenderType, HandlerType
  <2>4. HistoryType'
    BY <2>1, <2>2, LimitsAssumption DEF HistoryType, history, LimitsAssumption
  <2> QED
    BY <2>1, <2>2, <2>3, <2>4, DatabaseFrame, QueueFrame
<1>6. ASSUME NEW h \in handlers, StoreDestinationRoom(h) \/ HandOver(h) \/ HandlerFails(h)
      PROVE  TypeInv'
  BY <1>6, TypeStoreDestinationRoom, TypeHandOver, TypeHandlerFails
<1>7. CASE TimePasses
  <2>1. /\ UNCHANGED <<events, outPos, destinationRooms, lastSuccessful, sender, perDestinationQueue,
                       delivered, history, bounds>>
        /\ retry' = [retry EXCEPT !.wait = IF @ = "far" THEN "soon" ELSE "due"]
    BY <1>7, Zenon DEF TimePasses
  <2>2. DatabaseType'
    BY <2>1 DEF DatabaseType
  <2> QED
    BY <2>1, <2>2, SenderFrame, QueueFrame, HistoryFrame
<1>8. CASE OtherRequestFails
  <2>1. /\ UNCHANGED <<events, outPos, destinationRooms, lastSuccessful, sender, perDestinationQueue,
                       delivered, history, crashes>>
        /\ BackOff /\ faults < MaxFaults /\ faults' = faults + 1
    BY <1>8, Zenon DEF OtherRequestFails
  <2>2. DatabaseType'
    BY <2>1, BackOffType DEF DatabaseType
  <2>3. HistoryType'
    BY <2>1, BackOffType, LimitsAssumption DEF HistoryType, history, LimitsAssumption
  <2> QED
    BY <2>1, <2>2, <2>3, SenderFrame, QueueFrame
<1>9. CASE RemoteServerUp
  <2>1. /\ UNCHANGED <<events, outPos, destinationRooms, lastSuccessful, sender, queue, catchingUp,
                       lastSkipped, lastKnown, firstCheck, todo, delivered, history, bounds>>
        /\ AttemptNewTransaction /\ retry' = NoRetry
    BY <1>9, Zenon DEF RemoteServerUp
  <2>2. DatabaseType'
    BY <2>1 DEF DatabaseType, NoRetry
  <2> QED
    BY <2>1, <2>2, AttemptType, SenderFrame, HistoryFrame
<1>10. CASE SendEdu \/ WakeDestination
  <2>1. /\ UNCHANGED <<database, sender, queue, catchingUp, lastSkipped, lastKnown, firstCheck, todo,
                       delivered, history, bounds>>
        /\ AttemptNewTransaction
    BY <1>10, Zenon DEF SendEdu, WakeDestination
  <2>2. events' = events
    BY <2>1 DEF database
  <2> QED
    BY <2>1, <2>2, AttemptType, DatabaseFrame, SenderFrame, HistoryFrame
<1>11. CASE LoopStep
  BY <1>11, TypeCheckLimiter, TypeReadLastSuccessful, TypeLookForMissed, TypeDecideOnCatchUp,
     TypeTransactionSent, TypeTransactionRefused, TypeRecordCaughtUp, TypeSelectPdus, TypeMarkSent
     DEF LoopStep
<1>12. CASE TransactionFails \/ LoopFails \/ Restart
  BY <1>12, TypeTransactionFails, TypeLoopFails, TypeRestart
<1>13. CASE UNCHANGED vars
  <2>1. UNCHANGED <<database, sender, perDestinationQueue, delivered, history, bounds>>
    BY <1>13, Zenon DEF vars
  <2>2. events' = events
    BY <2>1 DEF database
  <2> QED
    BY <2>1, <2>2, DatabaseFrame, SenderFrame, QueueFrame, HistoryFrame
<1> QED
  BY <1>1, <1>2, <1>3, <1>4, <1>5, <1>6, <1>7, <1>8, <1>9, <1>10, <1>11, <1>12, <1>13 DEF Next

LEMMA TypeInvImpliesTypeOK == ASSUME TypeInv PROVE TypeOK
<1> USE DEF TypeInv
<1>1. Len(events) \in Nat /\ MaxEvents \in Nat /\ Len(events) <= MaxEvents
  BY LimitsAssumption DEF DatabaseType, LimitsAssumption
<1>2. 1..Len(events) \subseteq 1..MaxEvents /\ 0..Len(events) \subseteq 0..MaxEvents
  BY <1>1
<1>3. Seq(1..Len(events)) \subseteq Seq(1..MaxEvents)
  BY <1>2, SeqWider
<1>4. handlers \subseteq Handlers
  <2>1. HandlerType \subseteq Handlers
    BY <1>3, Zenon DEF HandlerType, Handlers
  <2> QED
    BY <2>1 DEF SenderType
<1>5. {catchingUp, newData, firstCheck} \subseteq BOOLEAN
  BY Zenon DEF QueueType
<1>6. /\ events \in Seq(Rooms) /\ Len(events) <= MaxEvents
      /\ outPos \in 0..Len(events)
      /\ destinationRooms \in [Rooms -> 0..MaxEvents]
      /\ lastSuccessful \in {Unknown} \union (0..MaxEvents)
      /\ retry \in [interval : {"none", "short", "long"}, wait : {"due", "soon", "far"}]
  BY <1>2 DEF DatabaseType
<1>7. /\ queue \in Seq(1..MaxEvents) /\ todo \in Seq(1..MaxEvents)
      /\ lastSkipped \in 0..MaxEvents
      /\ lastKnown \in {Unknown} \union (0..MaxEvents)
      /\ loop \in {"idle", "limiter", "read_last", "look", "looked", "catch_up", "record", "select",
                   "send", "mark"}
  BY <1>2, <1>3 DEF QueueType
<1>8. processing \in {"idle", "query", "handle"} /\ nextToken \in 0..Len(events)
  BY DEF SenderType
<1>9. /\ delivered \subseteq 1..Len(events) /\ newest \in 0..MaxEvents /\ offered \subseteq 1..MaxEvents
      /\ faults \in 0..MaxFaults /\ longBackOffs \in 0..MaxLongBackOffs /\ crashes \in 0..MaxCrashes
  BY <1>2 DEF HistoryType
<1> QED
  BY <1>4, <1>5, <1>6, <1>7, <1>8, <1>9, Zenon DEF TypeOK

\* The federation sender keeps its types: what is queued, being sent, stored
\* or recorded is always one of the events there are, for any number of
\* events, failures, back-offs and restarts.
THEOREM TypeCorrect == Spec => []TypeOK
<1>1. Init => TypeInv
  BY TypeInit
<1>2. TypeInv /\ [Next]_vars => TypeInv'
  BY TypeStep
<1>3. TypeInv => TypeOK
  BY TypeInvImpliesTypeOK
<1> QED
  BY <1>1, <1>2, <1>3, PTL DEF Spec

-----------------------------------------------------------------------------
(* No event is forgotten. *)

LEMMA FedInit == ASSUME Init PROVE FedInv
<1>1. TypeInv
  BY TypeInit
<1>2. /\ events = <<>> /\ Len(events) = 0 /\ outPos = 0 /\ processing = "idle" /\ handlers = {}
      /\ queue = <<>> /\ todo = <<>> /\ loop = "idle" /\ offered = {} /\ lastKnown = Unknown
      /\ lastSuccessful \in {Unknown, 0}
  BY Zenon DEF Init
<1>3. UpToNewest
  <2>1. newest = 0 /\ Range(queue) = {} /\ Range(todo) = {} /\ Stored \subseteq {0}
    BY <1>2 DEF Init, Range, Stored
  <2>2. \A x \in DealtWith : x \in {0, -1}
    BY <1>2, <2>1 DEF DealtWith, Unknown
  <2>3. \A x \in DealtWith : x <= newest
    BY <2>1, <2>2
  <2> QED
    BY <2>3, <1>2, Zenon DEF UpToNewest
<1>4. LoopState
  BY <1>2 DEF LoopState, Unknown
<1>5. Kept
  BY <1>2 DEF Kept
<1> QED
  BY <1>1, <1>3, <1>4, <1>5 DEF FedInv

\* The numbers the argument is about.
LEMMA Numbers ==
    ASSUME TypeInv
    PROVE  /\ events \in Seq(Rooms) /\ Len(events) \in Nat /\ outPos \in Nat /\ outPos <= Len(events)
           /\ lastSuccessful \in Int /\ lastSuccessful <= Len(events)
           /\ lastKnown \in Int /\ lastKnown <= Len(events)
           /\ lastSuccessful \in Nat \/ lastSuccessful = -1
           /\ lastKnown \in Nat \/ lastKnown = -1
           /\ nextToken \in Nat /\ nextToken <= Len(events)
           /\ lastSkipped \in Nat
           /\ \A r \in Rooms : destinationRooms[r] \in Nat /\ destinationRooms[r] <= Len(events)
           /\ \A e \in 1..Len(events) : e \in Nat /\ e >= 1 /\ events[e] \in Rooms
           /\ delivered \subseteq 1..Len(events) /\ offered \subseteq 1..Len(events) /\ newest \in Nat
<1>1. /\ events \in Seq(Rooms) /\ Len(events) \in Nat /\ outPos \in Nat /\ outPos <= Len(events)
      /\ lastSuccessful \in Int /\ lastSuccessful <= Len(events)
      /\ lastSuccessful \in Nat \/ lastSuccessful = -1
      /\ \A r \in Rooms : destinationRooms[r] \in Nat /\ destinationRooms[r] <= Len(events)
  BY DEF TypeInv, DatabaseType, Unknown
<1>2. /\ lastKnown \in Int /\ lastKnown <= Len(events) /\ (lastKnown \in Nat \/ lastKnown = -1)
      /\ lastSkipped \in Nat /\ nextToken \in Nat /\ nextToken <= Len(events)
  BY <1>1 DEF TypeInv, QueueType, SenderType, Unknown
<1>3. delivered \subseteq 1..Len(events) /\ offered \subseteq 1..Len(events) /\ newest \in Nat
  BY DEF TypeInv, HistoryType
<1> QED
  BY <1>1, <1>2, <1>3

LEMMA ReachedGrows ==
    ASSUME TypeInv, delivered \subseteq delivered', \A x \in 1..Len(events) : events'[x] = events[x],
           NEW e \in 1..Len(events), Reached(e)
    PROVE  Reached(e)'
<1>1. PICK d \in delivered : events[d] = events[e] /\ d >= e
  BY DEF Reached
<1>2. d \in 1..Len(events) /\ d \in delivered'
  BY <1>1, Numbers
<1>3. events'[d] = events'[e]
  BY <1>1, <1>2
<1> QED
  BY <1>1, <1>2, <1>3, Zenon DEF Reached

\* A later event of the room stands for the earlier ones.
LEMMA ReachedWithLater ==
    ASSUME TypeInv, NEW x \in 1..Len(events), NEW e \in 1..Len(events),
           events[x] = events[e], e <= x, Reached(x)
    PROVE  Reached(e)
<1>1. PICK d \in delivered : events[d] = events[x] /\ d >= x
  BY DEF Reached
<1>2. d \in 1..Len(events) /\ Len(events) \in Nat
  BY Numbers
<1>3. d >= e
  BY <1>1, <1>2
<1> QED
  BY <1>1, <1>3, Zenon DEF Reached

\* Steps that only concern other things.
LEMMA QuietCatchingUp ==
    ASSUME LoopState, catchingUp' = catchingUp, loop' = loop
    PROVE  /\ loop' \in {"select", "send", "mark"} => ~catchingUp'
           /\ loop' \in {"read_last", "look", "looked", "catch_up", "record"} => catchingUp'
BY Zenon DEF LoopState

LEMMA QuietLoopState ==
    ASSUME LoopState,
           UNCHANGED <<events, lastSuccessful, queue, catchingUp, lastKnown, todo, delivered, newest, offered>>,
           loop' = loop \/ loop' \in {"idle", "limiter"}
    PROVE  LoopState'
<1>1. \A x : Reached(x)' <=> Reached(x)
  BY DEF Reached, history
<1>2. /\ loop' \in {"select", "send", "mark"} => ~catchingUp'
      /\ loop' \in {"read_last", "look", "looked", "catch_up", "record"} => catchingUp'
  <2>1. catchingUp' = catchingUp
    OBVIOUS
  <2>2. CASE loop' = loop
    BY <2>1, <2>2, QuietCatchingUp
  <2>3. CASE loop' \in {"idle", "limiter"}
    BY <2>3
  <2> QED
    BY <2>2, <2>3
<1>3. /\ loop' = "send" => Len(todo') <= Len(queue') /\ \A i \in DOMAIN todo' : todo'[i] = queue'[i]
      /\ loop' = "record" => lastKnown' = Head(todo')
      /\ loop' = "mark" => \A i \in DOMAIN todo' : todo'[i] \in delivered'
      /\ lastSuccessful' = Unknown => offered' = {}
  BY DEF LoopState
<1>4. \A x \in {lastSuccessful', lastKnown'} : x > 0 => Reached(x)'
  BY <1>1 DEF LoopState
<1> QED
  BY <1>2, <1>3, <1>4 DEF LoopState, Unknown

LEMMA QuietKept ==
    ASSUME Kept,
           UNCHANGED <<events, destinationRooms, lastSuccessful, queue, catchingUp, lastSkipped,
                       lastKnown, todo, delivered, newest, offered>>,
           loop' = loop \/ loop' # "looked"
    PROVE  Kept'
<1> SUFFICES ASSUME NEW e \in offered PROVE Reached(e)' \/ Pending(e)'
  BY Zenon DEF Kept
<1>1. Reached(e) => Reached(e)'
  BY DEF Reached
<1>2. CatchUpGoesOn(e) => CatchUpGoesOn(e)'
  BY Zenon DEF CatchUpGoesOn
<1>3. Pending(e) => Pending(e)'
  BY <1>2 DEF Pending, Covered, Queued
<1> QED
  BY <1>1, <1>3 DEF Kept

LEMMA DealtWithType == ASSUME TypeInv PROVE \A x \in DealtWith : x \in Int
<1>1. \A x \in Range(queue) \union Range(todo) : x \in Int
  BY DEF TypeInv, QueueType, Range
<1>2. \A x \in Stored \union {lastSuccessful, lastKnown} : x \in Int
  BY Numbers DEF Stored
<1> QED
  BY <1>1, <1>2 DEF DealtWith

\* Steps that deal with nothing new.
LEMMA QuietUpToNewest ==
    ASSUME UpToNewest, UNCHANGED newest, DealtWith' \subseteq DealtWith,
           \A h \in handlers' : h.stored => \E g \in handlers : g.stored /\ g.events = h.events
    PROVE  UpToNewest'
BY Zenon DEF UpToNewest

LEMMA KeepsNewEvent == ASSUME FedInv, NEW r \in Rooms, NewEvent(r) PROVE FedInv'
<1> USE DEF FedInv
<1>1. TypeInv'
  BY TypeNewEvent
<1>2. /\ events \in Seq(Rooms) /\ events' = Append(events, r)
      /\ UNCHANGED <<outPos, destinationRooms, lastSuccessful, retry, nextToken, handlers,
                     perDestinationQueue, delivered, history, bounds>>
  BY Numbers, Zenon DEF NewEvent
<1>3. Len(events') = Len(events) + 1 /\ \A x \in 1..Len(events) : events'[x] = events[x]
  BY <1>2
<1>4. /\ queue' = queue /\ todo' = todo /\ lastKnown' = lastKnown /\ lastSkipped' = lastSkipped
      /\ catchingUp' = catchingUp /\ loop' = loop
  BY <1>2, Zenon DEF perDestinationQueue
<1>5. Len(events) \in Nat /\ UNCHANGED <<newest, offered>>
  BY <1>2, Numbers DEF history
<1>6. UpToNewest'
  <2>1. DealtWith' = DealtWith
    BY <1>2, <1>4 DEF DealtWith, Stored
  <2> QED
    BY <2>1, <1>2, <1>5, QuietUpToNewest
<1>7. \A e \in 1..Len(events) : Reached(e) => Reached(e)'
  BY <1>2, <1>3, ReachedGrows
<1>8. LoopState'
  <2>1. \A x \in {lastSuccessful', lastKnown'} : x > 0 => Reached(x)'
    BY <1>2, <1>4, <1>7, Numbers DEF LoopState
  <2>2. /\ loop' \in {"select", "send", "mark"} => ~catchingUp'
        /\ loop' \in {"read_last", "look", "looked", "catch_up", "record"} => catchingUp'
    BY <1>4, Zenon DEF LoopState
  <2>3. /\ loop' = "send" => Len(todo') <= Len(queue') /\ \A i \in DOMAIN todo' : todo'[i] = queue'[i]
        /\ loop' = "record" => lastKnown' = Head(todo')
        /\ loop' = "mark" => \A i \in DOMAIN todo' : todo'[i] \in delivered'
        /\ lastSuccessful' = Unknown => offered' = {}
    BY <1>2, <1>4, <1>5 DEF LoopState
  <2> QED
    BY <2>1, <2>2, <2>3 DEF LoopState, Unknown
<1>9. Kept'
  <2> SUFFICES ASSUME NEW e \in offered
               PROVE  destinationRooms'[events'[e]] >= e /\ (Reached(e)' \/ Pending(e)')
    BY <1>5 DEF Kept
  <2>1. e \in 1..Len(events) /\ events'[e] = events[e] /\ destinationRooms'[events'[e]] >= e
    BY <1>2, <1>3, Numbers DEF Kept
  <2>2. CASE Reached(e)
    BY <2>1, <2>2, <1>7
  <2>3. CASE Pending(e)
    <3>1. CatchUpGoesOn(e) => CatchUpGoesOn(e)'
      BY <1>4, Zenon DEF CatchUpGoesOn
    <3>2. \A i \in DOMAIN todo : events'[todo[i]] = events[todo[i]]
      <4>1. \A i \in DOMAIN todo : todo[i] \in 1..Len(events)
        BY DEF TypeInv, QueueType
      <4> QED
        BY <4>1, <1>3
    <3>3. \A i \in DOMAIN queue : events'[queue[i]] = events[queue[i]]
      <4>1. \A i \in DOMAIN queue : queue[i] \in 1..Len(events)
        BY DEF TypeInv, QueueType
      <4> QED
        BY <4>1, <1>3
    <3>4. \A j \in DOMAIN todo : \A i \in 1..j : i \in DOMAIN todo
      BY DEF TypeInv, QueueType
    <3>5. \A j \in DOMAIN queue : \A i \in 1..j : i \in DOMAIN queue
      BY DEF TypeInv, QueueType
    <3>6. Covered(todo, e) => Covered(todo, e)'
      BY <2>1, <3>2, <3>4, <1>2, <1>4, Zenon DEF Covered
    <3>7. Covered(queue, e) => Covered(queue, e)'
      BY <2>1, <3>3, <3>5, <1>2, <1>4, Zenon DEF Covered
    <3>8. Queued(e) => Queued(e)'
      BY <1>4, Zenon DEF Queued
    <3>9. /\ destinationRooms'[events'[e]] = destinationRooms[events[e]]
          /\ lastSuccessful' = lastSuccessful /\ lastKnown' = lastKnown
      BY <2>1, <1>2, <1>4
    <3>10. Pending(e)'
      BY <2>3, <3>1, <3>6, <3>7, <3>8, <3>9, Zenon DEF Pending
    <3> QED
      BY <2>1, <3>10
  <2> QED
    BY <2>1, <2>2, <2>3 DEF Kept
<1> QED
  BY <1>1, <1>6, <1>8, <1>9

LEMMA KeepsStoreDestinationRoom ==
    ASSUME FedInv, NEW h \in handlers, StoreDestinationRoom(h)
    PROVE  FedInv'
<1> USE DEF FedInv
<1> DEFINE x == Head(h.events)
           q == events[x]
           g == [h EXCEPT !.stored = TRUE]
<1>1. TypeInv'
  BY TypeStoreDestinationRoom
<1>2. /\ destinationRooms' = [destinationRooms EXCEPT ![q] = x]
      /\ handlers' = (handlers \ {h}) \union {g}
      /\ offered' = IF destinationRooms[q] <= x THEN offered ELSE {f \in offered : events[f] # q}
      /\ newest' = IF x > newest THEN x ELSE newest
      /\ UNCHANGED <<events, outPos, lastSuccessful, retry, processing, nextToken,
                     perDestinationQueue, delivered, bounds>>
  BY Zenon DEF StoreDestinationRoom
<1>3. /\ queue' = queue /\ todo' = todo /\ lastKnown' = lastKnown /\ lastSkipped' = lastSkipped
      /\ catchingUp' = catchingUp /\ loop' = loop
  BY <1>2, Zenon DEF perDestinationQueue
<1>4. g.events = h.events
  <2>1. h \in HandlerType
    BY DEF TypeInv, SenderType
  <2> QED
    BY <2>1, Zenon DEF HandlerType
<1>5. /\ q \in Rooms /\ destinationRooms \in [Rooms -> 0..Len(events)] /\ Len(events) \in Nat
      /\ x \in Nat /\ x \in 1..Len(events) /\ newest \in Nat
  BY HandlerHead, Numbers DEF TypeInv, DatabaseType
<1>6. destinationRooms'[q] = x /\ \A r \in Rooms : r # q => destinationRooms'[r] = destinationRooms[r]
  BY <1>2, <1>5
<1>7. Head(g.events) = x
  BY <1>4
<1> HIDE DEF x, q, g
<1>8. x <= newest' /\ newest <= newest' /\ newest' \in Nat
  BY <1>2, <1>5
<1>9. UpToNewest'
  <2>1. ASSUME NEW y \in DealtWith' PROVE y <= newest'
    <3>1. \A r \in Rooms : destinationRooms'[r] = x \/ destinationRooms'[r] = destinationRooms[r]
      BY <1>6
    <3>2. Stored' \subseteq {x} \union Stored
      BY <3>1, Zenon DEF Stored
    <3>3. y \in DealtWith \/ y = x
      BY <3>2, <1>2, <1>3 DEF DealtWith
    <3>4. CASE y \in DealtWith
      <4>1. y \in Int /\ y <= newest
        BY <3>4, DealtWithType DEF UpToNewest
      <4> QED
        BY <4>1, <1>5, <1>8
    <3> QED
      BY <3>3, <3>4, <1>8
  <2>2. ASSUME NEW k \in handlers', k.stored PROVE Head(k.events) <= newest'
    <3>1. CASE k = g
      BY <3>1, <1>7, <1>8
    <3>2. CASE k \in handlers
      <4>1. Head(k.events) <= newest /\ Head(k.events) \in 1..Len(events)
        BY <3>2, <2>2, HandlerHead DEF UpToNewest
      <4> QED
        BY <4>1, <1>5, <1>8
    <3> QED
      BY <3>1, <3>2, <1>2
  <2> QED
    BY <2>1, <2>2, Zenon DEF UpToNewest
<1>10. LoopState'
  <2>1. \A y : Reached(y)' <=> Reached(y)
    BY <1>2 DEF Reached
  <2>2. \A y \in {lastSuccessful', lastKnown'} : y > 0 => Reached(y)'
    BY <2>1, <1>2, <1>3 DEF LoopState
  <2>3. lastSuccessful' = Unknown => offered' = {}
    BY <1>2 DEF LoopState
  <2>4. /\ loop' \in {"select", "send", "mark"} => ~catchingUp'
        /\ loop' \in {"read_last", "look", "looked", "catch_up", "record"} => catchingUp'
    BY <1>3, QuietCatchingUp
  <2>5. /\ loop' = "send" => Len(todo') <= Len(queue') /\ \A i \in DOMAIN todo' : todo'[i] = queue'[i]
        /\ loop' = "record" => lastKnown' = Head(todo')
        /\ loop' = "mark" => \A i \in DOMAIN todo' : todo'[i] \in delivered'
    BY <1>2, <1>3 DEF LoopState
  <2> QED
    BY <2>2, <2>3, <2>4, <2>5 DEF LoopState, Unknown
<1>11. ASSUME NEW e \in offered'
       PROVE  /\ e \in offered /\ e \in 1..Len(events) /\ events[e] \in Rooms
              /\ destinationRooms[events[e]] \in Nat /\ destinationRooms'[events[e]] \in Nat
              /\ destinationRooms'[events[e]] >= destinationRooms[events[e]]
  <2>1. e \in offered
    BY <1>2, <1>11
  <2>2. e \in 1..Len(events) /\ events[e] \in Rooms /\ destinationRooms[events[e]] \in Nat
    BY <2>1, Numbers
  <2>3. CASE events[e] = q
    <3>1. destinationRooms[q] <= x
      BY <2>3, <1>2, <1>11
    <3> QED
      BY <2>1, <2>2, <2>3, <3>1, <1>5, <1>6
  <2>4. CASE events[e] # q
    BY <2>1, <2>2, <2>4, <1>6
  <2> QED
    BY <2>3, <2>4
<1>12. Kept'
  <2> SUFFICES ASSUME NEW e \in offered'
               PROVE  destinationRooms'[events[e]] >= e /\ (Reached(e)' \/ Pending(e)')
    BY <1>2 DEF Kept
  <2> DEFINE old == destinationRooms[events[e]]
             row == destinationRooms'[events[e]]
  <2>1. e \in offered /\ e \in 1..Len(events) /\ old \in Nat /\ row \in Nat /\ row >= old
    BY <1>11
  <2>2. old >= e /\ (Reached(e) \/ Pending(e))
    BY <2>1 DEF Kept
  <2>3. Reached(e) => Reached(e)'
    BY <1>2 DEF Reached
  <2>4. ASSUME Pending(e) PROVE Pending(e)'
    <3>1. row > lastSuccessful' /\ row > lastKnown'
      <4>1. old > lastSuccessful /\ old > lastKnown
        BY <2>4 DEF Pending
      <4> HIDE DEF old, row
      <4> QED
        BY <4>1, <2>1, <1>2, <1>3, Numbers
    <3>2. \A y \in Int : y < old => y < row
      <4> HIDE DEF old, row
      <4> QED
        BY <2>1
    <3>3. \A j \in DOMAIN todo : todo[j] \in Int
      BY DEF TypeInv, QueueType
    <3>4. \A j \in DOMAIN queue : queue[j] \in Int
      BY DEF TypeInv, QueueType
    <3>5. Covered(todo, e) => Covered(todo, e)'
      BY <3>2, <3>3, <1>2, <1>3, Zenon DEF Covered
    <3>6. Covered(queue, e) => Covered(queue, e)'
      BY <3>2, <3>4, <1>2, <1>3, Zenon DEF Covered
    <3>7. CatchUpGoesOn(e) => CatchUpGoesOn(e)'
      BY <1>3, Zenon DEF CatchUpGoesOn
    <3>8. Queued(e) => Queued(e)'
      BY <1>3, Zenon DEF Queued
    <3>9. destinationRooms'[events'[e]] = row
      BY <1>2
    <3> HIDE DEF row, old
    <3> QED
      BY <2>4, <3>1, <3>5, <3>6, <3>7, <3>8, <3>9, Zenon DEF Pending
  <2>5. row >= e
    <3> HIDE DEF row, old
    <3> QED
      BY <2>1, <2>2
  <2> QED
    BY <2>2, <2>3, <2>4, <2>5
<1> QED
  BY <1>1, <1>9, <1>10, <1>12

LEMMA KeepsHandOver == ASSUME FedInv, NEW h \in handlers, HandOver(h) PROVE FedInv'
<1> USE DEF FedInv
<1> DEFINE x == Head(h.events)
<1>1. TypeInv'
  BY TypeHandOver
<1>2. UNCHANGED <<database, delivered>>
  BY Zenon DEF HandOver
<1>3. UNCHANGED <<events, outPos, destinationRooms, lastSuccessful, delivered>>
  BY <1>2, Zenon DEF database
<1>4. newest' = newest /\ newest \in Nat
  BY Numbers, Zenon DEF HandOver
<1>5. Stored' = Stored
  BY <1>3 DEF Stored
<1>6. /\ x \in 1..Len(events) /\ x \in Nat /\ x >= 1 /\ x <= newest /\ events[x] \in Rooms
      /\ \A y \in DealtWith : y \in Int /\ y <= newest
  <2>1. h.stored
    BY Zenon DEF HandOver
  <2>2. Head(h.events) <= newest /\ Head(h.events) \in 1..Len(events) /\ events[Head(h.events)] \in Rooms
    BY <2>1, HandlerHead DEF UpToNewest
  <2> QED
    BY <2>2, DealtWithType DEF UpToNewest
<1>7. \A k \in handlers' : k.stored => k \in handlers
  <2> DEFINE rest == [events |-> Tail(h.events), stored |-> FALSE, orphan |-> h.orphan]
  <2>1. handlers' = (handlers \ {h}) \union (IF rest.events = <<>> THEN {} ELSE {rest})
    BY Zenon DEF HandOver
  <2>2. ~rest.stored
    OBVIOUS
  <2> HIDE DEF rest
  <2> QED
    BY <2>1, <2>2, Zenon
<1>8. CASE retry.wait = "far"
  <2>1. offered' = offered /\ UNCHANGED perDestinationQueue
    BY <1>8, Zenon DEF HandOver
  <2>2. UNCHANGED <<queue, catchingUp, lastSkipped, lastKnown, loop, todo>>
    BY <2>1, Zenon DEF perDestinationQueue
  <2>3. UpToNewest'
    <3>1. DealtWith' = DealtWith
      BY <1>3, <1>5, <2>2 DEF DealtWith
    <3> QED
      BY <3>1, <1>4, <1>7, QuietUpToNewest
  <2>4. LoopState' /\ Kept'
    BY <1>3, <1>4, <2>1, <2>2, QuietLoopState, QuietKept
  <2> QED
    BY <1>1, <2>3, <2>4
<1>9. CASE retry.wait # "far"
  <2>1. /\ SendPdu(x) /\ UNCHANGED <<catchingUp, lastKnown, firstCheck, todo>>
        /\ offered' = {f \in offered : f <= lastSkipped' \/ f > lastSkipped}
              \union {f \in {x} : x = newest /\ x = destinationRooms[events[x]] /\ lastSuccessful # Unknown}
    BY <1>9, Zenon DEF HandOver
  <2>2. loop' = IF loop = "idle" THEN "limiter" ELSE loop
    BY <2>1, Zenon DEF SendPdu, AttemptNewTransaction
  <2>3. \/ queue' = Append(queue, x) /\ lastSkipped' = lastSkipped
        \/ catchingUp /\ queue' = queue /\ lastSkipped' = x
    BY <2>1, Zenon DEF SendPdu
  <2>4. queue \in Seq(1..Len(events)) /\ todo \in Seq(1..Len(events)) /\ Len(queue) \in Nat
    BY DEF TypeInv, QueueType
  <2> HIDE DEF x
  <2>5. /\ DOMAIN queue \subseteq DOMAIN queue' /\ Len(queue) <= Len(queue')
        /\ \A i \in DOMAIN queue : queue'[i] = queue[i]
        /\ \A i \in DOMAIN queue' : i \in DOMAIN queue \/ queue'[i] = x
        /\ \A j \in DOMAIN queue' : j \in Nat /\ (j \notin DOMAIN queue => \A i \in DOMAIN queue : i \in 1..j)
    <3>1. CASE queue' = Append(queue, x)
      <4>1. DOMAIN queue = 1..Len(queue) /\ DOMAIN queue' = 1 .. Len(queue) + 1 /\ Len(queue') = Len(queue) + 1
        BY <3>1, <2>4, <1>6
      <4>2. queue'[Len(queue) + 1] = x /\ \A i \in 1..Len(queue) : queue'[i] = queue[i]
        BY <3>1, <2>4, <1>6
      <4> QED
        BY <4>1, <4>2, <2>4
    <3>2. CASE queue' = queue
      BY <3>2, <2>4
    <3> QED
      BY <3>1, <3>2, <2>3
  <2>6. UpToNewest'
    <3>1. Range(queue') \subseteq Range(queue) \union {x}
      BY <2>5, Zenon DEF Range
    <3>2. DealtWith' \subseteq DealtWith \union {x}
      BY <3>1, <1>3, <1>5, <2>1 DEF DealtWith
    <3>3. \A y \in DealtWith' : y <= newest'
      BY <3>2, <1>4, <1>6
    <3> QED
      BY <3>3, <1>4, <1>7, Zenon DEF UpToNewest
  <2>7. LoopState'
    <3>1. lastSuccessful' = Unknown => offered' = {}
      BY <1>3, <2>1 DEF LoopState
    <3>2. \A y : Reached(y)' <=> Reached(y)
      BY <1>3 DEF Reached
    <3>3. \A y \in {lastSuccessful', lastKnown'} : y > 0 => Reached(y)'
      BY <3>2, <1>3, <2>1 DEF LoopState
    <3>4. /\ loop' \in {"select", "send", "mark"} => ~catchingUp'
          /\ loop' \in {"read_last", "look", "looked", "catch_up", "record"} => catchingUp'
      <4>1. CASE loop' = loop
        BY <4>1, <2>1, QuietCatchingUp
      <4>2. CASE loop' = "limiter"
        BY <4>2
      <4> QED
        BY <4>1, <4>2, <2>2
    <3>5. loop' = "send" => Len(todo') <= Len(queue') /\ \A i \in DOMAIN todo' : todo'[i] = queue'[i]
      <4> SUFFICES ASSUME loop' = "send"
                   PROVE  Len(todo) <= Len(queue') /\ \A i \in DOMAIN todo : todo[i] = queue'[i]
        BY <2>1
      <4>1. Len(todo) <= Len(queue) /\ \A i \in DOMAIN todo : todo[i] = queue[i]
        BY <2>2 DEF LoopState
      <4>2. \A i \in DOMAIN todo : i \in DOMAIN queue
        BY <4>1, <2>4
      <4>3. Len(todo) <= Len(queue')
        BY <4>1, <2>3, <2>4, <1>6
      <4> QED
        BY <4>1, <4>2, <4>3, <2>5
    <3>6. /\ loop' = "record" => lastKnown' = Head(todo')
          /\ loop' = "mark" => \A i \in DOMAIN todo' : todo'[i] \in delivered'
      BY <1>3, <2>1, <2>2 DEF LoopState
    <3> QED
      BY <3>1, <3>3, <3>4, <3>5, <3>6 DEF LoopState, Unknown
  <2>8. Kept'
    <3> SUFFICES ASSUME NEW e \in offered', ~Reached(e) PROVE Pending(e)'
      <4>1. \A e \in offered' : Reached(e) => Reached(e)'
        BY <1>3 DEF Reached
      <4>2. ASSUME NEW e \in offered' PROVE destinationRooms'[events'[e]] >= e
        <5>1. CASE e \in offered
          BY <5>1, <1>3 DEF Kept
        <5>2. CASE e = x /\ x = destinationRooms[events[x]]
          BY <5>2, <1>3, <1>6
        <5> QED
          BY <5>1, <5>2, <2>1
      <4> QED
        BY <4>1, <4>2 DEF Kept
    <3>1. \/ e \in offered /\ (e <= lastSkipped' \/ e > lastSkipped)
          \/ e = x /\ x = newest /\ x = destinationRooms[events[x]]
      BY <2>1
    <3>2. e \in 1..Len(events) /\ e \in Nat /\ events[e] \in Rooms
      BY <3>1, <1>6, Numbers
    <3> DEFINE row == destinationRooms[events[e]]
    <3>3. destinationRooms'[events'[e]] = row /\ row \in Nat
      BY <1>3, <3>2, Numbers
    <3>4. CASE e \in offered /\ (e <= lastSkipped' \/ e > lastSkipped)
      <4>2. Pending(e)
        BY <3>4 DEF Kept
      <4>3. row > lastSuccessful' /\ row > lastKnown'
        BY <4>2, <1>3, <2>1 DEF Pending
      <4>4. Covered(todo, e)'
        BY <4>2, <3>3, <1>3, <2>1 DEF Pending, Covered
      <4>5. ASSUME Queued(e), Covered(queue, e)
            PROVE  Queued(e)' /\ Covered(queue, e)'
        <5>1. PICK k \in DOMAIN queue : queue[k] = e
          BY <4>5 DEF Queued
        <5>2. Queued(e)'
          BY <5>1, <2>5 DEF Queued
        <5>3. ASSUME NEW j \in DOMAIN queue'
              PROVE  queue'[j] < row \/ \E i \in 1..j : events[queue'[i]] = events[e] /\ queue'[i] >= e
          <6>1. CASE j \in DOMAIN queue
            <7>1. \A i \in 1..j : i \in DOMAIN queue /\ queue'[i] = queue[i]
              BY <6>1, <2>4, <2>5
            <7> QED
              BY <6>1, <7>1, <4>5, <2>5, Zenon DEF Covered
          <6>2. CASE j \notin DOMAIN queue
            <7>1. k \in 1..j
              BY <6>2, <5>1, <2>5
            <7>2. queue'[k] = e /\ e >= e
              BY <5>1, <2>5, <3>2
            <7> QED
              BY <7>1, <7>2
          <6> QED
            BY <6>1, <6>2
        <5>4. Covered(queue, e)'
          <6> HIDE DEF row
          <6> QED
            BY <5>3, <3>3, <1>3 DEF Covered
        <5> QED
          BY <5>2, <5>4
      <4>6. ASSUME CatchUpGoesOn(e) PROVE CatchUpGoesOn(e)'
        <5>1. catchingUp'
          BY <4>6, <2>1, Zenon DEF CatchUpGoesOn
        <5>2. ASSUME loop' = "looked", todo' = <<>> PROVE lastKnown' < e /\ e <= lastSkipped'
          <6>1. lastKnown < e /\ e <= lastSkipped /\ lastKnown' = lastKnown
            BY <4>6, <5>2, <2>1, <2>2 DEF CatchUpGoesOn
          <6>2. ~ (e > lastSkipped)
            BY <6>1, <3>2, Numbers
          <6> QED
            BY <6>1, <6>2, <3>4
        <5> QED
          BY <5>1, <5>2, Zenon DEF CatchUpGoesOn
      <4> HIDE DEF row
      <4> QED
        BY <4>2, <4>3, <4>4, <4>5, <4>6, <3>3, Zenon DEF Pending
    <3>5. CASE e = x /\ x = newest /\ x = destinationRooms[events[x]]
      <4>1. row = x
        BY <3>5
      <4> HIDE DEF row
      <4>2. \A y \in {lastSuccessful, lastKnown} : y < x
        <5> SUFFICES ASSUME NEW y \in {lastSuccessful, lastKnown} PROVE y < x
          OBVIOUS
        <5>1. y \in Int /\ y <= x
          BY <3>5, <1>6 DEF DealtWith
        <5>2. y # x
          BY <3>5, <1>6 DEF LoopState
        <5> QED
          BY <5>1, <5>2, <1>6
      <4>3. ASSUME NEW y \in Range(todo) \union Range(queue) \union {x}, ~ (y < x)
            PROVE  events[y] = events[e] /\ y >= e
        <5>1. y \in Int /\ y <= x
          BY <3>5, <1>6 DEF DealtWith
        <5> QED
          BY <5>1, <4>3, <3>5, <1>6
      <4>4. Covered(todo, e)'
        <5> SUFFICES ASSUME NEW j \in DOMAIN todo
                     PROVE  todo[j] < x \/ \E i \in 1..j : events[todo[i]] = events[e] /\ todo[i] >= e
          BY <4>1, <3>3, <1>3, <2>1 DEF Covered
        <5>1. j \in 1..j /\ todo[j] \in Range(todo)
          BY <2>4 DEF Range
        <5> QED
          BY <5>1, <4>3
      <4>5. Covered(queue, e)'
        <5> SUFFICES ASSUME NEW j \in DOMAIN queue'
                     PROVE  queue'[j] < x \/ \E i \in 1..j : events[queue'[i]] = events[e] /\ queue'[i] >= e
          BY <4>1, <3>3, <1>3 DEF Covered
        <5>1. queue'[j] \in Range(queue) \union {x}
          BY <2>5 DEF Range
        <5>2. j \in 1..j
          <6>1. queue' \in Seq(1..Len(events))
            BY <1>1, <1>3 DEF TypeInv, QueueType
          <6> QED
            BY <6>1
        <5> QED
          BY <5>1, <5>2, <4>3
      <4>6. row > lastSuccessful' /\ row > lastKnown'
        BY <4>1, <4>2, <1>3, <1>6, <2>1, Numbers
      <4>7. CASE queue' = Append(queue, x)
        <5>1. Queued(e)'
          <6>1. Len(queue) + 1 \in DOMAIN queue' /\ queue'[Len(queue) + 1] = x
            BY <4>7, <2>4, <1>6
          <6> QED
            BY <6>1, <3>5 DEF Queued
        <5> QED
          BY <5>1, <4>4, <4>5, <4>6, <3>3, Zenon DEF Pending
      <4>8. CASE catchingUp /\ lastSkipped' = x
        <5>1. lastKnown' < e /\ e <= lastSkipped'
          BY <4>8, <4>2, <3>5, <2>1, <1>6
        <5>2. catchingUp'
          BY <4>8, <2>1, Zenon
        <5>3. CatchUpGoesOn(e)'
          BY <5>1, <5>2, Zenon DEF CatchUpGoesOn
        <5> QED
          BY <5>3, <4>4, <4>6, <3>3, Zenon DEF Pending
      <4> QED
        BY <4>7, <4>8, <2>3
    <3> QED
      BY <3>1, <3>4, <3>5
  <2> QED
    BY <1>1, <2>6, <2>7, <2>8
<1> QED
  BY <1>8, <1>9

\* Steps of the sender that store nothing and hand nothing over.
LEMMA KeepsQuietSender ==
    ASSUME FedInv, TypeInv',
           UNCHANGED <<events, destinationRooms, lastSuccessful, perDestinationQueue, delivered,
                       newest, offered>>,
           \A h \in handlers' : h.stored => \E g \in handlers : g.stored /\ g.events = h.events
    PROVE  FedInv'
<1> USE DEF FedInv
<1>1. UNCHANGED <<queue, catchingUp, lastSkipped, lastKnown, loop, todo>>
  BY Zenon DEF perDestinationQueue
<1>2. LoopState' /\ Kept'
  BY <1>1, QuietLoopState, QuietKept
<1>3. DealtWith' = DealtWith
  BY <1>1 DEF DealtWith, Stored
<1> QED
  BY <1>2, <1>3, QuietUpToNewest

LEMMA KeepsHandlerFails ==
    ASSUME FedInv, TypeInv', NEW h \in handlers, HandlerFails(h)
    PROVE  FedInv'
<1>1. UNCHANGED <<database, perDestinationQueue, delivered, history>>
  BY Zenon DEF HandlerFails
<1>2. UNCHANGED <<events, destinationRooms, lastSuccessful, newest, offered>>
  BY <1>1, Zenon DEF database, history
<1>3. handlers' = handlers \ {h} \/ handlers' = {[g EXCEPT !.orphan = TRUE] : g \in handlers \ {h}}
  BY Zenon DEF HandlerFails
<1>4. \A g \in handlers : LET k == [g EXCEPT !.orphan = TRUE] IN k.stored = g.stored /\ k.events = g.events
  <2>1. \A g \in handlers : g \in HandlerType
    BY DEF FedInv, TypeInv, SenderType
  <2> QED
    BY <2>1 DEF HandlerType
<1>5. \A k \in handlers' : k.stored => \E g \in handlers : g.stored /\ g.events = k.events
  <2> SUFFICES ASSUME NEW k \in handlers', k.stored
               PROVE  \E g \in handlers : g.stored /\ g.events = k.events
    OBVIOUS
  <2>1. CASE k \in handlers
    BY <2>1
  <2>2. CASE \E g \in handlers : k = [g EXCEPT !.orphan = TRUE]
    BY <2>2, <1>4
  <2> QED
    BY <2>1, <2>2, <1>3, Zenon
<1> QED
  BY <1>1, <1>2, <1>5, KeepsQuietSender

LEMMA KeepsRounds ==
    ASSUME FedInv, TypeInv', Notify \/ ReadNewEvents \/ UpdateOutPos \/ ProcessingFails
    PROVE  FedInv'
<1>1. /\ UNCHANGED <<events, destinationRooms, lastSuccessful, perDestinationQueue, delivered>>
      /\ UNCHANGED <<newest, offered>>
  BY Zenon DEF Notify, ReadNewEvents, UpdateOutPos, ProcessingFails, database, history
<1>2. \A h \in handlers' : h \in handlers \/ ~h.stored
  <2>1. CASE Notify \/ UpdateOutPos \/ ProcessingFails
    BY <2>1, Zenon DEF Notify, UpdateOutPos, ProcessingFails
  <2>2. CASE ReadNewEvents
    <3>1. PICK F, Q :
            handlers' = handlers \union {[events |-> F[r], stored |-> FALSE, orphan |-> FALSE] : r \in Q}
      <4> DEFINE round == {e \in outPos + 1 .. Len(events) : e <= outPos + RoundLimit}
                 InRoom(r) == {e \in round : events[e] = r}
                 Q == {q \in Rooms : InRoom(q) # {}}
                 F == [r \in Q |-> InOrder(InRoom(r), RoundLimit)]
      <4>1. handlers' = handlers \union
              {[events |-> InOrder(InRoom(r), RoundLimit), stored |-> FALSE, orphan |-> FALSE] : r \in Q}
        BY <2>2 DEF ReadNewEvents
      <4>2. \A r \in Q : F[r] = InOrder(InRoom(r), RoundLimit)
        OBVIOUS
      <4> HIDE DEF Q, F, InRoom
      <4>3. handlers' = handlers \union
              {[events |-> F[r], stored |-> FALSE, orphan |-> FALSE] : r \in Q}
        BY <4>1, <4>2
      <4> QED
        BY <4>3
    <3> QED
      BY <3>1
  <2> QED
    BY <2>1, <2>2
<1> QED
  BY <1>1, <1>2, KeepsQuietSender

\* Time, other requests and calls of attempt_new_transaction.
LEMMA KeepsWaking ==
    ASSUME FedInv, TypeInv',
           TimePasses \/ OtherRequestFails \/ RemoteServerUp \/ SendEdu \/ WakeDestination
    PROVE  FedInv'
<1> USE DEF FedInv
<1>1. UNCHANGED <<events, outPos, destinationRooms, lastSuccessful, sender, delivered, newest, offered>>
  BY Zenon DEF TimePasses, OtherRequestFails, RemoteServerUp, SendEdu, WakeDestination, database, history
<1>2. UNCHANGED <<queue, catchingUp, lastSkipped, lastKnown, todo>>
  BY Zenon DEF TimePasses, OtherRequestFails, RemoteServerUp, SendEdu, WakeDestination,
               perDestinationQueue
<1>3. loop' = loop \/ loop' = "limiter"
  <2>1. CASE TimePasses \/ OtherRequestFails
    BY <2>1, Zenon DEF TimePasses, OtherRequestFails, perDestinationQueue
  <2>2. CASE RemoteServerUp \/ SendEdu \/ WakeDestination
    BY <2>2, Zenon DEF RemoteServerUp, SendEdu, WakeDestination, AttemptNewTransaction
  <2> QED
    BY <2>1, <2>2
<1>4. handlers' = handlers
  BY <1>1, Zenon DEF sender
<1>5. LoopState'
  BY <1>1, <1>2, <1>3, QuietLoopState
<1>6. Kept'
  BY <1>1, <1>2, <1>3, QuietKept
<1>7. UpToNewest'
  <2>1. DealtWith' = DealtWith
    BY <1>1, <1>2 DEF DealtWith, Stored
  <2> QED
    BY <2>1, <1>1, <1>4, QuietUpToNewest
<1> QED
  BY <1>5, <1>6, <1>7

\* Steps of the transmission loop: they deal with nothing new, and it is
\* enough to look at the events that are still to be reached.
LEMMA KeepsLoop ==
    ASSUME FedInv, TypeInv', LoopState', delivered \subseteq delivered',
           UNCHANGED <<events, outPos, destinationRooms, sender, newest, offered>>,
           Range(queue') \subseteq DealtWith, Range(todo') \subseteq DealtWith,
           {lastSuccessful', lastKnown'} \subseteq DealtWith,
           \A e \in offered : Pending(e) /\ ~Reached(e)' => Pending(e)'
    PROVE  FedInv'
<1> USE DEF FedInv
<1>1. Kept'
  <2> SUFFICES ASSUME NEW e \in offered, ~Reached(e)' PROVE Pending(e)'
    BY DEF Kept
  <2>1. e \in 1..Len(events)
    BY Numbers
  <2>2. ~Reached(e)
    BY <2>1, ReachedGrows
  <2>3. Pending(e)
    BY <2>2 DEF Kept
  <2> QED
    BY <2>3
<1>2. UpToNewest'
  <2>1. Stored' = Stored
    BY DEF Stored
  <2>2. DealtWith' \subseteq DealtWith
    BY <2>1 DEF DealtWith
  <2>3. handlers' = handlers
    BY Zenon DEF sender
  <2> QED
    BY <2>2, <2>3, QuietUpToNewest
<1> QED
  BY <1>1, <1>2

LEMMA RecordsReached ==
    ASSUME FedInv, TypeInv', delivered \subseteq delivered', events' = events,
           {lastSuccessful', lastKnown'} \subseteq {lastSuccessful, lastKnown, Unknown}
    PROVE  \A x \in {lastSuccessful', lastKnown'} : x > 0 => Reached(x)'
<1> SUFFICES ASSUME NEW x \in {lastSuccessful', lastKnown'}, x > 0 PROVE Reached(x)'
  OBVIOUS
<1>1. x \in {lastSuccessful, lastKnown} /\ x \in 1..Len(events)
  <2>1. x # Unknown
    BY DEF Unknown
  <2>2. x \in {lastSuccessful, lastKnown}
    BY <2>1
  <2> QED
    BY <2>2, Numbers DEF FedInv
<1>2. Reached(x)
  BY <1>1 DEF FedInv, LoopState
<1> QED
  BY <1>1, <1>2, ReachedGrows DEF FedInv

\* The loop ends; the queue is kept, or given up for catch-up.
LEMMA KeepsEndLoop ==
    ASSUME FedInv, TypeInv', EndLoop,
           UNCHANGED <<events, outPos, destinationRooms, lastSuccessful, sender, lastKnown, newest, offered>>,
           delivered \subseteq delivered',
           UNCHANGED <<catchingUp, queue>> \/ StartCatchingUp
    PROVE  FedInv'
<1> USE DEF FedInv
<1>1. loop' = "idle" /\ todo' = <<>>
  BY Zenon DEF EndLoop
<1>2. queue' = queue \/ queue' = <<>>
  BY Zenon DEF StartCatchingUp
<1>3. Range(todo') = {} /\ Range(queue') \subseteq Range(queue)
  BY <1>1, <1>2 DEF Range
<1>4. LoopState'
  <2>1. \A x \in {lastSuccessful', lastKnown'} : x > 0 => Reached(x)'
    BY RecordsReached
  <2>2. lastSuccessful' = Unknown => offered' = {}
    BY DEF LoopState
  <2> QED
    BY <1>1, <2>1, <2>2 DEF LoopState, Unknown
<1>5. ASSUME NEW e \in offered, Pending(e) PROVE Pending(e)'
  <2>1. Covered(todo, e)'
    BY <1>1 DEF Covered
  <2>2. CASE StartCatchingUp
    <3>1. CatchUpGoesOn(e)'
      <4>1. catchingUp'
        BY <2>2, Zenon DEF StartCatchingUp
      <4>2. loop' # "looked"
        BY <1>1
      <4> QED
        BY <4>1, <4>2, Zenon DEF CatchUpGoesOn
    <3> QED
      BY <1>5, <2>1, <3>1 DEF Pending
  <2>3. CASE UNCHANGED <<catchingUp, queue>>
    <3>1. CatchUpGoesOn(e) => CatchUpGoesOn(e)'
      <4>1. catchingUp' = catchingUp /\ loop' # "looked"
        BY <1>1, <2>3
      <4> QED
        BY <4>1, Zenon DEF CatchUpGoesOn
    <3>2. Queued(e) /\ Covered(queue, e) => Queued(e)' /\ Covered(queue, e)'
      BY <2>3 DEF Queued, Covered
    <3> QED
      BY <1>5, <2>1, <3>1, <3>2 DEF Pending
  <2> QED
    BY <2>2, <2>3
<1>6. Range(queue') \subseteq DealtWith /\ Range(todo') \subseteq DealtWith
  BY <1>3 DEF DealtWith
<1>7. {lastSuccessful', lastKnown'} \subseteq DealtWith
  BY DEF DealtWith
<1> QED
  BY <1>4, <1>5, <1>6, <1>7, KeepsLoop

LEMMA KeepsFailures ==
    ASSUME FedInv, TypeInv', TransactionFails \/ TransactionRefused \/ LoopFails
    PROVE  FedInv'
<1>1. EndLoop
  BY Zenon DEF TransactionFails, TransactionRefused, LoopFails, NotRetrying
<1>2. UNCHANGED <<events, outPos, destinationRooms, lastSuccessful, sender, lastKnown, newest, offered>>
  BY Zenon DEF TransactionFails, TransactionRefused, LoopFails, database, history
<1>3. UNCHANGED <<catchingUp, queue>> \/ StartCatchingUp
  BY Zenon DEF TransactionFails, TransactionRefused, LoopFails, NotRetrying
<1>4. delivered \subseteq delivered'
  BY Zenon DEF TransactionFails, TransactionRefused, LoopFails
<1> QED
  BY <1>1, <1>2, <1>3, <1>4, KeepsEndLoop

LEMMA KeepsRestart == ASSUME FedInv, Restart PROVE FedInv'
<1> USE DEF FedInv
<1>1. TypeInv'
  BY TypeRestart
<1>2. UNCHANGED <<database, delivered, newest, offered>>
  BY Zenon DEF Restart, history
<1>3. UNCHANGED <<events, outPos, destinationRooms, lastSuccessful>>
  BY <1>2, Zenon DEF database
<1>4. /\ processing' = "idle" /\ handlers' = {} /\ queue' = <<>> /\ lastKnown' = Unknown
      /\ loop' = "idle" /\ todo' = <<>>
  BY Zenon DEF Restart
<1>5. catchingUp'
  BY Zenon DEF Restart
<1>6. UpToNewest'
  <2>1. Stored' = Stored /\ Range(queue') = {} /\ Range(todo') = {}
    BY <1>3, <1>4 DEF Stored, Range
  <2>2. ASSUME NEW x \in DealtWith' PROVE x <= newest
    <3>1. x \in DealtWith \/ x = Unknown
      BY <2>1, <1>3, <1>4 DEF DealtWith
    <3> QED
      BY <3>1, Numbers DEF UpToNewest, Unknown
  <2> QED
    BY <2>2, <1>2, <1>4 DEF UpToNewest
<1>7. LoopState'
  <2>1. \A x \in {lastSuccessful', lastKnown'} : x > 0 => Reached(x)'
    BY <1>1, <1>2, <1>3, <1>4, RecordsReached
  <2>2. lastSuccessful' = Unknown => offered' = {}
    BY <1>2, <1>3 DEF LoopState
  <2> QED
    BY <1>4, <2>1, <2>2 DEF LoopState, Unknown
<1>8. Kept'
  <2> SUFFICES ASSUME NEW e \in offered, ~Reached(e)' PROVE Pending(e)'
    BY <1>2, <1>3 DEF Kept
  <2>1. e \in 1..Len(events) /\ events[e] \in Rooms
    BY Numbers
  <2>2. ~Reached(e)
    BY <2>1, <1>2, <1>3, ReachedGrows
  <2>3. Pending(e)
    BY <2>1, <2>2 DEF Kept
  <2>4. Covered(todo, e)'
    BY <1>4 DEF Covered
  <2>5. CatchUpGoesOn(e)'
    <3>1. loop' # "looked"
      BY <1>4
    <3> QED
      BY <1>5, <3>1, Zenon DEF CatchUpGoesOn
  <2>6. destinationRooms'[events'[e]] > lastSuccessful' /\ destinationRooms'[events'[e]] > lastKnown'
    BY <2>1, <2>3, <1>3, <1>4, Numbers DEF Pending, Unknown
  <2> QED
    BY <2>4, <2>5, <2>6 DEF Pending
<1> QED
  BY <1>1, <1>6, <1>7, <1>8

LEMMA KeepsCheckLimiter == ASSUME FedInv, CheckLimiter PROVE FedInv'
<1> USE DEF FedInv
<1>1. TypeInv'
  BY TypeCheckLimiter
<1>2. UNCHANGED <<database, sender, lastSkipped, lastKnown, delivered, newest, offered>>
  BY Zenon DEF CheckLimiter, history
<1>3. UNCHANGED <<events, outPos, destinationRooms, lastSuccessful>>
  BY <1>2, Zenon DEF database
<1>4. CASE retry.wait # "due"
  <2>1. NotRetrying
    BY <1>4, Zenon DEF CheckLimiter
  <2>2. EndLoop /\ (UNCHANGED <<catchingUp, queue>> \/ StartCatchingUp)
    BY <2>1, Zenon DEF NotRetrying
  <2> QED
    BY <2>2, <1>1, <1>2, <1>3, KeepsEndLoop
<1>5. CASE retry.wait = "due"
  <2>1. UNCHANGED <<queue, catchingUp, todo>>
    BY <1>5, Zenon DEF CheckLimiter
  <2>2. (catchingUp /\ loop' \in {"read_last", "look"}) \/ (~catchingUp /\ loop' = "select")
    BY <1>5, Zenon DEF CheckLimiter, NextTransaction
  <2>3. catchingUp' = catchingUp
    BY <2>1
  <2>4. LoopState'
    <3>1. \A x \in {lastSuccessful', lastKnown'} : x > 0 => Reached(x)'
      BY <1>1, <1>2, <1>3, RecordsReached
    <3>2. /\ loop' \in {"select", "send", "mark"} => ~catchingUp'
          /\ loop' \in {"read_last", "look", "looked", "catch_up", "record"} => catchingUp'
      <4>1. CASE catchingUp /\ loop' \in {"read_last", "look"}
        <5>1. catchingUp'
          BY <4>1, <2>3, Zenon
        <5>2. loop' \notin {"select", "send", "mark"}
          BY <4>1
        <5> QED
          BY <5>1, <5>2, Zenon
      <4>2. CASE ~catchingUp /\ loop' = "select"
        <5>1. ~catchingUp'
          BY <4>2, <2>3, Zenon
        <5>2. loop' \notin {"read_last", "look", "looked", "catch_up", "record"}
          BY <4>2
        <5> QED
          BY <5>1, <5>2, Zenon
      <4> QED
        BY <2>2, <4>1, <4>2
    <3>3. lastSuccessful' = Unknown => offered' = {}
      BY <1>2, <1>3 DEF LoopState
    <3>4. loop' \notin {"send", "record", "mark"}
      BY <2>2
    <3> QED
      BY <3>1, <3>2, <3>3, <3>4 DEF LoopState, Unknown
  <2>5. ASSUME NEW e \in offered, Pending(e) PROVE Pending(e)'
    <3>1. CatchUpGoesOn(e) => CatchUpGoesOn(e)'
      <4>1. loop' # "looked"
        BY <2>2
      <4> QED
        BY <4>1, <2>3, Zenon DEF CatchUpGoesOn
    <3> QED
      BY <3>1, <2>1, <2>5, <1>2, <1>3 DEF Pending, Queued, Covered
  <2>6. Range(queue') \subseteq DealtWith /\ Range(todo') \subseteq DealtWith
    BY <2>1 DEF DealtWith
  <2>7. {lastSuccessful', lastKnown'} \subseteq DealtWith /\ delivered \subseteq delivered'
    BY <1>2, <1>3 DEF DealtWith
  <2> QED
    BY <1>1, <1>2, <1>3, <2>4, <2>5, <2>6, <2>7, KeepsLoop
<1> QED
  BY <1>4, <1>5

LEMMA KeepsReadLastSuccessful == ASSUME FedInv, ReadLastSuccessful PROVE FedInv'
<1> USE DEF FedInv
<1>1. TypeInv'
  BY TypeReadLastSuccessful
<1>2. UNCHANGED <<database, sender, queue, lastSkipped, todo, delivered, newest, offered>>
  BY Zenon DEF ReadLastSuccessful, history
<1>3. UNCHANGED <<events, outPos, destinationRooms, lastSuccessful>>
  BY <1>2, Zenon DEF database
<1>4. lastKnown' = lastSuccessful /\ loop = "read_last"
  BY Zenon DEF ReadLastSuccessful
<1>5. \/ lastSuccessful = Unknown /\ ~catchingUp' /\ loop' = "select"
      \/ lastSuccessful # Unknown /\ catchingUp' = catchingUp /\ loop' = "look"
  BY Zenon DEF ReadLastSuccessful, NextTransaction
<1>6. lastSuccessful # Unknown => catchingUp'
  <2>1. catchingUp
    BY <1>4 DEF LoopState
  <2> QED
    BY <2>1, <1>5, Zenon
<1>7. LoopState'
  <2>1. \A x \in {lastSuccessful', lastKnown'} : x > 0 => Reached(x)'
    BY <1>1, <1>2, <1>3, <1>4, RecordsReached
  <2>2. lastSuccessful' = Unknown => offered' = {}
    BY <1>2, <1>3 DEF LoopState
  <2>3. (loop' = "select" /\ ~catchingUp') \/ (loop' = "look" /\ catchingUp')
    BY <1>5, <1>6, Zenon
  <2> QED
    BY <2>1, <2>2, <2>3 DEF LoopState, Unknown
<1>8. ASSUME NEW e \in offered, Pending(e) PROVE Pending(e)'
  <2>1. lastSuccessful # Unknown
    BY DEF LoopState
  <2>2. CatchUpGoesOn(e)'
    <3>1. loop' # "looked"
      BY <1>5
    <3> QED
      BY <2>1, <3>1, <1>6, Zenon DEF CatchUpGoesOn
  <2> QED
    BY <2>2, <1>2, <1>3, <1>4, <1>8 DEF Pending, Covered
<1>9. Range(queue') \subseteq DealtWith /\ Range(todo') \subseteq DealtWith
  BY <1>2 DEF DealtWith
<1>10. {lastSuccessful', lastKnown'} \subseteq DealtWith /\ delivered \subseteq delivered'
  BY <1>2, <1>3, <1>4 DEF DealtWith
<1> QED
  BY <1>1, <1>2, <1>3, <1>7, <1>8, <1>9, <1>10, KeepsLoop

LEMMA KeepsLookForMissed == ASSUME FedInv, LookForMissed PROVE FedInv'
<1> USE DEF FedInv
<1>1. TypeInv'
  BY TypeLookForMissed
<1>2. UNCHANGED <<database, sender, queue, catchingUp, lastSkipped, lastKnown, delivered, newest, offered>>
  BY Zenon DEF LookForMissed, history
<1>3. UNCHANGED <<events, outPos, destinationRooms, lastSuccessful>>
  BY <1>2, Zenon DEF database
<1>4. loop = "look" /\ loop' = "looked" /\ todo' = InOrder(Outstanding, CatchUpLimit)
  BY Zenon DEF LookForMissed
<1>5. catchingUp' = catchingUp /\ catchingUp
  BY <1>2, <1>4 DEF LoopState
<1>6. /\ todo' \in Seq(Outstanding)
      /\ \A w \in Outstanding : \A j \in DOMAIN todo' : todo'[j] < w \/ \E i \in 1..j : todo'[i] = w
      /\ Outstanding # {} => todo' # <<>>
  <2> DEFINE t == InOrder(Outstanding, CatchUpLimit)
  <2>1. /\ t \in Seq(Outstanding)
        /\ \A w \in Outstanding : \A j \in DOMAIN t : t[j] < w \/ \E i \in 1..j : t[i] = w
        /\ Outstanding # {} => t # <<>>
    BY <1>4, OutstandingType, InOrderListed
  <2> QED
    BY <1>4, <2>1, Zenon
<1>7. LoopState'
  <2>1. \A x \in {lastSuccessful', lastKnown'} : x > 0 => Reached(x)'
    BY <1>1, <1>2, <1>3, RecordsReached
  <2>2. lastSuccessful' = Unknown => offered' = {}
    BY <1>2, <1>3 DEF LoopState
  <2>3. loop' = "looked" /\ catchingUp'
    BY <1>4, <1>5, Zenon
  <2> QED
    BY <2>1, <2>2, <2>3 DEF LoopState, Unknown
<1>8. ASSUME NEW e \in offered, Pending(e) PROVE Pending(e)'
  <2> DEFINE row == destinationRooms[events[e]]
  <2>1. /\ e \in 1..Len(events) /\ events[e] \in Rooms /\ row \in Nat /\ row > lastKnown
        /\ lastKnown \in Int
    BY <1>8, Numbers DEF Pending
  <2>2. row \in Outstanding
    <3>1. row \notin 0..lastKnown
      <4> HIDE DEF row
      <4> QED
        BY <2>1
    <3> QED
      BY <3>1, <2>1 DEF Outstanding
  <2>3. row >= e /\ events[row] = events[e]
    <3>1. row >= e
      BY DEF Kept
    <3>2. row # 0
      <4> HIDE DEF row
      <4> QED
        BY <3>1, <2>1
    <3> QED
      BY <3>1, <3>2, <2>1 DEF TypeInv, DatabaseType
  <2>4. Covered(todo, e)'
    <3>1. destinationRooms'[events'[e]] = row
      BY <1>3
    <3> HIDE DEF row
    <3> SUFFICES ASSUME NEW j \in DOMAIN todo'
                 PROVE  todo'[j] < row \/ \E i \in 1..j : events[todo'[i]] = events[e] /\ todo'[i] >= e
      BY <3>1, <1>3 DEF Covered
    <3>2. todo'[j] < row \/ \E i \in 1..j : todo'[i] = row
      BY <2>2, <1>6
    <3> QED
      BY <3>2, <2>3
  <2>5. CatchUpGoesOn(e)'
    <3>1. todo' # <<>>
      BY <2>2, <1>6
    <3> QED
      BY <3>1, <1>5, Zenon DEF CatchUpGoesOn
  <2> QED
    BY <2>4, <2>5, <1>2, <1>3, <1>8 DEF Pending
<1>9. Range(queue') \subseteq DealtWith /\ Range(todo') \subseteq DealtWith
  <2>1. Outstanding \subseteq Stored
    BY DEF Outstanding, Stored
  <2> DEFINE t == todo'
  <2>2. t \in Seq(Outstanding)
    BY <1>6
  <2> HIDE DEF t
  <2>3. Range(t) \subseteq Outstanding
    BY <2>2 DEF Range
  <2> QED
    BY <2>1, <2>3, <1>2 DEF DealtWith, t
<1>10. {lastSuccessful', lastKnown'} \subseteq DealtWith /\ delivered \subseteq delivered'
  BY <1>2, <1>3 DEF DealtWith
<1> QED
  BY <1>1, <1>2, <1>3, <1>7, <1>8, <1>9, <1>10, KeepsLoop

LEMMA KeepsDecideOnCatchUp == ASSUME FedInv, DecideOnCatchUp PROVE FedInv'
<1> USE DEF FedInv
<1>1. TypeInv'
  BY TypeDecideOnCatchUp
<1>2. UNCHANGED <<database, sender, lastSkipped, lastKnown, todo, delivered, newest, offered>>
  BY Zenon DEF DecideOnCatchUp, history
<1>3. UNCHANGED <<events, outPos, destinationRooms, lastSuccessful>>
  BY <1>2, Zenon DEF database
<1>4. loop = "looked"
  BY Zenon DEF DecideOnCatchUp
<1>5. catchingUp
  BY <1>4 DEF LoopState
<1>6. \/ /\ todo = <<>> /\ lastSkipped <= lastKnown /\ ~catchingUp' /\ loop' = "select" /\ queue' = queue
      \/ /\ catchingUp' /\ loop' \in {"look", "catch_up"} /\ (queue' = queue \/ queue' = <<>>)
  BY <1>5, Zenon DEF DecideOnCatchUp, CaughtUp, NextTransaction, StartCatchingUp
<1>7. LoopState'
  <2>1. \A x \in {lastSuccessful', lastKnown'} : x > 0 => Reached(x)'
    BY <1>1, <1>2, <1>3, RecordsReached
  <2>2. lastSuccessful' = Unknown => offered' = {}
    BY <1>2, <1>3 DEF LoopState
  <2>3. (loop' = "select" /\ ~catchingUp') \/ (loop' \in {"look", "catch_up"} /\ catchingUp')
    BY <1>6, Zenon
  <2> QED
    BY <2>1, <2>2, <2>3 DEF LoopState, Unknown
<1>8. ASSUME NEW e \in offered, Pending(e) PROVE Pending(e)'
  <2>1. Covered(todo, e)'
    BY <1>2, <1>3, <1>8 DEF Pending, Covered
  <2>2. CASE /\ todo = <<>> /\ lastSkipped <= lastKnown /\ queue' = queue
    <3>1. ~CatchUpGoesOn(e)
      <4>1. ~ (lastKnown < e /\ e <= lastSkipped)
        BY <2>2, Numbers
      <4> QED
        BY <4>1, <2>2, <1>4, Zenon DEF CatchUpGoesOn
    <3>2. Queued(e) /\ Covered(queue, e)
      BY <3>1, <1>8 DEF Pending
    <3>3. Queued(e)' /\ Covered(queue, e)'
      BY <3>2, <2>2, <1>3 DEF Queued, Covered
    <3> QED
      BY <2>1, <3>3, <1>2, <1>3, <1>8 DEF Pending
  <2>3. CASE catchingUp' /\ loop' \in {"look", "catch_up"}
    <3>1. loop' # "looked"
      BY <2>3
    <3>2. CatchUpGoesOn(e)'
      BY <2>3, <3>1, Zenon DEF CatchUpGoesOn
    <3> QED
      BY <2>1, <3>2, <1>2, <1>3, <1>8 DEF Pending
  <2> QED
    BY <2>2, <2>3, <1>6
<1>9. Range(queue') \subseteq DealtWith /\ Range(todo') \subseteq DealtWith
  <2>1. queue' = queue \/ queue' = <<>>
    BY <1>6, Zenon
  <2>2. Range(queue') \subseteq Range(queue)
    BY <2>1 DEF Range
  <2> QED
    BY <2>2, <1>2 DEF DealtWith
<1>10. {lastSuccessful', lastKnown'} \subseteq DealtWith /\ delivered \subseteq delivered'
  BY <1>2, <1>3 DEF DealtWith
<1> QED
  BY <1>1, <1>2, <1>3, <1>7, <1>8, <1>9, <1>10, KeepsLoop

\* A sequence without its first m elements.
LEMMA DropFront ==
    ASSUME NEW S, NEW s \in Seq(S), NEW m \in Nat, m <= Len(s), NEW t, t = SubSeq(s, m + 1, Len(s))
    PROVE  Len(t) = Len(s) - m /\ DOMAIN t = 1 .. Len(s) - m /\ \A i \in 1 .. Len(s) - m : t[i] = s[m + i]
<1>1. Len(s) \in Nat /\ DOMAIN s = 1..Len(s)
  OBVIOUS
<1>2. t = [i \in 1 .. Len(s) - (m + 1) + 1 |-> s[i + (m + 1) - 1]]
  BY <1>1
<1>3. Len(s) - (m + 1) + 1 = Len(s) - m /\ \A i \in 1 .. Len(s) - m : i + (m + 1) - 1 = m + i
  BY <1>1
<1>4. t = [i \in 1 .. Len(s) - m |-> s[m + i]]
  BY <1>2, <1>3
<1>5. Len(s) - m \in Nat
  BY <1>1
<1> DEFINE n == Len(s) - m
<1>6. n \in Nat /\ t = [i \in 1..n |-> s[m + i]]
  BY <1>4, <1>5
<1> HIDE DEF n
<1>7. DOMAIN t = 1..n /\ Len(t) = n /\ \A i \in 1..n : t[i] = s[m + i]
  BY <1>6
<1> QED
  BY <1>7 DEF n

LEMMA ShiftUp ==
    ASSUME NEW m \in Nat, NEW n \in Nat, m <= n, NEW j \in 1 .. n - m
    PROVE  j \in Nat /\ m + j \in 1..n
OBVIOUS

LEMMA ShiftDown ==
    ASSUME NEW m \in Nat, NEW n \in Nat, NEW j \in Nat, NEW i \in 1..n, i > m, i <= m + j
    PROVE  i - m \in 1..j /\ i - m \in 1 .. n - m /\ m + (i - m) = i
OBVIOUS

LEMMA KeepsTransactionSent == ASSUME FedInv, TransactionSent PROVE FedInv'
<1> USE DEF FedInv
<1>1. TypeInv'
  BY TypeTransactionSent
<1>2. UNCHANGED <<events, outPos, destinationRooms, lastSuccessful, sender, catchingUp, lastSkipped, todo, newest, offered>>
  BY Zenon DEF TransactionSent, history
<1>3. Sending
  BY Zenon DEF TransactionSent
<1>4. PICK pdus \in Transactions : delivered' = delivered \union pdus
  BY Zenon DEF TransactionSent
<1>5. delivered \subseteq delivered' /\ pdus \subseteq delivered'
  BY <1>4
<1>6. /\ todo \in Seq(1..Len(events)) /\ todo # <<>> /\ Len(todo) \in Nat \ {0}
      /\ queue \in Seq(1..Len(events)) /\ Len(queue) \in Nat /\ Len(events) \in Nat
  BY <1>3 DEF TypeInv, QueueType, DatabaseType, Sending
<1>7. CASE loop = "send"
  <2>1. loop' = "mark" /\ queue' = Dequeue /\ lastKnown' = lastKnown
    BY <1>7, Zenon DEF TransactionSent
  <2>2. pdus = {todo[i] : i \in DOMAIN todo}
    BY <1>7, Zenon DEF Transactions
  <2>3. \A i \in DOMAIN todo : todo[i] \in delivered'
    BY <2>2, <1>5, Zenon
  <2>4. ~catchingUp /\ Len(todo) <= Len(queue) /\ \A i \in DOMAIN todo : todo[i] = queue[i]
    BY <1>7 DEF LoopState
  <2>5. ~catchingUp'
    BY <2>4, <1>2, Zenon
  <2> DEFINE m == Len(todo)
  <2>6. /\ Len(queue') = Len(queue) - m /\ DOMAIN queue' = 1 .. Len(queue) - m
        /\ \A i \in 1 .. Len(queue) - m : queue'[i] = queue[m + i]
        /\ m \in Nat /\ m <= Len(queue) /\ DOMAIN queue = 1..Len(queue) /\ DOMAIN todo = 1..m
    <3>1. queue' = SubSeq(queue, m + 1, Len(queue))
      BY <2>1 DEF Dequeue
    <3>2. m \in Nat /\ m <= Len(queue) /\ DOMAIN queue = 1..Len(queue) /\ DOMAIN todo = 1..m
      BY <1>6, <2>4
    <3> HIDE DEF m
    <3> DEFINE Ids == 1..Len(events)
    <3>3. queue \in Seq(Ids)
      BY <1>6
    <3> HIDE DEF Ids
    <3> DEFINE rest == SubSeq(queue, m + 1, Len(queue))
    <3>4. rest = SubSeq(queue, m + 1, Len(queue)) /\ queue' = rest
      BY <3>1
    <3> HIDE DEF rest
    <3>5. /\ Len(rest) = Len(queue) - m /\ DOMAIN rest = 1 .. Len(queue) - m
          /\ \A i \in 1 .. Len(queue) - m : rest[i] = queue[m + i]
      BY <3>2, <3>3, <3>4, DropFront
    <3>6. /\ Len(queue') = Len(queue) - m /\ DOMAIN queue' = 1 .. Len(queue) - m
          /\ \A i \in 1 .. Len(queue) - m : queue'[i] = queue[m + i]
      BY <3>4, <3>5, Zenon
    <3> QED
      BY <3>2, <3>6
  <2> HIDE DEF m
  <2>7. LoopState'
    <3>1. \A x \in {lastSuccessful', lastKnown'} : x > 0 => Reached(x)'
      BY <1>1, <1>2, <1>5, <2>1, RecordsReached
    <3>2. lastSuccessful' = Unknown => offered' = {}
      BY <1>2 DEF LoopState
    <3>3. \A i \in DOMAIN todo' : todo'[i] \in delivered'
      BY <2>3, <1>2
    <3> QED
      BY <2>1, <2>5, <3>1, <3>2, <3>3 DEF LoopState, Unknown
  <2>8. ASSUME NEW e \in offered, Pending(e), ~Reached(e)' PROVE Pending(e)'
    <3> DEFINE row == destinationRooms[events[e]]
    <3>1. Queued(e) /\ Covered(queue, e)
      <4>1. ~CatchUpGoesOn(e)
        BY <2>4, Zenon DEF CatchUpGoesOn
      <4> QED
        BY <4>1, <2>8 DEF Pending
    <3>2. ASSUME NEW i \in DOMAIN queue, events[queue[i]] = events[e], queue[i] >= e
          PROVE  i > m
      <4>1. CASE i \in DOMAIN todo
        <5>1. queue[i] \in delivered'
          BY <4>1, <2>3, <2>4
        <5>2. Reached(e)'
          BY <5>1, <3>2, <1>2 DEF Reached
        <5> QED
          BY <5>2, <2>8
      <4>2. CASE i \notin DOMAIN todo
        BY <4>2, <2>6, <1>6
      <4> QED
        BY <4>1, <4>2
    <3>3. e \in Nat /\ e >= e
      BY Numbers
    <3>4. Queued(e)'
      <4>1. PICK i \in DOMAIN queue : queue[i] = e
        BY <3>1 DEF Queued
      <4>2. i > m
        BY <4>1, <3>2, <3>3
      <4>3. i - m \in DOMAIN queue' /\ queue'[i - m] = queue[m + (i - m)] /\ m + (i - m) = i
        BY <4>2, <2>6, <1>6
      <4> QED
        BY <4>1, <4>3 DEF Queued
    <3>5. ASSUME NEW j \in DOMAIN queue'
          PROVE  queue'[j] < row \/ \E i \in 1..j : events[queue'[i]] = events[e] /\ queue'[i] >= e
      <4>0. j \in 1 .. Len(queue) - m /\ queue'[j] = queue[m + j]
        BY <2>6
      <4>1. m + j \in DOMAIN queue /\ queue'[j] = queue[m + j] /\ j \in Nat
        BY <4>0, <2>6, <1>6, ShiftUp
      <4>2. \/ queue[m + j] < row
            \/ \E i \in 1 .. m + j : events[queue[i]] = events[e] /\ queue[i] >= e
        BY <4>1, <3>1 DEF Covered
      <4>3. ASSUME NEW i \in 1 .. m + j, events[queue[i]] = events[e], queue[i] >= e
            PROVE  \E k \in 1..j : events[queue'[k]] = events[e] /\ queue'[k] >= e
        <5>1. i \in DOMAIN queue
          BY <4>1, <2>6
        <5>2. i > m
          BY <5>1, <4>3, <3>2
        <5>3. i - m \in 1..j /\ i - m \in 1 .. Len(queue) - m /\ m + (i - m) = i
          <6> DEFINE n == Len(queue)
          <6>1. i \in 1..n /\ i <= m + j
            BY <4>1, <5>1, <2>6
          <6>2. m \in Nat /\ n \in Nat /\ j \in Nat
            BY <4>1, <2>6, <1>6
          <6> HIDE DEF n
          <6>3. i - m \in 1..j /\ i - m \in 1 .. n - m /\ m + (i - m) = i
            BY <6>1, <6>2, <5>2, ShiftDown
          <6> QED
            BY <6>3 DEF n
        <5>4. queue'[i - m] = queue[i]
          <6>1. queue'[i - m] = queue[m + (i - m)]
            BY <5>3, <2>6
          <6> QED
            BY <6>1, <5>3
        <5> QED
          BY <4>3, <5>3, <5>4
      <4> HIDE DEF row
      <4> QED
        BY <4>1, <4>2, <4>3
    <3>6. Covered(queue, e)'
      <4>1. destinationRooms'[events'[e]] = row
        BY <1>2
      <4> HIDE DEF row
      <4> QED
        BY <4>1, <3>5, <1>2 DEF Covered
    <3>7. Covered(todo, e)'
      BY <2>8, <1>2 DEF Pending, Covered
    <3> QED
      BY <3>4, <3>6, <3>7, <2>1, <2>8, <1>2 DEF Pending
  <2>9. Range(queue') \subseteq DealtWith /\ Range(todo') \subseteq DealtWith
    <3>1. \A i \in DOMAIN queue' : m + i \in DOMAIN queue /\ queue'[i] = queue[m + i]
      BY <2>6, <1>6, ShiftUp
    <3>2. Range(queue') \subseteq Range(queue)
      BY <3>1, Zenon DEF Range
    <3> QED
      BY <3>2, <1>2 DEF DealtWith
  <2>10. {lastSuccessful', lastKnown'} \subseteq DealtWith
    BY <1>2, <2>1 DEF DealtWith
  <2> QED
    BY <1>1, <1>2, <1>5, <2>7, <2>8, <2>9, <2>10, KeepsLoop
<1>8. CASE loop # "send"
  <2> DEFINE x == Head(todo)
  <2>1. loop' = "record" /\ lastKnown' = x /\ queue' = queue /\ loop = "catch_up"
    BY <1>3, <1>8 DEF TransactionSent, Sending
  <2>2. pdus = {x} \/ pdus = {Latest(events[x])}
    BY <1>8, Zenon DEF Transactions
  <2>3. x \in 1..Len(events) /\ x = todo[1] /\ 1 \in DOMAIN todo
    BY <1>6
  <2> HIDE DEF x
  <2>4. /\ Latest(events[x]) \in 1..Len(events) /\ events[Latest(events[x])] = events[x]
        /\ x <= Latest(events[x])
    BY <2>3, LatestExists DEF TypeInv
  <2>5. ASSUME NEW e \in 1..x, events[e] = events[x] PROVE Reached(e)'
    <3>1. PICK d \in pdus : events[d] = events[x] /\ d \in Nat /\ d >= x
      <4>1. CASE pdus = {x}
        BY <4>1, <2>3, <1>6
      <4>2. CASE pdus = {Latest(events[x])}
        BY <4>2, <2>3, <2>4, <1>6
      <4> QED
        BY <4>1, <4>2, <2>2
    <3>2. d >= e /\ d \in delivered'
      BY <3>1, <1>5, <2>3, <1>6
    <3> QED
      BY <3>1, <3>2, <2>5, <1>2 DEF Reached
  <2>6. catchingUp' /\ catchingUp' = catchingUp
    <3>1. catchingUp
      BY <2>1 DEF LoopState
    <3>2. catchingUp' = catchingUp
      BY <1>2
    <3> QED
      BY <3>1, <3>2, Zenon
  <2>7. LoopState'
    <3>1. \A y \in {lastSuccessful', lastKnown'} : y > 0 => Reached(y)'
      <4> SUFFICES ASSUME NEW y \in {lastSuccessful, x}, y > 0 PROVE Reached(y)'
        BY <1>2, <2>1
      <4>1. CASE y = x
        BY <4>1, <2>3, <2>5, <1>6
      <4>2. CASE y = lastSuccessful
        <5>1. y \in 1..Len(events) /\ Reached(y)
          BY <4>2, Numbers DEF LoopState
        <5> QED
          BY <5>1, <1>2, <1>5, ReachedGrows
      <4> QED
        BY <4>1, <4>2
    <3>2. lastSuccessful' = Unknown => offered' = {}
      BY <1>2 DEF LoopState
    <3>3. lastKnown' = Head(todo')
      BY <1>2, <2>1 DEF x
    <3> QED
      BY <2>1, <2>6, <3>1, <3>2, <3>3 DEF LoopState, Unknown
  <2>8. ASSUME NEW e \in offered, Pending(e), ~Reached(e)' PROVE Pending(e)'
    <3> DEFINE row == destinationRooms[events[e]]
    <3>0. e \in 1..Len(events) /\ e \in Nat
      BY Numbers
    <3>1. Covered(todo, e)
      BY <2>8 DEF Pending
    <3>2. todo[1] < row \/ \E i \in 1..1 : events[todo[i]] = events[e] /\ todo[i] >= e
      BY <3>1, <2>3 DEF Covered
    <3>3. x < row \/ (events[x] = events[e] /\ x >= e)
      BY <3>2, <2>3
    <3>4. row > lastKnown'
      <4>1. CASE events[x] = events[e] /\ x >= e
        BY <4>1, <3>0, <2>3, <2>5, <2>8, <1>6
      <4>2. CASE x < row
        <5>1. row \in Nat
          BY <3>0, Numbers
        <5> HIDE DEF row
        <5> QED
          BY <5>1, <4>2, <2>1, <2>3, <1>6
      <4> QED
        BY <3>3, <4>1, <4>2
    <3>5. Covered(todo, e)'
      BY <3>1, <1>2 DEF Covered
    <3>6. CatchUpGoesOn(e)'
      <4>1. loop' # "looked"
        BY <2>1
      <4> QED
        BY <4>1, <2>6, Zenon DEF CatchUpGoesOn
    <3> QED
      BY <3>4, <3>5, <3>6, <2>8, <1>2 DEF Pending
  <2>9. Range(queue') \subseteq DealtWith /\ Range(todo') \subseteq DealtWith
    BY <1>2, <2>1 DEF DealtWith
  <2>10. {lastSuccessful', lastKnown'} \subseteq DealtWith
    <3>1. x \in Range(todo)
      BY <2>3 DEF Range
    <3> QED
      BY <3>1, <1>2, <2>1 DEF DealtWith
  <2> QED
    BY <1>1, <1>2, <1>5, <2>7, <2>8, <2>9, <2>10, KeepsLoop
<1> QED
  BY <1>7, <1>8

LEMMA KeepsRecordCaughtUp == ASSUME FedInv, RecordCaughtUp PROVE FedInv'
<1> USE DEF FedInv
<1>1. TypeInv'
  BY TypeRecordCaughtUp
<1>2. UNCHANGED <<events, outPos, destinationRooms, sender, queue, catchingUp, lastSkipped, lastKnown, delivered, newest, offered>>
  BY Zenon DEF RecordCaughtUp, history
<1> DEFINE x == Head(todo)
<1>3. /\ loop = "record" /\ lastSuccessful' = x /\ todo' = Tail(todo)
      /\ loop' = IF Tail(todo) = <<>> THEN "look" ELSE "catch_up"
  BY Zenon DEF RecordCaughtUp
<1>4. loop' \in {"look", "catch_up"}
  BY <1>3
<1>5. todo \in Seq(1..Len(events)) /\ todo # <<>> /\ Len(todo) \in Nat \ {0} /\ Len(events) \in Nat
  <2>1. todo \in Seq(1..Len(events)) /\ todo # <<>> /\ Len(events) \in Nat
    BY <1>3, Numbers, Zenon DEF TypeInv, QueueType
  <2> QED
    BY <2>1
<1>6. x \in 1..Len(events) /\ x = todo[1] /\ lastKnown = x
  BY <1>3, <1>5 DEF LoopState
<1>7. /\ DOMAIN todo = 1..Len(todo) /\ DOMAIN Tail(todo) = 1 .. Len(todo) - 1
      /\ \A i \in 1 .. Len(todo) - 1 : Tail(todo)[i] = todo[1 + i]
  <2>1. \A i \in 1 .. Len(todo) - 1 : Tail(todo)[i] = todo[i + 1] /\ i + 1 = 1 + i
    BY <1>5
  <2> QED
    BY <2>1, <1>5
<1> HIDE DEF x
<1>8. Reached(x)
  BY <1>5, <1>6 DEF LoopState
<1>9. catchingUp /\ catchingUp' = catchingUp
  BY <1>2, <1>3 DEF LoopState
<1>10. LoopState'
  <2>1. \A y \in {lastSuccessful', lastKnown'} : y > 0 => Reached(y)'
    <3>1. {lastSuccessful', lastKnown'} \subseteq {lastSuccessful, lastKnown, Unknown}
      BY <1>2, <1>3, <1>6
    <3> QED
      BY <3>1, <1>1, <1>2, RecordsReached
  <2>2. lastSuccessful' # Unknown
    BY <1>3, <1>5, <1>6 DEF Unknown
  <2>3. catchingUp'
    BY <1>9, Zenon
  <2> QED
    BY <1>4, <2>1, <2>2, <2>3 DEF LoopState
<1>11. ASSUME NEW e \in offered, Pending(e), ~Reached(e)' PROVE Pending(e)'
  <2> DEFINE row == destinationRooms[events[e]]
  <2>1. e \in 1..Len(events) /\ ~Reached(e) /\ row > lastKnown /\ Covered(todo, e)
    <3>1. ~Reached(e)
      BY <1>2, <1>11 DEF Reached
    <3> QED
      BY <3>1, <1>11, Numbers DEF Pending
  <2>2. ~ (events[x] = events[e] /\ x >= e)
    <3>1. ASSUME events[x] = events[e], x >= e PROVE FALSE
      <4>1. e <= x
        BY <3>1, <2>1, <1>5, <1>6
      <4>2. Reached(e)
        BY <3>1, <4>1, <2>1, <1>6, <1>8, ReachedWithLater
      <4> QED
        BY <4>2, <2>1
    <3> QED
      BY <3>1
  <2>3. ASSUME NEW j \in DOMAIN todo'
        PROVE  todo'[j] < row \/ \E i \in 1..j : events[todo'[i]] = events[e] /\ todo'[i] >= e
    <3>1. j \in 1 .. Len(todo) - 1 /\ todo'[j] = todo[1 + j]
      BY <1>3, <1>7
    <3>2. 1 + j \in DOMAIN todo /\ j \in Nat
      BY <3>1, <1>5, <1>7
    <3>3. todo[1 + j] < row \/ \E i \in 1 .. 1 + j : events[todo[i]] = events[e] /\ todo[i] >= e
      BY <3>2, <2>1 DEF Covered
    <3>4. ASSUME NEW i \in 1 .. 1 + j, events[todo[i]] = events[e], todo[i] >= e
          PROVE  \E k \in 1..j : events[todo'[k]] = events[e] /\ todo'[k] >= e
      <4>1. i # 1
        BY <3>4, <2>2, <1>6
      <4>2. i \in 1..Len(todo) /\ i > 1 /\ i <= 1 + j
        BY <3>2, <4>1, <1>5, <1>7
      <4>3. i - 1 \in 1..j /\ i - 1 \in 1 .. Len(todo) - 1 /\ 1 + (i - 1) = i
        BY <3>2, <4>2, <1>5, ShiftDown
      <4>4. todo'[i - 1] = todo[1 + (i - 1)]
        BY <4>3, <1>3, <1>7
      <4> QED
        BY <3>4, <4>3, <4>4
    <3> HIDE DEF row
    <3> QED
      BY <3>1, <3>3, <3>4
  <2>4. Covered(todo, e)'
    <3>1. destinationRooms'[events'[e]] = row
      BY <1>2
    <3> HIDE DEF row
    <3> QED
      BY <2>3, <3>1, <1>2 DEF Covered
  <2>5. CatchUpGoesOn(e)'
    <3>1. loop' # "looked"
      BY <1>4
    <3> QED
      BY <3>1, <1>9, Zenon DEF CatchUpGoesOn
  <2> QED
    BY <2>1, <2>4, <2>5, <1>2, <1>3, <1>6 DEF Pending
<1>12. Range(queue') \subseteq DealtWith /\ Range(todo') \subseteq DealtWith
  <2>1. \A i \in DOMAIN todo' : 1 + i \in DOMAIN todo /\ todo'[i] = todo[1 + i]
    BY <1>3, <1>5, <1>7
  <2>2. Range(todo') \subseteq Range(todo)
    BY <2>1, Zenon DEF Range
  <2> QED
    BY <2>2, <1>2 DEF DealtWith
<1>13. {lastSuccessful', lastKnown'} \subseteq DealtWith /\ delivered \subseteq delivered'
  BY <1>2, <1>3, <1>6 DEF DealtWith
<1> QED
  BY <1>1, <1>2, <1>10, <1>11, <1>12, <1>13, KeepsLoop

LEMMA KeepsSelectPdus == ASSUME FedInv, SelectPdus PROVE FedInv'
<1> USE DEF FedInv
<1>1. TypeInv'
  BY TypeSelectPdus
<1>2. UNCHANGED <<database, sender, queue, catchingUp, lastSkipped, lastKnown, delivered, newest, offered>>
  BY Zenon DEF SelectPdus, history
<1>3. UNCHANGED <<events, outPos, destinationRooms, lastSuccessful>>
  BY <1>2, Zenon DEF database
<1>4. /\ loop = "select" /\ todo' = FirstOf(queue, TransactionLimit)
      /\ loop' = "send" \/ loop' = "select" \/ loop' = "idle"
  BY Zenon DEF SelectPdus, NextTransaction
<1>5. /\ Len(todo') <= Len(queue) /\ DOMAIN todo' \subseteq DOMAIN queue
      /\ \A i \in DOMAIN todo' : todo'[i] = queue[i]
  BY <1>4, FirstOfType, LimitsAssumption DEF LimitsAssumption, TypeInv
<1>6. ~catchingUp /\ catchingUp' = catchingUp
  BY <1>2, <1>4 DEF LoopState
<1>7. LoopState'
  <2>1. \A x \in {lastSuccessful', lastKnown'} : x > 0 => Reached(x)'
    BY <1>1, <1>2, <1>3, RecordsReached
  <2>2. lastSuccessful' = Unknown => offered' = {}
    BY <1>2, <1>3 DEF LoopState
  <2>3. ~catchingUp'
    BY <1>6, Zenon
  <2>4. Len(todo') <= Len(queue') /\ \A i \in DOMAIN todo' : todo'[i] = queue'[i]
    BY <1>2, <1>5
  <2> QED
    BY <1>4, <2>1, <2>2, <2>3, <2>4 DEF LoopState, Unknown
<1>8. ASSUME NEW e \in offered, Pending(e) PROVE Pending(e)'
  <2> DEFINE row == destinationRooms[events[e]]
  <2>1. Queued(e) /\ Covered(queue, e)
    <3>1. ~CatchUpGoesOn(e)
      BY <1>6, Zenon DEF CatchUpGoesOn
    <3> QED
      BY <3>1, <1>8 DEF Pending
  <2>2. Queued(e)' /\ Covered(queue, e)'
    BY <2>1, <1>2, <1>3 DEF Queued, Covered
  <2>3. Covered(todo, e)'
    <3>1. todo' \in Seq(1..Len(events))
      BY <1>1, <1>3 DEF TypeInv, QueueType
    <3>2. \A j \in DOMAIN todo' : \A i \in 1..j : i \in DOMAIN todo'
      BY <3>1
    <3> SUFFICES ASSUME NEW j \in DOMAIN todo'
                 PROVE  todo'[j] < row \/ \E i \in 1..j : events[todo'[i]] = events[e] /\ todo'[i] >= e
      BY <1>3 DEF Covered
    <3>3. todo'[j] = queue[j] /\ j \in DOMAIN queue /\ \A i \in 1..j : todo'[i] = queue[i]
      BY <3>2, <1>5
    <3>4. queue[j] < row \/ \E i \in 1..j : events[queue[i]] = events[e] /\ queue[i] >= e
      BY <2>1, <3>3 DEF Covered
    <3> HIDE DEF row
    <3> QED
      BY <3>3, <3>4
  <2> QED
    BY <2>2, <2>3, <1>2, <1>3, <1>8 DEF Pending
<1>9. Range(queue') \subseteq DealtWith /\ Range(todo') \subseteq DealtWith
  <2>1. Range(todo') \subseteq Range(queue)
    BY <1>5, Zenon DEF Range
  <2> QED
    BY <2>1, <1>2 DEF DealtWith
<1>10. {lastSuccessful', lastKnown'} \subseteq DealtWith /\ delivered \subseteq delivered'
  BY <1>2, <1>3 DEF DealtWith
<1> QED
  BY <1>1, <1>2, <1>3, <1>7, <1>8, <1>9, <1>10, KeepsLoop

LEMMA KeepsMarkSent == ASSUME FedInv, MarkSent PROVE FedInv'
<1> USE DEF FedInv
<1>1. TypeInv'
  BY TypeMarkSent
<1>2. UNCHANGED <<events, outPos, destinationRooms, sender, queue, catchingUp, lastSkipped, lastKnown, delivered, newest, offered>>
  BY Zenon DEF MarkSent, history
<1> DEFINE n == Len(todo)
           x == todo[n]
<1>3. loop = "mark" /\ loop' = "select" /\ lastSuccessful' = x /\ todo' = <<>>
  BY Zenon DEF MarkSent, NextTransaction
<1>4. todo \in Seq(1..Len(events)) /\ todo # <<>> /\ n \in Nat \ {0} /\ Len(events) \in Nat
  BY <1>3 DEF TypeInv, QueueType, DatabaseType
<1>5. n \in DOMAIN todo /\ x \in 1..Len(events)
  BY <1>4
<1>6. \A i \in DOMAIN todo : todo[i] \in delivered
  BY <1>3 DEF LoopState
<1>7. \A i \in 1..n : i \in DOMAIN todo
  BY <1>4
<1> HIDE DEF n, x
<1>8. ~catchingUp /\ catchingUp' = catchingUp
  BY <1>2, <1>3 DEF LoopState
<1>9. LoopState'
  <2>1. \A y \in {lastSuccessful', lastKnown'} : y > 0 => Reached(y)'
    <3> SUFFICES ASSUME NEW y \in {x, lastKnown}, y > 0 PROVE Reached(y)'
      BY <1>2, <1>3
    <3>1. CASE y = x
      <4>1. x \in delivered /\ x >= x
        BY <1>4, <1>5, <1>6 DEF x
      <4> QED
        BY <3>1, <4>1, <1>2 DEF Reached
    <3>2. CASE y = lastKnown
      BY <3>2, <1>2 DEF LoopState, Reached
    <3> QED
      BY <3>1, <3>2
  <2>2. lastSuccessful' # Unknown
    BY <1>3, <1>4, <1>5 DEF Unknown
  <2>3. ~catchingUp'
    BY <1>8, Zenon
  <2> QED
    BY <1>3, <2>1, <2>2, <2>3 DEF LoopState
<1>10. ASSUME NEW e \in offered, Pending(e), ~Reached(e)' PROVE Pending(e)'
  <2> DEFINE row == destinationRooms[events[e]]
  <2>1. row > lastKnown /\ Covered(todo, e)
    BY <1>10 DEF Pending
  <2>2. x < row \/ \E i \in 1..n : events[todo[i]] = events[e] /\ todo[i] >= e
    BY <2>1, <1>5 DEF Covered, x
  <2>3. ASSUME NEW i \in 1..n, events[todo[i]] = events[e], todo[i] >= e PROVE FALSE
    <3>1. todo[i] \in delivered
      BY <1>6, <1>7
    <3> QED
      BY <3>1, <2>3, <1>2, <1>10 DEF Reached
  <2>4. row > lastSuccessful'
    <3>1. x < row /\ row \in Nat
      BY <2>2, <2>3, Numbers
    <3> HIDE DEF row
    <3> QED
      BY <3>1, <1>3, <1>4, <1>5
  <2>5. Covered(todo, e)'
    BY <1>3 DEF Covered
  <2>6. Queued(e) /\ Covered(queue, e)
    <3>1. ~CatchUpGoesOn(e)
      BY <1>8, Zenon DEF CatchUpGoesOn
    <3> QED
      BY <3>1, <1>10 DEF Pending
  <2>7. Queued(e)' /\ Covered(queue, e)'
    BY <2>6, <1>2 DEF Queued, Covered
  <2> QED
    BY <2>1, <2>4, <2>5, <2>7, <1>2 DEF Pending
<1>11. Range(queue') \subseteq DealtWith /\ Range(todo') \subseteq DealtWith
  <2>1. Range(todo') = {}
    BY <1>3 DEF Range
  <2> QED
    BY <2>1, <1>2 DEF DealtWith
<1>12. {lastSuccessful', lastKnown'} \subseteq DealtWith /\ delivered \subseteq delivered'
  <2>1. x \in Range(todo)
    BY <1>5, Zenon DEF Range, x
  <2> QED
    BY <2>1, <1>2, <1>3 DEF DealtWith
<1> QED
  BY <1>1, <1>2, <1>9, <1>10, <1>11, <1>12, KeepsLoop

\* Every step keeps the invariant.
LEMMA FedStep == ASSUME FedInv, [Next]_vars PROVE FedInv'
<1>0. TypeInv'
  BY TypeStep DEF FedInv
<1>1. ASSUME NEW r \in Rooms, NewEvent(r) PROVE FedInv'
  BY <1>1, KeepsNewEvent
<1>2. CASE Notify \/ ReadNewEvents \/ UpdateOutPos \/ ProcessingFails
  BY <1>0, <1>2, KeepsRounds
<1>3. ASSUME NEW h \in handlers, StoreDestinationRoom(h) \/ HandOver(h) \/ HandlerFails(h)
      PROVE  FedInv'
  BY <1>0, <1>3, KeepsStoreDestinationRoom, KeepsHandOver, KeepsHandlerFails
<1>4. CASE TimePasses \/ OtherRequestFails \/ RemoteServerUp \/ SendEdu \/ WakeDestination
  BY <1>0, <1>4, KeepsWaking
<1>5. CASE LoopStep
  <2>1. CASE TransactionRefused
    BY <1>0, <2>1, KeepsFailures
  <2> QED
    BY <1>5, <2>1, KeepsCheckLimiter, KeepsReadLastSuccessful, KeepsLookForMissed,
       KeepsDecideOnCatchUp, KeepsTransactionSent, KeepsRecordCaughtUp, KeepsSelectPdus, KeepsMarkSent
       DEF LoopStep
<1>6. CASE TransactionFails \/ LoopFails
  BY <1>0, <1>6, KeepsFailures
<1>7. CASE Restart
  BY <1>7, KeepsRestart
<1>8. CASE UNCHANGED vars
  <2>1. UNCHANGED <<database, sender, perDestinationQueue, delivered, newest, offered>>
    BY <1>8, Zenon DEF vars, history
  <2>2. UNCHANGED <<events, destinationRooms, lastSuccessful>> /\ handlers' = handlers
    BY <2>1, Zenon DEF database, sender
  <2> QED
    BY <1>0, <2>1, <2>2, KeepsQuietSender
<1> QED
  BY <1>1, <1>2, <1>3, <1>4, <1>5, <1>6, <1>7, <1>8 DEF Next

LEMMA FedInvImpliesEventsKept == ASSUME FedInv PROVE EventsKept
<1> SUFFICES ASSUME NEW e \in offered, ~Reached(e) PROVE Queued(e) \/ AwaitsCatchUp(e)
  BY DEF EventsKept
<1>1. Pending(e) /\ destinationRooms[events[e]] >= e
  BY DEF FedInv, Kept
<1>2. CASE Queued(e)
  BY <1>2
<1>3. CASE CatchUpGoesOn(e)
  <2>1. catchingUp
    BY <1>3, Zenon DEF CatchUpGoesOn
  <2>2. destinationRooms[events[e]] > lastSuccessful /\ destinationRooms[events[e]] > lastKnown
    BY <1>1 DEF Pending
  <2> QED
    BY <1>1, <2>1, <2>2, Zenon DEF AwaitsCatchUp
<1> QED
  BY <1>1, <1>2, <1>3 DEF Pending

\* No event given to the queue of a destination in stream order is
\* forgotten, whatever the limits on rounds, transactions and catch-up: it
\* stays queued, or in the reach of catch-up, until the destination has it or
\* a later event of its room, through any number of failing handlers,
\* transactions and database calls, back-offs and restarts.
THEOREM EventsAreKept == Spec => []EventsKept
<1>1. Init => FedInv
  BY FedInit
<1>2. FedInv /\ [Next]_vars => FedInv'
  BY FedStep
<1>3. FedInv => EventsKept
  BY FedInvImpliesEventsKept
<1> QED
  BY <1>1, <1>2, <1>3, PTL DEF Spec
=============================================================================
