-------------------------- MODULE ReplicationProofs --------------------------
(***************************************************************************)
(* What replication does, for any number of ids, rows and lost             *)
(* connections.                                                            *)
(*                                                                         *)
(* PositionsAreSafe: with any number of writers, a POSITION on its way     *)
(* steps over no row of its writer.                                        *)
(*                                                                         *)
(* NoRowIsMissed and FollowsTheStream: with one writer that keeps its      *)
(* connection, the reader has handled exactly the rows up to its position, *)
(* and every step of it is one of ReplicatedStream.                        *)
(***************************************************************************)
EXTENDS Replication, Extrema, FiniteSetTheorems, SequenceTheorems

-----------------------------------------------------------------------------
(***************************************************************************)
(* The rows and the commands of a read                                     *)
(***************************************************************************)

RowType == Writers \X Nat \X Nat

Commands ==
    [type : {"RDATA"}, w : Writers, token : Nat, row : RowType]
        \union [type : {"POSITION"}, w : Writers, prev : Nat, new : Nat]

\* InOrder puts the rows of one writer in order: each of them is there, and
\* earlier rows come first.
LEMMA InOrderProp ==
    ASSUME NEW w, NEW S \in SUBSET RowType, IsFiniteSet(S), \A r \in S : r[1] = w
    PROVE  /\ Cardinality(S) \in Nat
           /\ InOrder(S) \in [1 .. Cardinality(S) -> S]
           /\ \A i, j \in 1 .. Cardinality(S) : i < j => Before(InOrder(S)[i], InOrder(S)[j])
           /\ \A r \in S : \E j \in 1 .. Cardinality(S) : InOrder(S)[j] = r
<1> DEFINE n == Cardinality(S)
           Lower(r) == {s \in S : Before(s, r)}
           f == [r \in S |-> Cardinality(Lower(r))]
<1>1. n \in Nat
    BY FS_CardinalityType
<1>2. ASSUME NEW r \in S
      PROVE  /\ IsFiniteSet(Lower(r)) /\ f[r] \in Nat
             /\ f[r] < n
  <2>1. Lower(r) \subseteq S /\ r \notin Lower(r)
    BY DEF Before, RowType
  <2>2. Lower(r) # S
    BY <1>2, <2>1
  <2>3. IsFiniteSet(Lower(r)) /\ Cardinality(Lower(r)) <= n /\ Cardinality(Lower(r)) # n
    BY <2>1, <2>2, FS_Subset
  <2>4. Cardinality(Lower(r)) \in Nat
    BY <2>3, FS_CardinalityType
  <2> QED
    BY <1>1, <2>3, <2>4
<1>3. ASSUME NEW r \in S, NEW s \in S, Before(r, s)
      PROVE  f[r] < f[s]
  <2>1. Lower(r) \subseteq Lower(s)
    BY <1>3 DEF Before, RowType
  <2>2. r \in Lower(s) /\ r \notin Lower(r)
    BY <1>3 DEF Before, RowType
  <2>3. Cardinality(Lower(r)) <= Cardinality(Lower(s)) /\ Cardinality(Lower(r)) # Cardinality(Lower(s))
    BY <1>2, <2>1, <2>2, FS_Subset
  <2>4. f[r] = Cardinality(Lower(r)) /\ f[s] = Cardinality(Lower(s))
    OBVIOUS
  <2>5. f[r] \in Nat /\ f[s] \in Nat
    BY <1>2
  <2> HIDE DEF f, Lower
  <2> QED
    BY <2>3, <2>4, <2>5
<1>4. ASSUME NEW r \in S, NEW s \in S, r # s
      PROVE  Before(r, s) \/ Before(s, r)
  <2>1. r \in RowType /\ s \in RowType /\ r[1] = s[1]
    OBVIOUS
  <2>2. r[2] # s[2] \/ r[3] # s[3]
    BY <1>4, <2>1 DEF RowType
  <2> QED
    BY <2>1, <2>2 DEF Before, RowType
<1>5. f \in Injection(S, 0 .. n - 1)
  <2>1. f \in [S -> 0 .. n - 1]
    <3>1. \A r \in S : f[r] \in 0 .. n - 1
      <4> SUFFICES ASSUME NEW r \in S PROVE f[r] \in 0 .. n - 1
        OBVIOUS
      <4>1. f[r] \in Nat /\ f[r] < n
        BY <1>2
      <4> HIDE DEF f, n
      <4> QED
        BY <1>1, <4>1
    <3> QED
        BY <3>1
  <2>2. ASSUME NEW r \in S, NEW s \in S, f[r] = f[s]
        PROVE  r = s
    <3>1. f[r] \in Nat /\ f[s] \in Nat
        BY <1>2
    <3> HIDE DEF f
    <3> QED
        BY <1>3, <1>4, <2>2, <3>1
  <2> HIDE DEF f
  <2> QED
    BY <2>1, <2>2 DEF Injection, IsInjective
<1>6. f \in Surjection(S, 0 .. n - 1)
  <2>1. IsFiniteSet(0 .. n - 1) /\ Cardinality(0 .. n - 1) = n
    <3>1. 0 \in Int /\ n - 1 \in Int
        BY <1>1
    <3>2. IsFiniteSet(0 .. n - 1) /\ Cardinality(0 .. n - 1) = IF 0 > n - 1 THEN 0 ELSE (n - 1) - 0 + 1
        BY <3>1, FS_Interval
    <3> HIDE DEF n
    <3> QED
        BY <1>1, <3>2
  <2> HIDE DEF f
  <2> QED
    BY <1>5, <2>1, FS_Injection
<1>7. ASSUME NEW j \in 1 .. n
      PROVE  InOrder(S)[j] \in S /\ f[InOrder(S)[j]] = j - 1
  <2>1. \E r \in S : f[r] = j - 1
    <3>1. j - 1 \in 0 .. n - 1
        BY <1>1
    <3> HIDE DEF f
    <3> QED
        BY <1>6, <3>1 DEF Surjection
  <2>2. \E r \in S : Cardinality(Lower(r)) = j - 1
    BY <2>1
  <2>3. InOrder(S)[j] = CHOOSE r \in S : Cardinality(Lower(r)) = j - 1
    BY DEF InOrder
  <2> HIDE DEF Lower
  <2> QED
    BY <2>2, <2>3
<1>8. InOrder(S) \in [1 .. n -> S]
    BY <1>7 DEF InOrder
<1>9. ASSUME NEW i \in 1 .. n, NEW j \in 1 .. n, i < j
      PROVE  Before(InOrder(S)[i], InOrder(S)[j])
  <2> DEFINE x == InOrder(S)[i]
             y == InOrder(S)[j]
  <2>1. x \in S /\ y \in S /\ f[x] = i - 1 /\ f[y] = j - 1
    BY <1>7
  <2> HIDE DEF x, y, f
  <2>2. ~Before(y, x)
    BY <1>1, <1>3, <1>9, <2>1
  <2>3. x # y
    BY <1>1, <1>9, <2>1
  <2>4. Before(x, y)
    BY <1>4, <2>1, <2>2, <2>3
  <2> QED
    BY <2>4 DEF x, y
<1>10. ASSUME NEW r \in S
       PROVE  \E j \in 1 .. n : InOrder(S)[j] = r
  <2>1. f[r] + 1 \in 1 .. n
    <3>1. f[r] \in Nat /\ f[r] < n
        BY <1>2
    <3> HIDE DEF f, n
    <3> QED
        BY <1>1, <3>1
  <2>2. InOrder(S)[f[r] + 1] \in S /\ f[InOrder(S)[f[r] + 1]] = f[r]
    <3>1. f[r] \in Nat
        BY <1>2
    <3> HIDE DEF f
    <3> QED
        BY <1>7, <2>1, <3>1
  <2>3. InOrder(S)[f[r] + 1] = r
    <3>1. IsInjective(f) /\ DOMAIN f = S
        BY <1>5 DEF Injection
    <3> HIDE DEF f
    <3> QED
        BY <2>2, <3>1 DEF IsInjective
  <2> QED
    BY <2>1, <2>3
<1> QED
    BY <1>1, <1>8, <1>9, <1>10

\* A read ends between its bounds.
LEMMA ReadEndsProp ==
    ASSUME NEW w \in Writers, NEW from \in Nat, NEW to \in Nat, from <= to,
           \A r \in rows : r \in RowType, NEW u \in ReadEnds(w, from, to)
    PROVE  u \in Nat /\ from <= u /\ u <= to
<1> DEFINE found == {r[2] : r \in RowsBetween(w, from, to)}
<1>1. \A v \in found : v \in Nat /\ from < v /\ v <= to
    BY DEF RowsBetween, RowType
<1>2. u = to \/ u \in found \/ u \in from .. to
  <2> HIDE DEF found
  <2> QED
    BY DEF ReadEnds, found
<1> HIDE DEF found
<1> QED
    BY <1>1, <1>2

\* The rows of a read are those of one writer.
LEMMA ReadRows ==
    ASSUME NEW w \in Writers, NEW from \in Nat, NEW to \in Nat,
           IsFiniteSet(rows), \A r \in rows : r \in RowType
    PROVE  LET S == RowsBetween(w, from, to)
           IN  /\ S \in SUBSET RowType /\ IsFiniteSet(S) /\ S \subseteq rows
               /\ \A r \in S : r[1] = w /\ from < r[2] /\ r[2] <= to
<1>1. RowsBetween(w, from, to) \subseteq rows
    BY DEF RowsBetween
<1>2. IsFiniteSet(RowsBetween(w, from, to))
    BY <1>1, FS_Subset
<1> QED
    BY <1>1, <1>2 DEF RowsBetween

\* The RDATA of a set of rows are those rows in order; the ones with a token are
\* the last of their id.
LEMMA BatchProp ==
    ASSUME NEW w \in Writers, NEW S \in SUBSET RowType, IsFiniteSet(S),
           \A r \in S : r[1] = w /\ 0 < r[2]
    PROVE  LET B == BatchUpdates(w, S)
           IN  /\ B \in Seq(Commands)
               /\ \A j \in 1 .. Len(B) : /\ B[j].type = "RDATA" /\ B[j].w = w /\ B[j].row \in S
                                         /\ B[j].token \in {0, B[j].row[2]}
               /\ \A i, j \in 1 .. Len(B) : i < j => Before(B[i].row, B[j].row)
               /\ \A r \in S : \E j \in 1 .. Len(B) : B[j].row = r
               /\ \A j \in 1 .. Len(B) : B[j].token # 0 =>
                      \A r \in S : ~(Before(B[j].row, r) /\ r[2] = B[j].row[2])
<1> DEFINE n == Cardinality(S)
           s == InOrder(S)
           B == BatchUpdates(w, S)
           t(j) == IF j < Len(s) /\ s[j + 1][2] = s[j][2] THEN 0 ELSE s[j][2]
<1>1. /\ n \in Nat
      /\ s \in [1 .. n -> S]
      /\ \A i, j \in 1 .. n : i < j => Before(s[i], s[j])
      /\ \A r \in S : \E j \in 1 .. n : s[j] = r
  <2>1. \A r \in S : r[1] = w
    OBVIOUS
  <2> QED
    BY <2>1, InOrderProp
<1>2. Len(s) = n
    BY <1>1 DEF InOrder
<1>3. B = [j \in 1 .. n |-> Rdata(w, t(j), s[j])]
    BY <1>2 DEF BatchUpdates
<1> HIDE DEF n, s, B
<1>4. ASSUME NEW j \in 1 .. n
      PROVE  /\ B[j] = Rdata(w, t(j), s[j])
             /\ s[j] \in S /\ s[j] \in RowType
             /\ t(j) \in {0, s[j][2]} /\ t(j) \in Nat
    BY <1>1, <1>3 DEF RowType
<1>5. ASSUME NEW j \in 1 .. n
      PROVE  /\ B[j].type = "RDATA" /\ B[j].w = w
             /\ B[j].row = s[j] /\ B[j].token = t(j) /\ B[j] \in Commands
  <2> DEFINE tj == t(j)
  <2>1. B[j] = Rdata(w, tj, s[j]) /\ s[j] \in RowType /\ tj \in Nat
    BY <1>4
  <2> HIDE DEF tj
  <2>2. /\ B[j].type = "RDATA" /\ B[j].w = w
        /\ B[j].row = s[j] /\ B[j].token = tj /\ B[j] \in Commands
    BY <2>1 DEF Rdata, Commands
  <2> QED
    BY <2>2 DEF tj
<1>6. B \in Seq(Commands) /\ Len(B) = n
  <2>1. B \in [1 .. n -> Commands]
    BY <1>3, <1>5
  <2> QED
    BY <1>1, <2>1
<1>7. ASSUME NEW j \in 1 .. n, t(j) # 0, NEW r \in S, Before(s[j], r), r[2] = s[j][2]
      PROVE  FALSE
  <2>1. PICK k \in 1 .. n : s[k] = r
    BY <1>1
  <2>2. s[j] \in RowType /\ s[k] \in RowType
    BY <1>4
  <2>3. j < k
    <3>1. j # k
        BY <1>7, <2>1, <2>2 DEF Before, RowType
    <3>2. ~(k < j)
      <4> SUFFICES ASSUME k < j PROVE FALSE
        OBVIOUS
      <4>1. Before(s[k], s[j])
        BY <1>1
      <4> QED
        BY <1>7, <2>1, <2>2, <4>1 DEF Before, RowType
    <3> QED
        BY <1>1, <3>1, <3>2
  <2>4. j + 1 \in 1 .. n /\ j < n
    BY <1>1, <2>3
  <2>5. s[j + 1] \in RowType /\ Before(s[j], s[j + 1])
    BY <1>1, <1>4, <2>4
  <2>6. s[j + 1] = s[k] \/ Before(s[j + 1], s[k])
    <3>1. j + 1 = k \/ j + 1 < k
        BY <1>1, <2>3
    <3> QED
        BY <1>1, <2>4, <3>1
  <2>7. s[j + 1][2] = s[j][2]
    <3>1. s[j][2] <= s[j + 1][2] /\ s[j + 1][2] <= s[k][2]
        BY <2>2, <2>5, <2>6 DEF Before, RowType
    <3> QED
        BY <1>7, <2>1, <2>2, <2>5, <3>1 DEF RowType
  <2>8. t(j) = 0
    BY <1>2, <2>4, <2>7
  <2> QED
    BY <1>7, <2>8
<1>8. /\ \A j \in 1 .. n : /\ B[j].type = "RDATA" /\ B[j].w = w /\ B[j].row \in S
                           /\ B[j].token \in {0, B[j].row[2]}
      /\ \A i, j \in 1 .. n : i < j => Before(B[i].row, B[j].row)
      /\ \A r \in S : \E j \in 1 .. n : B[j].row = r
  <2>1. ASSUME NEW j \in 1 .. n
        PROVE  B[j].type = "RDATA" /\ B[j].w = w /\ B[j].row \in S /\ B[j].token \in {0, B[j].row[2]}
    BY <1>4, <1>5
  <2>2. \A j \in 1 .. n : B[j].row = s[j]
    BY <1>5
  <2> QED
    BY <1>1, <2>1, <2>2
<1>9. \A j \in 1 .. n : B[j].token # 0 =>
          \A r \in S : ~(Before(B[j].row, r) /\ r[2] = B[j].row[2])
  <2> HIDE DEF t
  <2> QED
    BY <1>5, <1>7
<1>10. Len(B) = n
    BY <1>6
<1> QED
    BY <1>6, <1>8, <1>9, <1>10 DEF B

\* The POSITION after a read goes from its last row to its end.
LEMMA PositionAfterProp ==
    ASSUME NEW w \in Writers, NEW from \in Nat, NEW u \in Nat, from <= u,
           IsFiniteSet(rows), \A r \in rows : r \in RowType
    PROVE  LET P == PositionAfter(w, from, u, RowsBetween(w, from, u))
           IN  /\ P \in Seq(Commands)
               /\ \A j \in 1 .. Len(P) : /\ P[j].type = "POSITION" /\ P[j].w = w
                                         /\ P[j].prev \in Nat /\ P[j].new = u
                                         /\ RowsBetween(w, P[j].prev, u) = {}
<1> DEFINE S == RowsBetween(w, from, u)
           T == {r[2] : r \in S}
           end == IF S = {} THEN from ELSE Max(T)
           P == PositionAfter(w, from, u, S)
<1>1. \A r \in S : r \in rows /\ r[1] = w /\ from < r[2] /\ r[2] <= u /\ r[2] \in Nat
    BY DEF RowsBetween, RowType
<1>2. end \in Nat /\ from <= end /\ RowsBetween(w, end, u) = {}
  <2>1. CASE S = {}
    BY <2>1
  <2>2. CASE S # {}
    <3>1. T \in SUBSET Nat /\ T # {} /\ \A x \in T : x <= u
        BY <1>1, <2>2
    <3>2. Max(T) \in T /\ \A x \in T : x <= Max(T)
        BY <3>1, MaxNat
    <3>3. end = Max(T)
        BY <2>2
    <3>4. end \in Nat /\ from <= end
        BY <1>1, <3>1, <3>2, <3>3
    <3>5. ASSUME NEW r \in RowsBetween(w, end, u)
          PROVE  FALSE
      <4>1. r \in rows /\ r[1] = w /\ end < r[2] /\ r[2] <= u /\ r[2] \in Nat
        BY DEF RowsBetween, RowType
      <4>2. r \in S
        BY <3>4, <4>1 DEF RowsBetween
      <4>3. r[2] <= end
        BY <3>2, <3>3, <4>2
      <4> HIDE DEF end
      <4> QED
        BY <3>4, <4>1, <4>3
    <3> QED
        BY <3>4, <3>5
  <2> QED
    BY <2>1, <2>2
<1>3. P = IF end < u THEN <<Position(w, end, u)>> ELSE <<>>
    BY DEF PositionAfter
<1> HIDE DEF end, S, P
<1>4. Position(w, end, u) \in Commands
    BY <1>2 DEF Position, Commands
<1>5. CASE end < u
  <2>1. P = <<Position(w, end, u)>>
    BY <1>3, <1>5
  <2>2. P \in Seq(Commands) /\ Len(P) = 1 /\ P[1] = Position(w, end, u)
    BY <1>4, <2>1
  <2>3. \A j \in 1 .. Len(P) : j = 1
    BY <2>2
  <2>4. /\ P[1].type = "POSITION" /\ P[1].w = w /\ P[1].prev = end /\ P[1].new = u
    BY <2>2 DEF Position
  <2> QED
    BY <1>2, <2>2, <2>3, <2>4 DEF P, S
<1>6. CASE ~(end < u)
  <2>1. P = <<>>
    BY <1>3, <1>6
  <2> QED
    BY <2>1 DEF P, S
<1> QED
    BY <1>5, <1>6

-----------------------------------------------------------------------------
(***************************************************************************)
(* Any number of writers                                                   *)
(***************************************************************************)

\* The tokens of the writers are in order, and below what was handed out.
TokensInOrder ==
    /\ seq \in Nat \ {0}
    /\ tok \in [Writers -> Nat]
    /\ minTok \in [Writers -> Nat]
    /\ last \in [Writers -> Nat]
    /\ announced \in [Writers -> Nat]
    /\ \A w \in Writers : /\ minTok[w] <= tok[w]
                          /\ tok[w] <= seq
                          /\ last[w] <= tok[w]
                          /\ announced[w] <= seq

\* A read of the database stays below the token.
ReadsInOrder ==
    /\ fetch \in [Writers -> Nat \X Nat]
    /\ \A w \in Writers : fetch[w][1] <= fetch[w][2] /\ fetch[w][2] <= tok[w]

\* A row is a writer's, at or below its own token.
RowsInOrder ==
    /\ IsFiniteSet(rows)
    /\ \A r \in rows : /\ r \in RowType
                       /\ 1 < r[2] /\ r[2] <= minTok[r[1]]

\* A POSITION that steps over no row, now or later.
Sound(cmd) ==
    cmd.type = "POSITION" =>
        cmd.new <= seq /\ RowsBetween(cmd.w, cmd.prev, cmd.new) = {}

SoundCommands(s) == s \in Seq(Commands) /\ \A j \in 1 .. Len(s) : Sound(s[j])

WriterInv == TokensInOrder /\ ReadsInOrder /\ RowsInOrder /\ SoundCommands(chan)

LEMMA SoundConcat ==
    ASSUME NEW s, NEW t, SoundCommands(s), SoundCommands(t)
    PROVE  SoundCommands(s \o t)
<1>1. /\ s \o t \in Seq(Commands) /\ Len(s \o t) = Len(s) + Len(t)
      /\ \A i \in 1 .. Len(s) + Len(t) : (s \o t)[i] = IF i <= Len(s) THEN s[i] ELSE t[i - Len(s)]
    BY ConcatProperties DEF SoundCommands
<1>2. Len(s) \in Nat /\ Len(t) \in Nat
    BY LenProperties DEF SoundCommands
<1>3. ASSUME NEW i \in 1 .. Len(s \o t)
      PROVE  Sound((s \o t)[i])
  <2>1. CASE i <= Len(s)
    BY <1>1, <1>2, <2>1 DEF SoundCommands
  <2>2. CASE ~(i <= Len(s))
    <3>1. i - Len(s) \in 1 .. Len(t)
        BY <1>1, <1>2, <2>2
    <3> QED
        BY <1>1, <1>2, <2>2, <3>1 DEF SoundCommands
  <2> QED
    BY <2>1, <2>2
<1> QED
    BY <1>1, <1>3 DEF SoundCommands

LEMMA SoundEmpty == SoundCommands(<<>>)
BY DEF SoundCommands

LEMMA SoundPosition ==
    ASSUME NEW w \in Writers, NEW prev \in Nat, NEW new \in Nat,
           new <= seq, RowsBetween(w, prev, new) = {}
    PROVE  SoundCommands(<<Position(w, prev, new)>>)
<1> DEFINE p == Position(w, prev, new)
<1>1. p \in Commands /\ p.w = w /\ p.prev = prev /\ p.new = new
    BY DEF Position, Commands
<1> HIDE DEF p
<1>2. Sound(p)
    BY <1>1 DEF Sound
<1>3. <<p>> \in Seq(Commands) /\ Len(<<p>>) = 1 /\ <<p>>[1] = p
    BY <1>1
<1> QED
    BY <1>2, <1>3 DEF SoundCommands, p

\* Publishing leaves the channel sound.
LEMMA PublishStep ==
    ASSUME WriterInv, NEW w \in Writers, NEW cmds, SoundCommands(cmds), NEW token \in Nat,
           token <= seq, Publish(w, cmds, token)
    PROVE  /\ SoundCommands(chan')
           /\ announced' \in [Writers -> Nat]
           /\ \A x \in Writers : announced'[x] <= seq
<1>1. SoundCommands(chan')
    BY SoundConcat DEF Publish, WriterInv
<1>2. announced \in [Writers -> Nat] /\ announced[w] \in Nat /\ \A x \in Writers : announced[x] <= seq
    BY DEF WriterInv, TokensInOrder
<1>3. announced' = [announced EXCEPT ![w] =
                        IF up[w] /\ cmds # <<>> THEN MaxOf2(announced[w], token) ELSE announced[w]]
    BY DEF Publish
<1>4. MaxOf2(announced[w], token) \in Nat /\ MaxOf2(announced[w], token) <= seq
    BY <1>2 DEF MaxOf2
<1>5. announced' \in [Writers -> Nat] /\ \A x \in Writers : announced'[x] <= seq
  <2>1. CASE up[w] /\ cmds # <<>>
    BY <1>2, <1>3, <1>4, <2>1
  <2>2. CASE ~(up[w] /\ cmds # <<>>)
    BY <1>2, <1>3, <2>2
  <2> QED
    BY <2>1, <2>2
<1> QED
    BY <1>1, <1>5

\* So does a round of the loop.
LEMMA RoundStep ==
    ASSUME WriterInv, NEW w \in Writers, NEW from \in Nat, from <= tok[w],
           NEW sent, SoundCommands(sent), Round(w, sent, from), UNCHANGED writerVars
    PROVE  WriterInv'
<1> DEFINE hello == IF announce[w] THEN <<Position(w, from, from)>> ELSE <<>>
           skip  == IF from # tok[w] /\ ~(from < minTok[w]) THEN <<Position(w, from, tok[w])>> ELSE <<>>
           token == IF skip # <<>> THEN tok[w] ELSE from
<1>1. /\ seq \in Nat /\ tok[w] \in Nat /\ minTok[w] \in Nat
      /\ tok[w] <= seq /\ minTok[w] <= tok[w]
    BY DEF WriterInv, TokensInOrder
<1>2. SoundCommands(hello)
  <2>1. RowsBetween(w, from, from) = {}
    BY DEF RowsBetween, WriterInv, RowsInOrder, RowType
  <2>2. SoundCommands(<<Position(w, from, from)>>)
    BY <1>1, <2>1, SoundPosition
  <2>3. CASE announce[w]
    BY <2>2, <2>3
  <2>4. CASE ~announce[w]
    BY <2>4, SoundEmpty
  <2> QED
    BY <2>3, <2>4
<1>3. SoundCommands(skip)
  <2>1. CASE from # tok[w] /\ ~(from < minTok[w])
    <3>1. RowsBetween(w, from, tok[w]) = {}
        BY <1>1, <2>1 DEF RowsBetween, WriterInv, RowsInOrder, RowType
    <3>2. SoundCommands(<<Position(w, from, tok[w])>>)
        BY <1>1, <3>1, SoundPosition
    <3> QED
        BY <2>1, <3>2
  <2>2. CASE ~(from # tok[w] /\ ~(from < minTok[w]))
    BY <2>2, SoundEmpty
  <2> QED
    BY <2>1, <2>2
<1>4. Publish(w, sent \o hello \o skip, token)
    BY DEF Round
<1>5. token \in Nat /\ token <= seq
  <2> HIDE DEF skip
  <2> QED
    BY <1>1
<1> HIDE DEF hello, skip, token
<1>6. SoundCommands(sent \o hello \o skip)
    BY <1>2, <1>3, SoundConcat
<1>7. /\ SoundCommands(chan')
      /\ announced' \in [Writers -> Nat]
      /\ \A x \in Writers : announced'[x] <= seq
    BY <1>4, <1>5, <1>6, PublishStep
<1>8. UNCHANGED <<seq, rows, tok, minTok>>
    BY DEF writerVars
<1>9. SoundCommands(chan)'
    BY <1>7, <1>8 DEF SoundCommands, Sound, RowsBetween
<1>10. TokensInOrder'
  <2>1. /\ last' \in [Writers -> Nat]
        /\ \A x \in Writers : last'[x] <= tok[x]
    BY <1>1 DEF Round, WriterInv, TokensInOrder
  <2> QED
    BY <1>7, <1>8, <2>1 DEF WriterInv, TokensInOrder
<1>11. ReadsInOrder'
    BY <1>1, <1>8 DEF Round, WriterInv, TokensInOrder, ReadsInOrder
<1>12. RowsInOrder'
    BY <1>8 DEF WriterInv, RowsInOrder
<1> QED
    BY <1>9, <1>10, <1>11, <1>12 DEF WriterInv

\* The commands of a read are sound.
LEMMA ReadIsSound ==
    ASSUME WriterInv, NEW w \in Writers, NEW from \in Nat, NEW u \in Nat, from <= u, u <= seq
    PROVE  SoundCommands(BatchUpdates(w, RowsBetween(w, from, u)) \o
                         PositionAfter(w, from, u, RowsBetween(w, from, u)))
<1> DEFINE S == RowsBetween(w, from, u)
           B == BatchUpdates(w, S)
           P == PositionAfter(w, from, u, S)
<1>1. IsFiniteSet(rows) /\ \A r \in rows : r \in RowType /\ 1 < r[2]
    BY DEF WriterInv, RowsInOrder
<1>2. /\ S \in SUBSET RowType /\ IsFiniteSet(S) /\ S \subseteq rows
      /\ \A r \in S : r[1] = w
    BY <1>1, ReadRows
<1>3. \A r \in S : r[1] = w /\ 0 < r[2]
    BY <1>1, <1>2 DEF RowType
<1>4. /\ P \in Seq(Commands)
      /\ \A j \in 1 .. Len(P) : /\ P[j].type = "POSITION" /\ P[j].w = w
                                /\ P[j].prev \in Nat /\ P[j].new = u
                                /\ RowsBetween(w, P[j].prev, u) = {}
    BY <1>1, PositionAfterProp
<1> HIDE DEF S
<1>5. B \in Seq(Commands) /\ \A j \in 1 .. Len(B) : B[j].type = "RDATA"
    BY <1>2, <1>3, BatchProp
<1> HIDE DEF B, P
<1>6. SoundCommands(B)
    BY <1>5 DEF SoundCommands, Sound
<1>7. SoundCommands(P)
    BY <1>4 DEF SoundCommands, Sound
<1> QED
    BY <1>6, <1>7, SoundConcat DEF B, P, S

\* The rows of a write.
LEMMA WrittenRows ==
    ASSUME NEW w \in Writers, NEW n \in Nat, NEW id \in Nat
    PROVE  LET T == {<<w, id, k>> : k \in 1 .. n}
           IN  /\ IsFiniteSet(T)
               /\ \A r \in T : r \in RowType /\ r[1] = w /\ r[2] = id
<1> DEFINE T == {<<w, id, k>> : k \in 1 .. n}
           f == [k \in 1 .. n |-> <<w, id, k>>]
<1>1. f \in Surjection(1 .. n, T)
    BY DEF Surjection
<1>2. IsFiniteSet(1 .. n)
    BY FS_Interval
<1>3. IsFiniteSet(T)
  <2> HIDE DEF T, f
  <2> QED
    BY <1>1, <1>2, FS_Surjection
<1>4. \A r \in T : r \in RowType /\ r[1] = w /\ r[2] = id
    BY DEF RowType
<1> QED
    BY <1>3, <1>4

LEMMA WriteStep ==
    ASSUME WriterInv, NEW w \in Writers, NEW n \in 0 .. MaxRows, Write(w, n)
    PROVE  WriterInv'
<1> DEFINE T == {<<w, seq + 1, k>> : k \in 1 .. n}
<1>1. seq \in Nat /\ n \in Nat /\ seq + 1 \in Nat
    BY ReplicationAssumption DEF WriterInv, TokensInOrder
<1>2. /\ seq' = seq + 1
      /\ rows' = rows \union T
      /\ tok' = [tok EXCEPT ![w] = seq + 1]
      /\ minTok' = [minTok EXCEPT ![w] = seq + 1]
      /\ UNCHANGED <<last, fetch, announced, chan>>
    BY DEF Write, streamVars
<1>3. IsFiniteSet(T) /\ \A r \in T : r \in RowType /\ r[1] = w /\ r[2] = seq + 1
    BY <1>1, WrittenRows, SMTT(30)
<1> HIDE DEF T
<1>4. TokensInOrder'
    BY <1>2 DEF WriterInv, TokensInOrder
<1>5. ReadsInOrder'
  <2>1. \A x \in Writers : tok'[x] \in Nat /\ tok[x] \in Nat /\ tok[x] <= tok'[x]
    BY <1>2 DEF WriterInv, TokensInOrder
  <2>2. \A x \in Writers : fetch[x] \in Nat \X Nat
    BY DEF WriterInv, ReadsInOrder
  <2> QED
    BY <1>2, <2>1, <2>2 DEF WriterInv, ReadsInOrder
<1>6. RowsInOrder'
  <2>1. IsFiniteSet(rows')
    BY <1>2, <1>3, FS_Union DEF WriterInv, RowsInOrder
  <2>2. ASSUME NEW r \in rows'
        PROVE  r \in RowType /\ 1 < r[2] /\ r[2] <= minTok'[r[1]]
    <3>1. CASE r \in rows
      <4>1. r \in RowType /\ 1 < r[2] /\ r[2] <= minTok[r[1]] /\ r[1] \in Writers /\ r[2] \in Nat
        BY <3>1 DEF WriterInv, RowsInOrder, RowType
      <4>2. minTok[r[1]] \in Nat /\ minTok'[r[1]] \in Nat /\ minTok[r[1]] <= minTok'[r[1]]
        BY <1>2, <4>1 DEF WriterInv, TokensInOrder
      <4> QED
        BY <4>1, <4>2
    <3>2. CASE r \in T
      <4>1. minTok'[w] = seq + 1 /\ seq \in Nat /\ 0 < seq
        BY <1>2 DEF WriterInv, TokensInOrder
      <4> QED
        BY <1>3, <3>2, <4>1
    <3> QED
        BY <1>2, <3>1, <3>2
  <2> QED
    BY <2>1, <2>2 DEF RowsInOrder
<1>7. SoundCommands(chan)'
  <2>1. ASSUME NEW j \in 1 .. Len(chan), chan[j].type = "POSITION"
        PROVE  chan[j].new <= seq' /\ RowsBetween(chan[j].w, chan[j].prev, chan[j].new)' = {}
    <3>1. /\ chan[j] \in Commands /\ chan[j].new <= seq
          /\ RowsBetween(chan[j].w, chan[j].prev, chan[j].new) = {}
        BY <2>1, ElementOfSeq DEF WriterInv, SoundCommands, Sound
    <3>2. chan[j].new \in Nat
        BY <2>1, <3>1 DEF Commands
    <3>3. ASSUME NEW r \in rows', r[1] = chan[j].w, chan[j].prev < r[2], r[2] <= chan[j].new
          PROVE  FALSE
      <4>1. r \in rows
        BY <1>1, <1>2, <1>3, <3>1, <3>2, <3>3
      <4> QED
        BY <3>1, <3>3, <4>1 DEF RowsBetween
    <3> QED
        BY <1>1, <1>2, <3>1, <3>2, <3>3 DEF RowsBetween
  <2> QED
    BY <1>2, <2>1 DEF WriterInv, SoundCommands, Sound
<1> QED
    BY <1>4, <1>5, <1>6, <1>7 DEF WriterInv

\* What a step that only takes commands from the channel, or moves tokens, keeps.
LEMMA QuietStep ==
    ASSUME WriterInv, UNCHANGED <<seq, rows, minTok, announced, fetch, last, tok>>,
           \/ chan' = chan
           \/ chan' = <<>>
           \/ chan # <<>> /\ chan' = Tail(chan)
    PROVE  WriterInv'
<1>1. SoundCommands(chan')
  <2>1. CASE chan' = chan
    BY <2>1 DEF WriterInv
  <2>2. CASE chan' = <<>>
    BY <2>2, SoundEmpty
  <2>3. CASE chan # <<>> /\ chan' = Tail(chan)
    <3>1. /\ chan' \in Seq(Commands) /\ Len(chan') = Len(chan) - 1 /\ Len(chan) \in Nat
          /\ \A i \in 1 .. Len(chan') : chan'[i] = chan[i + 1]
        BY <2>3, HeadTailProperties, LenProperties DEF WriterInv, SoundCommands
    <3>2. \A i \in 1 .. Len(chan') : i + 1 \in 1 .. Len(chan)
        BY <3>1
    <3> QED
        BY <3>1, <3>2 DEF WriterInv, SoundCommands
  <2> QED
    BY <2>1, <2>2, <2>3
<1>2. SoundCommands(chan)'
    BY <1>1 DEF SoundCommands, Sound, RowsBetween
<1> QED
    BY <1>2 DEF WriterInv, TokensInOrder, ReadsInOrder, RowsInOrder

LEMMA CarryStep ==
    ASSUME WriterInv, NEW w \in Writers, NEW x \in Writers, Carry(w, x)
    PROVE  WriterInv'
<1>1. /\ announced[x] \in Nat /\ announced[x] <= seq
      /\ tok[w] \in Nat /\ tok[w] < announced[x]
      /\ tok' = [tok EXCEPT ![w] = announced[x]]
      /\ UNCHANGED <<seq, rows, minTok, announced, fetch, last, chan>>
    BY DEF Carry, WriterInv, TokensInOrder, streamVars
<1>2. SoundCommands(chan)'
    BY <1>1 DEF WriterInv, SoundCommands, Sound, RowsBetween
<1>3. TokensInOrder'
    BY <1>1 DEF WriterInv, TokensInOrder
<1>4. ReadsInOrder'
  <2>1. \A y \in Writers : tok'[y] \in Nat /\ tok[y] \in Nat /\ tok[y] <= tok'[y]
    BY <1>1 DEF WriterInv, TokensInOrder
  <2>2. \A y \in Writers : fetch[y] \in Nat \X Nat
    BY DEF WriterInv, ReadsInOrder
  <2> QED
    BY <1>1, <2>1, <2>2 DEF WriterInv, ReadsInOrder
<1>5. RowsInOrder'
    BY <1>1 DEF WriterInv, RowsInOrder
<1> QED
    BY <1>2, <1>3, <1>4, <1>5 DEF WriterInv

LEMMA PokeStep ==
    ASSUME WriterInv, NEW w \in Writers, Poke(w)
    PROVE  WriterInv'
<1>1. UNCHANGED writerVars /\ last[w] \in Nat /\ last[w] <= tok[w]
    BY DEF Poke, WriterInv, TokensInOrder
<1>2. CASE Round(w, <<>>, last[w])
    BY <1>1, <1>2, RoundStep, SoundEmpty
<1>3. CASE UNCHANGED <<last, fetch, announced, chan>>
    BY <1>1, <1>3, QuietStep DEF writerVars
<1>4. CASE last' = [last EXCEPT ![w] = tok[w]] /\ UNCHANGED <<fetch, announced, chan>>
  <2>1. SoundCommands(chan)'
    BY <1>1, <1>4 DEF WriterInv, SoundCommands, Sound, RowsBetween, writerVars
  <2>2. TokensInOrder'
    BY <1>1, <1>4 DEF WriterInv, TokensInOrder, writerVars
  <2> QED
    BY <1>1, <1>4, <2>1, <2>2 DEF WriterInv, ReadsInOrder, RowsInOrder, writerVars
<1> QED
    BY <1>2, <1>3, <1>4 DEF Poke

LEMMA GetUpdatesStep ==
    ASSUME WriterInv, NEW w \in Writers, NEW u \in 1 .. seq, GetUpdates(w, u)
    PROVE  WriterInv'
<1> DEFINE from == fetch[w][1]
           S    == RowsBetween(w, from, u)
           cmds == BatchUpdates(w, S) \o PositionAfter(w, from, u, S)
<1>1. /\ fetch[w] \in Nat \X Nat /\ from \in Nat /\ fetch[w][2] \in Nat
      /\ from <= fetch[w][2] /\ fetch[w][2] <= tok[w] /\ tok[w] \in Nat /\ tok[w] <= seq /\ seq \in Nat
    BY DEF WriterInv, ReadsInOrder, TokensInOrder
<1>2. u \in Nat /\ from <= u /\ u <= fetch[w][2]
  <2>1. u \in ReadEnds(w, from, fetch[w][2])
    BY DEF GetUpdates
  <2> HIDE DEF from
  <2> QED
    BY <1>1, <2>1, ReadEndsProp DEF WriterInv, RowsInOrder
<1>3. u <= tok[w] /\ u <= seq
    BY <1>1, <1>2
<1>4. SoundCommands(cmds)
    BY <1>1, <1>2, <1>3, ReadIsSound
<1>5. UNCHANGED writerVars
    BY DEF GetUpdates
<1>6. CASE Round(w, cmds, u)
  <2> HIDE DEF cmds
  <2> QED
    BY <1>2, <1>3, <1>4, <1>5, <1>6, RoundStep
<1>7. CASE /\ Publish(w, cmds, u)
           /\ last' = [last EXCEPT ![w] = u]
           /\ fetch' = [fetch EXCEPT ![w] = <<0, 0>>]
  <2> HIDE DEF cmds
  <2>1. /\ SoundCommands(chan')
        /\ announced' \in [Writers -> Nat]
        /\ \A x \in Writers : announced'[x] <= seq
    BY <1>2, <1>3, <1>4, <1>7, PublishStep
  <2>2. SoundCommands(chan)'
    BY <1>5, <2>1 DEF SoundCommands, Sound, RowsBetween, writerVars
  <2>3. TokensInOrder'
    BY <1>2, <1>3, <1>5, <1>7, <2>1 DEF WriterInv, TokensInOrder, writerVars
  <2>4. ReadsInOrder'
    BY <1>1, <1>5, <1>7 DEF WriterInv, ReadsInOrder, TokensInOrder, writerVars
  <2> QED
    BY <1>5, <2>2, <2>3, <2>4 DEF WriterInv, RowsInOrder, writerVars
<1>8. Round(w, cmds, u) \/ (/\ Publish(w, cmds, u)
                            /\ last' = [last EXCEPT ![w] = u]
                            /\ fetch' = [fetch EXCEPT ![w] = <<0, 0>>])
    BY DEF GetUpdates
<1> QED
    BY <1>6, <1>7, <1>8

LEMMA GetUpdatesFailsStep ==
    ASSUME WriterInv, NEW w \in Writers, GetUpdatesFails(w)
    PROVE  WriterInv'
<1>1. /\ fetch' = [fetch EXCEPT ![w] = <<0, 0>>]
      /\ UNCHANGED <<seq, rows, tok, minTok, last, announced, chan>>
    BY DEF GetUpdatesFails, writerVars
<1>2. SoundCommands(chan)'
    BY <1>1 DEF WriterInv, SoundCommands, Sound, RowsBetween
<1>3. ReadsInOrder'
    BY <1>1 DEF WriterInv, ReadsInOrder, TokensInOrder
<1> QED
    BY <1>1, <1>2, <1>3 DEF WriterInv, TokensInOrder, RowsInOrder

LEMMA WriterNext ==
    ASSUME WriterInv, [Next]_vars
    PROVE  WriterInv'
<1>1. CASE UNCHANGED vars
    BY <1>1, QuietStep DEF vars, writerVars, streamVars
<1>2. ASSUME NEW w \in Writers,
             OnReplicate(w) \/ WriterDown(w) \/ WriterUp(w) \/ SendPositionsToConnection(w)
      PROVE  WriterInv'
    BY <1>2, QuietStep DEF OnReplicate, WriterDown, WriterUp, SendPositionsToConnection,
                           writerVars, streamVars
<1>3. CASE ReaderDown \/ ReaderUp \/ Deliver
    BY <1>3, QuietStep DEF ReaderDown, ReaderUp, Deliver, writerVars, streamVars
<1>4. CASE Handler \/ ProcessFails
  <2>1. UNCHANGED <<writerVars, streamVars, chan>>
    BY <1>4 DEF Handler, ProcessRdata, ProcessPosition, GetUpdatesSince, ApplyUpdates, FetchedAll,
                OnPosition, Connect, ProcessFails
  <2> QED
    BY <2>1, QuietStep, SMTT(30) DEF writerVars, streamVars
<1> QED
    BY <1>1, <1>2, <1>3, <1>4, WriteStep, CarryStep, PokeStep, GetUpdatesStep, GetUpdatesFailsStep
    DEF Next, HealthyNext, AloneNext, Streamer, Failures

LEMMA WriterInit ==
    ASSUME Init
    PROVE  WriterInv
<1>1. TokensInOrder /\ ReadsInOrder
    BY DEF Init, TokensInOrder, ReadsInOrder
<1>2. RowsInOrder
    BY FS_EmptySet DEF Init, RowsInOrder
<1>3. SoundCommands(chan)
    BY SoundEmpty DEF Init
<1> QED
    BY <1>1, <1>2, <1>3 DEF WriterInv

\* No POSITION of any writer steps over a row of that writer, now or later, with
\* any number of writers, ids and lost connections on both sides, whether it
\* follows limited reads, announces a position or reports one that was carried
\* forward by other writers.
THEOREM PositionsAreSafe == Spec => []PositionsSkipNoRows
<1>1. WriterInv => PositionsSkipNoRows
  <2> SUFFICES ASSUME WriterInv, NEW j \in DOMAIN chan, chan[j].type = "POSITION"
               PROVE  RowsBetween(chan[j].w, chan[j].prev, chan[j].new) = {}
    BY DEF PositionsSkipNoRows
  <2>1. j \in 1 .. Len(chan)
    BY LenProperties DEF WriterInv, SoundCommands
  <2> QED
    BY <2>1 DEF WriterInv, SoundCommands, Sound
<1> QED
    BY <1>1, WriterInit, WriterNext, PTL DEF Spec

-----------------------------------------------------------------------------
(***************************************************************************)
(* One writer: the line of commands                                        *)
(***************************************************************************)

Entries == [cmd : Commands, conn : Nat]

\* The commands the reader has yet to handle, each with its connection.
Tagged(cmds, c) == [j \in 1 .. Len(cmds) |-> [cmd |-> cmds[j], conn |-> c]]
Line == queue \o Tagged(chan, conn)

IsRdata(e) == e.cmd.type = "RDATA"
IsPosition(e) == e.cmd.type = "POSITION"

\* Entry e carries row q, or steps over it.
Brings(e, q) ==
    \/ IsRdata(e) /\ e.cmd.row = q
    \/ IsPosition(e) /\ q[2] <= e.cmd.new

\* After place k, the entries of connection c in L bring each row of S that is
\* not in floor before any later row, and all those up to x.
Chained(L, k, c, floor, S, x) ==
    /\ \A j \in 1 .. Len(L) : \A q \in S :
          k < j /\ L[j].conn = c /\ IsRdata(L[j]) /\ Before(q, L[j].cmd.row) /\ q \notin floor =>
              \E m \in 1 .. Len(L) : k < m /\ m < j /\ L[m].conn = c /\ Brings(L[m], q)
    /\ \A q \in S :
          q[2] <= x /\ q \notin floor =>
              \E m \in 1 .. Len(L) : k < m /\ L[m].conn = c /\ Brings(L[m], q)

\* Entry n leaves the line: what it brings must be in the floor by then.
LEMMA ChainedRemove ==
    ASSUME NEW L \in Seq(Entries), NEW n \in 1 .. Len(L), NEW N \in Seq(Entries),
           Len(N) = Len(L) - 1,
           \A i \in 1 .. Len(N) : N[i] = IF i < n THEN L[i] ELSE L[i + 1],
           NEW k \in 0 .. Len(L), NEW c, NEW floor, NEW floor2, NEW S, NEW x,
           Chained(L, k, c, floor, S, x), floor \subseteq floor2,
           k < n /\ L[n].conn = c => \A q \in S : Brings(L[n], q) => q \in floor2
    PROVE  Chained(N, IF k < n THEN k ELSE k - 1, c, floor2, S, x)
<1> DEFINE k2 == IF k < n THEN k ELSE k - 1
<1>1. Len(L) \in Nat /\ Len(N) \in Nat /\ k \in Nat /\ n \in Nat /\ k2 \in Int
    BY LenProperties
<1>2. ASSUME NEW m \in 1 .. Len(L), NEW q \in S, k < m, L[m].conn = c, Brings(L[m], q),
             q \notin floor2
      PROVE  \E i \in 1 .. Len(N) : k2 < i /\ N[i] = L[m] /\ i = IF m < n THEN m ELSE m - 1
  <2>1. m # n
    BY <1>2
  <2>2. CASE m < n
    BY <1>1, <1>2, <2>2, SMTT(30)
  <2>3. CASE n < m
    <3>1. m - 1 \in 1 .. Len(N) /\ k2 < m - 1 /\ ~(m - 1 < n)
        BY <1>1, <1>2, <2>3
    <3>2. N[m - 1] = L[(m - 1) + 1]
        BY <3>1
    <3> QED
        BY <1>1, <2>3, <3>1, <3>2
  <2> QED
    BY <1>1, <2>1, <2>2, <2>3
<1>3. ASSUME NEW j \in 1 .. Len(N), NEW q \in S, k2 < j, N[j].conn = c, IsRdata(N[j]),
             Before(q, N[j].cmd.row), q \notin floor2
      PROVE  \E m \in 1 .. Len(N) : k2 < m /\ m < j /\ N[m].conn = c /\ Brings(N[m], q)
  <2> DEFINE h == IF j < n THEN j ELSE j + 1
  <2>1. h \in 1 .. Len(L) /\ N[j] = L[h] /\ k < h
    BY <1>1, <1>3
  <2>2. PICK m \in 1 .. Len(L) : k < m /\ m < h /\ L[m].conn = c /\ Brings(L[m], q)
    BY <1>3, <2>1 DEF Chained
  <2>3. PICK i \in 1 .. Len(N) : k2 < i /\ N[i] = L[m] /\ i = IF m < n THEN m ELSE m - 1
    BY <1>2, <1>3, <2>2
  <2>4. i < j
    <3>1. m # n
        BY <1>3, <2>2
    <3> QED
        BY <1>1, <2>2, <2>3, <3>1
  <2> QED
    BY <2>2, <2>3, <2>4
<1>4. ASSUME NEW q \in S, q[2] <= x, q \notin floor2
      PROVE  \E m \in 1 .. Len(N) : k2 < m /\ N[m].conn = c /\ Brings(N[m], q)
  <2>1. PICK m \in 1 .. Len(L) : k < m /\ L[m].conn = c /\ Brings(L[m], q)
    BY <1>4 DEF Chained
  <2>2. PICK i \in 1 .. Len(N) : k2 < i /\ N[i] = L[m]
    BY <1>2, <1>4, <2>1
  <2> QED
    BY <2>1, <2>2
<1> QED
    BY <1>3, <1>4 DEF Chained

\* Entries of connection d are added at the end.
LEMMA ChainedAppend ==
    ASSUME NEW L \in Seq(Entries), NEW M \in Seq(Entries), NEW d,
           \A j \in 1 .. Len(M) : M[j].conn = d,
           NEW k \in 0 .. Len(L), NEW c, NEW floor, NEW S, NEW x, NEW y,
           Chained(L, k, c, floor, S, x),
           c # d => y = x,
           c = d => /\ \A j \in 1 .. Len(M) : \A q \in S :
                          IsRdata(M[j]) /\ Before(q, M[j].cmd.row) =>
                              q[2] <= x \/ \E m \in 1 .. Len(M) : m < j /\ Brings(M[m], q)
                    /\ \A q \in S : q[2] <= y =>
                          q[2] <= x \/ \E m \in 1 .. Len(M) : Brings(M[m], q)
    PROVE  Chained(L \o M, k, c, floor, S, y)
<1> DEFINE N == L \o M
           l == Len(L)
<1>1. /\ Len(N) = l + Len(M) /\ l \in Nat /\ Len(M) \in Nat /\ k \in Nat
      /\ \A i \in 1 .. l : N[i] = L[i] /\ i \in 1 .. Len(N)
      /\ \A i \in 1 .. Len(M) : N[l + i] = M[i] /\ l + i \in 1 .. Len(N)
    BY ConcatProperties, LenProperties
<1>2. ASSUME NEW j \in 1 .. Len(N), ~(j <= l)
      PROVE  \E i \in 1 .. Len(M) : j = l + i
  <2>1. j - l \in 1 .. Len(M) /\ j = l + (j - l)
    BY <1>1, <1>2
  <2> QED
    BY <2>1
<1> HIDE DEF N, l
<1>3. ASSUME NEW q \in S, q[2] <= x, q \notin floor
      PROVE  \E m \in 1 .. l : k < m /\ N[m].conn = c /\ Brings(N[m], q)
    BY <1>1, <1>3 DEF Chained, l
<1>4. ASSUME NEW j \in 1 .. Len(N), NEW q \in S, k < j, N[j].conn = c, IsRdata(N[j]),
             Before(q, N[j].cmd.row), q \notin floor
      PROVE  \E m \in 1 .. Len(N) : k < m /\ m < j /\ N[m].conn = c /\ Brings(N[m], q)
  <2>1. CASE j <= l
    <3>1. j \in 1 .. l /\ N[j] = L[j]
        BY <1>1, <2>1
    <3>2. PICK m \in 1 .. l : k < m /\ m < j /\ L[m].conn = c /\ Brings(L[m], q)
        BY <1>4, <3>1 DEF Chained, l
    <3> QED
        BY <1>1, <3>2
  <2>2. CASE ~(j <= l)
    <3>1. PICK i \in 1 .. Len(M) : j = l + i
        BY <1>2, <2>2
    <3>2. N[j] = M[i] /\ c = d
        BY <1>1, <1>4, <3>1
    <3>3. CASE q[2] <= x
      <4>1. PICK m \in 1 .. l : k < m /\ N[m].conn = c /\ Brings(N[m], q)
        BY <1>3, <1>4, <3>3
      <4> QED
        BY <1>1, <2>2, <4>1
    <3>4. CASE ~(q[2] <= x)
      <4>1. PICK m \in 1 .. Len(M) : m < i /\ Brings(M[m], q)
        BY <1>4, <3>2, <3>4
      <4>2. N[l + m] = M[m] /\ l + m \in 1 .. Len(N) /\ k < l + m /\ l + m < j
        BY <1>1, <3>1, <4>1 DEF l
      <4> QED
        BY <3>2, <4>1, <4>2
    <3> QED
        BY <3>3, <3>4
  <2> QED
    BY <2>1, <2>2
<1>5. ASSUME NEW q \in S, q[2] <= y, q \notin floor
      PROVE  \E m \in 1 .. Len(N) : k < m /\ N[m].conn = c /\ Brings(N[m], q)
  <2>1. CASE q[2] <= x
    BY <1>1, <1>3, <1>5, <2>1
  <2>2. CASE ~(q[2] <= x)
    <3>1. c = d
        BY <1>5, <2>2
    <3>2. PICK m \in 1 .. Len(M) : Brings(M[m], q)
        BY <1>5, <2>2, <3>1
    <3>3. N[l + m] = M[m] /\ l + m \in 1 .. Len(N) /\ k < l + m
        BY <1>1 DEF l
    <3> QED
        BY <3>1, <3>2, <3>3
  <2> QED
    BY <2>1, <2>2
<1> QED
    BY <1>4, <1>5 DEF Chained, N

\* Rows are added above those of the line, or the floor rises.
LEMMA ChainedGrow ==
    ASSUME NEW L, NEW k, NEW c, NEW floor, NEW floor2, NEW S, NEW S2, NEW x, NEW y,
           Chained(L, k, c, floor, S, x), floor \subseteq floor2,
           \A q \in S2 \ S : /\ ~(q[2] <= y)
                             /\ \A j \in 1 .. Len(L) : IsRdata(L[j]) => ~Before(q, L[j].cmd.row),
           \A q \in S : q[2] <= y => q[2] <= x
    PROVE  Chained(L, k, c, floor2, S2, y)
BY DEF Chained

\* The end of the line is lost.
LEMMA ChainedCut ==
    ASSUME NEW L, NEW N, Len(N) <= Len(L), Len(N) \in Nat, Len(L) \in Nat,
           \A i \in 1 .. Len(N) : N[i] = L[i],
           NEW k, NEW c, NEW floor, NEW S, NEW x, NEW y,
           Chained(L, k, c, floor, S, x), \A q \in S : ~(q[2] <= y)
    PROVE  Chained(N, k, c, floor, S, y)
<1>1. ASSUME NEW j \in 1 .. Len(N), NEW q \in S, k < j, N[j].conn = c, IsRdata(N[j]),
             Before(q, N[j].cmd.row), q \notin floor
      PROVE  \E m \in 1 .. Len(N) : k < m /\ m < j /\ N[m].conn = c /\ Brings(N[m], q)
  <2>1. j \in 1 .. Len(L) /\ N[j] = L[j]
    OBVIOUS
  <2>2. PICK m \in 1 .. Len(L) : k < m /\ m < j /\ L[m].conn = c /\ Brings(L[m], q)
    BY <1>1, <2>1 DEF Chained
  <2>3. m \in 1 .. Len(N)
    BY <2>2
  <2> QED
    BY <2>2, <2>3
<1> QED
    BY <1>1 DEF Chained

Upto(S, t) == {q \in S : q[2] <= t}

\* Every POSITION on the line is a place to start from, for a reader at t: rows
\* up to its new token are known then.  The writer has sent x on connection d.
Starts(L, S, t, x, d) ==
    \A k \in 1 .. Len(L) : IsPosition(L[k]) =>
        Chained(L, k, L[k].conn, Upto(S, t) \union Upto(S, L[k].cmd.new), S,
                IF L[k].conn = d THEN x ELSE 0)

\* What an entry says is true of the table S, of which ids up to t are given
\* out and ids up to x were sent, and it came on one of n connections.
GoodEntry(e, S, t, x, n) ==
    /\ e.conn \in 1 .. n
    /\ IsPosition(e) => /\ e.cmd.new <= t
                        /\ \A r \in S : ~(e.cmd.prev < r[2] /\ r[2] <= e.cmd.new)
    /\ IsRdata(e) => /\ e.cmd.row \in S /\ e.cmd.row[2] <= x
                     /\ e.cmd.token \in {0, e.cmd.row[2]}
                     /\ e.cmd.token # 0 =>
                            \A r \in S : ~(Before(e.cmd.row, r) /\ r[2] = e.cmd.row[2])

GoodLine(L, S, t, x, n) == \A j \in 1 .. Len(L) : GoodEntry(L[j], S, t, x, n)

\* The rows of a connection come in the order of their ids.
Ordered(L) ==
    \A i, j \in 1 .. Len(L) :
        i < j /\ L[i].conn = L[j].conn /\ IsRdata(L[i]) /\ IsRdata(L[j]) =>
            L[i].cmd.row[2] <= L[j].cmd.row[2]

\* Those of B come before the rows of the connections in C.
BatchBefore(L, B, C) ==
    \A j \in 1 .. Len(L) : \A q \in B :
        IsRdata(L[j]) /\ L[j].conn \in C => q[2] <= L[j].cmd.row[2]

\* Part of a line is as good as all of it.
LEMMA Subline ==
    ASSUME NEW L, NEW N, NEW h, Len(L) \in Nat, Len(N) \in Nat,
           \A i \in 1 .. Len(N) : h[i] \in 1 .. Len(L) /\ N[i] = L[h[i]],
           \A i, j \in 1 .. Len(N) : i < j => h[i] < h[j],
           NEW S, NEW t, NEW x, NEW n, NEW B, NEW C,
           GoodLine(L, S, t, x, n), Ordered(L), BatchBefore(L, B, C)
    PROVE  GoodLine(N, S, t, x, n) /\ Ordered(N) /\ BatchBefore(N, B, C)
<1>1. GoodLine(N, S, t, x, n)
    BY DEF GoodLine
<1>2. Ordered(N)
  <2> SUFFICES ASSUME NEW i \in 1 .. Len(N), NEW j \in 1 .. Len(N), i < j, N[i].conn = N[j].conn,
                      IsRdata(N[i]), IsRdata(N[j])
               PROVE  N[i].cmd.row[2] <= N[j].cmd.row[2]
    BY DEF Ordered
  <2> DEFINE a == h[i]
             b == h[j]
  <2>1. a \in 1 .. Len(L) /\ b \in 1 .. Len(L) /\ a < b /\ N[i] = L[a] /\ N[j] = L[b]
    OBVIOUS
  <2> HIDE DEF a, b
  <2> QED
    BY <2>1 DEF Ordered
<1>3. BatchBefore(N, B, C)
    BY DEF BatchBefore
<1> QED
    BY <1>1, <1>2, <1>3

\* N is L without its entry n.
Without(N, L, n) ==
    /\ Len(N) = Len(L) - 1
    /\ \A i \in 1 .. Len(N) : N[i] = IF i < n THEN L[i] ELSE L[i + 1]

LEMMA LineRemove ==
    ASSUME NEW L \in Seq(Entries), NEW n \in 1 .. Len(L), NEW N \in Seq(Entries), Without(N, L, n),
           NEW S, NEW t, NEW x, NEW c, NEW B, NEW C,
           GoodLine(L, S, t, x, c), Ordered(L), BatchBefore(L, B, C)
    PROVE  GoodLine(N, S, t, x, c) /\ Ordered(N) /\ BatchBefore(N, B, C)
<1> DEFINE h == [i \in 1 .. Len(N) |-> IF i < n THEN i ELSE i + 1]
<1>1. Len(L) \in Nat /\ Len(N) \in Nat /\ n \in Nat
    BY LenProperties
<1>2. \A i \in 1 .. Len(N) : h[i] \in 1 .. Len(L) /\ N[i] = L[h[i]]
    BY <1>1 DEF Without
<1>3. \A i, j \in 1 .. Len(N) : i < j => h[i] < h[j]
    BY <1>1
<1> HIDE DEF h
<1> QED
    BY <1>1, <1>2, <1>3, Subline

LEMMA StartsRemove ==
    ASSUME NEW L \in Seq(Entries), NEW n \in 1 .. Len(L), NEW N \in Seq(Entries), Without(N, L, n),
           NEW S \in SUBSET RowType, NEW t \in Nat, NEW t2 \in Nat, t <= t2, NEW x, NEW d,
           Starts(L, S, t, x, d),
           n = 1 \/ (IsPosition(L[n]) /\ L[n].cmd.new <= t2)
    PROVE  Starts(N, S, t2, x, d)
<1> SUFFICES ASSUME NEW k \in 1 .. Len(N), IsPosition(N[k])
             PROVE  Chained(N, k, N[k].conn, Upto(S, t2) \union Upto(S, N[k].cmd.new), S,
                            IF N[k].conn = d THEN x ELSE 0)
    BY DEF Starts
<1> DEFINE h == IF k < n THEN k ELSE k + 1
           floor == Upto(S, t) \union Upto(S, L[h].cmd.new)
           floor2 == Upto(S, t2) \union Upto(S, L[h].cmd.new)
           y == IF L[h].conn = d THEN x ELSE 0
<1>1. Len(L) \in Nat /\ Len(N) \in Nat /\ n \in Nat /\ k \in Nat
    BY LenProperties
<1>2. h \in 1 .. Len(L) /\ N[k] = L[h] /\ h \in 0 .. Len(L)
    BY <1>1 DEF Without
<1>3. Chained(L, h, L[h].conn, floor, S, y)
    BY <1>2 DEF Starts
<1>4. floor \subseteq floor2
    BY DEF Upto, RowType
<1>5. h < n /\ L[n].conn = L[h].conn => \A q \in S : Brings(L[n], q) => q \in floor2
  <2> SUFFICES ASSUME h < n, NEW q \in S, Brings(L[n], q)
               PROVE  q \in Upto(S, t2)
    OBVIOUS
  <2>1. n # 1
    BY <1>1, <1>2
  <2>2. IsPosition(L[n]) /\ L[n].cmd.new <= t2 /\ L[n].cmd \in Commands
    <3>1. L[n] \in Entries
        BY ElementOfSeq
    <3> QED
        BY <2>1, <3>1 DEF Entries
  <2>3. L[n].cmd.new \in Nat /\ q[2] <= L[n].cmd.new /\ q[2] \in Nat
    BY <2>2 DEF Brings, IsRdata, IsPosition, Commands, RowType
  <2> QED
    BY <2>2, <2>3 DEF Upto
<1>6. k = IF h < n THEN h ELSE h - 1
    BY <1>1
<1>7. /\ Len(N) = Len(L) - 1
      /\ \A i \in 1 .. Len(N) : N[i] = IF i < n THEN L[i] ELSE L[i + 1]
    BY DEF Without
<1> HIDE DEF h, floor, floor2, y
<1>8. Chained(N, IF h < n THEN h ELSE h - 1, L[h].conn, floor2, S, y)
    BY <1>2, <1>3, <1>4, <1>5, <1>7, ChainedRemove
<1> QED
    BY <1>2, <1>6, <1>8 DEF floor2, y

LEMMA StartsGrow ==
    ASSUME NEW L \in Seq(Entries), NEW S \in SUBSET RowType, NEW S2 \in SUBSET RowType, S \subseteq S2,
           NEW t \in Nat, NEW t2 \in Nat, t <= t2, NEW x, NEW d,
           Starts(L, S, t, x, d), x \in Nat,
           \A q \in S2 \ S : /\ x < q[2]
                             /\ \A j \in 1 .. Len(L) : IsRdata(L[j]) => ~Before(q, L[j].cmd.row)
    PROVE  Starts(L, S2, t2, x, d)
<1> SUFFICES ASSUME NEW k \in 1 .. Len(L), IsPosition(L[k])
             PROVE  Chained(L, k, L[k].conn, Upto(S2, t2) \union Upto(S2, L[k].cmd.new), S2,
                            IF L[k].conn = d THEN x ELSE 0)
    BY DEF Starts
<1> DEFINE floor == Upto(S, t) \union Upto(S, L[k].cmd.new)
           floor2 == Upto(S2, t2) \union Upto(S2, L[k].cmd.new)
           y == IF L[k].conn = d THEN x ELSE 0
<1>1. Chained(L, k, L[k].conn, floor, S, y)
    BY DEF Starts
<1>2. floor \subseteq floor2
    BY DEF Upto, RowType
<1>3. y \in Nat /\ y <= x
    OBVIOUS
<1>4. \A q \in S2 \ S : ~(q[2] <= y)
                        /\ \A j \in 1 .. Len(L) : IsRdata(L[j]) => ~Before(q, L[j].cmd.row)
  <2> HIDE DEF y
  <2> QED
    BY <1>3 DEF RowType
<1> HIDE DEF floor, floor2, y
<1>5. Chained(L, k, L[k].conn, floor2, S2, y)
    BY <1>1, <1>2, <1>4, ChainedGrow
<1> QED
    BY <1>5 DEF floor2, y

\* The connection is lost, with the end of the line.
LEMMA StartsCut ==
    ASSUME NEW L, NEW N, Len(N) <= Len(L), Len(N) \in Nat, Len(L) \in Nat,
           \A i \in 1 .. Len(N) : N[i] = L[i],
           NEW S, \A q \in S : q[2] \in Nat /\ 0 < q[2],
           NEW t, NEW x, NEW d, NEW y, NEW e, \A i \in 1 .. Len(N) : N[i].conn # e,
           Starts(L, S, t, x, d)
    PROVE  Starts(N, S, t, y, e)
<1> SUFFICES ASSUME NEW k \in 1 .. Len(N), IsPosition(N[k])
             PROVE  Chained(N, k, N[k].conn, Upto(S, t) \union Upto(S, N[k].cmd.new), S,
                            IF N[k].conn = e THEN y ELSE 0)
    BY DEF Starts
<1> DEFINE floor == Upto(S, t) \union Upto(S, L[k].cmd.new)
           z == IF L[k].conn = d THEN x ELSE 0
<1>1. k \in 1 .. Len(L) /\ N[k] = L[k]
    OBVIOUS
<1>2. Chained(L, k, L[k].conn, floor, S, z)
    BY <1>1 DEF Starts
<1>3. \A q \in S : ~(q[2] <= 0)
    OBVIOUS
<1> HIDE DEF floor, z
<1>4. Chained(N, k, L[k].conn, floor, S, 0)
    BY <1>2, <1>3, ChainedCut
<1> QED
    BY <1>1, <1>4 DEF floor

\* Tagged commands are entries.
LEMMA TaggedProp ==
    ASSUME NEW cmds \in Seq(Commands), NEW c \in Nat
    PROVE  /\ Tagged(cmds, c) \in Seq(Entries) /\ Len(Tagged(cmds, c)) = Len(cmds)
           /\ Len(cmds) \in Nat
           /\ \A j \in 1 .. Len(cmds) : /\ cmds[j] \in Commands
                                        /\ Tagged(cmds, c)[j] = [cmd |-> cmds[j], conn |-> c]
                                        /\ Tagged(cmds, c)[j].cmd = cmds[j]
                                        /\ Tagged(cmds, c)[j].conn = c
<1>1. Len(cmds) \in Nat /\ \A j \in 1 .. Len(cmds) : cmds[j] \in Commands
    BY LenProperties, ElementOfSeq
<1>2. \A j \in 1 .. Len(cmds) : [cmd |-> cmds[j], conn |-> c] \in Entries
    BY <1>1 DEF Entries
<1>3. Tagged(cmds, c) \in [1 .. Len(cmds) -> Entries]
    BY <1>2 DEF Tagged
<1>4. Tagged(cmds, c) \in Seq(Entries) /\ Len(Tagged(cmds, c)) = Len(cmds)
    BY <1>1, <1>3
<1> QED
    BY <1>1, <1>4 DEF Tagged

\* What the streamer sends when its last token goes from x to y: all the rows
\* in between, in order, then POSITIONs to y.
Sends(M, S, x, y) ==
    /\ \A j \in 1 .. Len(M) : IsPosition(M[j]) => M[j].cmd.new = y
    /\ \A j \in 1 .. Len(M) : IsRdata(M[j]) => x < M[j].cmd.row[2]
    /\ \A i, j \in 1 .. Len(M) : i < j /\ IsPosition(M[i]) => IsPosition(M[j])
    /\ \A i, j \in 1 .. Len(M) : i < j /\ IsRdata(M[i]) /\ IsRdata(M[j]) =>
           M[i].cmd.row[2] <= M[j].cmd.row[2]
    /\ \A j \in 1 .. Len(M) : \A q \in S :
           IsRdata(M[j]) /\ Before(q, M[j].cmd.row) =>
               q[2] <= x \/ \E m \in 1 .. Len(M) : m < j /\ Brings(M[m], q)
    /\ \A q \in S : q[2] <= y =>
           q[2] <= x \/ \E m \in 1 .. Len(M) : Brings(M[m], q)

LEMMA StartsAppend ==
    ASSUME NEW L \in Seq(Entries), NEW M \in Seq(Entries), NEW S \in SUBSET RowType, NEW t,
           NEW x \in Nat, NEW y \in Nat, NEW d,
           \A j \in 1 .. Len(M) : M[j].conn = d,
           Sends(M, S, x, y), Starts(L, S, t, x, d)
    PROVE  Starts(L \o M, S, t, y, d)
<1> DEFINE N == L \o M
           l == Len(L)
<1>1. /\ Len(N) = l + Len(M) /\ l \in Nat /\ Len(M) \in Nat
      /\ \A i \in 1 .. l : N[i] = L[i] /\ i \in 1 .. Len(N)
      /\ \A i \in 1 .. Len(M) : N[l + i] = M[i] /\ l + i \in 1 .. Len(N)
    BY ConcatProperties, LenProperties
<1>2. ASSUME NEW j \in 1 .. Len(N), ~(j <= l)
      PROVE  \E i \in 1 .. Len(M) : j = l + i
  <2>1. j - l \in 1 .. Len(M) /\ j = l + (j - l)
    BY <1>1, <1>2
  <2> QED
    BY <2>1
<1> SUFFICES ASSUME NEW k \in 1 .. Len(N), IsPosition(N[k])
             PROVE  Chained(N, k, N[k].conn, Upto(S, t) \union Upto(S, N[k].cmd.new), S,
                            IF N[k].conn = d THEN y ELSE 0)
    BY DEF Starts
<1> HIDE DEF N, l
<1>3. CASE k <= l
  <2> DEFINE floor == Upto(S, t) \union Upto(S, L[k].cmd.new)
             p == IF L[k].conn = d THEN x ELSE 0
             q == IF L[k].conn = d THEN y ELSE 0
  <2>1. k \in 1 .. l /\ N[k] = L[k] /\ k \in 0 .. Len(L)
    BY <1>1, <1>3 DEF l
  <2>2. Chained(L, k, L[k].conn, floor, S, p)
    BY <2>1 DEF Starts, l
  <2>3. /\ L[k].conn # d => p = q
        /\ L[k].conn = d => p = x /\ q = y
    OBVIOUS
  <2> HIDE DEF floor, p, q
  <2>4. Chained(L \o M, k, L[k].conn, floor, S, q)
    <3>1. L[k].conn = d =>
             /\ \A j \in 1 .. Len(M) : \A r \in S :
                   IsRdata(M[j]) /\ Before(r, M[j].cmd.row) =>
                       r[2] <= p \/ \E m \in 1 .. Len(M) : m < j /\ Brings(M[m], r)
             /\ \A r \in S : r[2] <= q => r[2] <= p \/ \E m \in 1 .. Len(M) : Brings(M[m], r)
        BY <2>3 DEF Sends
    <3> QED
        BY <2>1, <2>2, <2>3, <3>1, ChainedAppend
  <2> QED
    BY <2>1, <2>4 DEF floor, q, N
<1>4. CASE ~(k <= l)
  <2>1. PICK i \in 1 .. Len(M) : k = l + i
    BY <1>2, <1>4
  <2>2. N[k] = M[i] /\ N[k].conn = d /\ N[k].cmd.new = y
    BY <1>1, <2>1 DEF Sends
  <2>3. ASSUME NEW j \in 1 .. Len(N), k < j
        PROVE  ~IsRdata(N[j])
    <3> ~(j <= l)
        BY <1>1, <1>4, <2>3
    <3>1. PICK h \in 1 .. Len(M) : j = l + h
        BY <1>2
    <3>2. i < h /\ N[j] = M[h]
        BY <1>1, <2>1, <2>3, <3>1
    <3> QED
        BY <2>2, <3>2 DEF Sends, IsPosition, IsRdata
  <2>4. \A q \in S : q[2] <= y => q \in Upto(S, N[k].cmd.new)
    BY <2>2 DEF Upto
  <2> QED
    BY <2>2, <2>3, <2>4 DEF Chained
<1> QED
    BY <1>3, <1>4

\* The rest of what is said of a line.
LEMMA LineAppend ==
    ASSUME NEW L \in Seq(Entries), NEW M \in Seq(Entries), NEW S \in SUBSET RowType, NEW t,
           NEW x \in Nat, NEW y \in Nat, x <= y, NEW d, NEW n, NEW B \in SUBSET S, NEW C,
           GoodLine(L, S, t, x, n), GoodLine(M, S, t, y, n), Sends(M, S, x, y),
           Ordered(L), BatchBefore(L, B, C), \A q \in B : q[2] <= x
    PROVE  GoodLine(L \o M, S, t, y, n) /\ Ordered(L \o M) /\ BatchBefore(L \o M, B, C)
<1> DEFINE N == L \o M
           l == Len(L)
<1>1. /\ Len(N) = l + Len(M) /\ l \in Nat /\ Len(M) \in Nat
      /\ \A i \in 1 .. l : N[i] = L[i] /\ i \in 1 .. Len(N)
      /\ \A i \in 1 .. Len(M) : N[l + i] = M[i] /\ l + i \in 1 .. Len(N)
    BY ConcatProperties, LenProperties
<1>2. ASSUME NEW j \in 1 .. Len(N), ~(j <= l)
      PROVE  \E i \in 1 .. Len(M) : j = l + i /\ N[j] = M[i]
  <2>1. j - l \in 1 .. Len(M) /\ j = l + (j - l)
    BY <1>1, <1>2
  <2> QED
    BY <1>1, <2>1
<1>3. \A j \in 1 .. l : GoodEntry(L[j], S, t, x, n)
    BY DEF GoodLine
<1>4. \A j \in 1 .. Len(M) : GoodEntry(M[j], S, t, y, n)
    BY DEF GoodLine
<1> HIDE DEF N, l
<1>5. ASSUME NEW j \in 1 .. l, IsRdata(N[j])
      PROVE  N[j].cmd.row \in S /\ N[j].cmd.row[2] <= x /\ N[j].cmd.row[2] \in Nat
  <2>1. N[j] = L[j]
    BY <1>1
  <2>2. L[j].cmd.row \in S /\ L[j].cmd.row[2] <= x
    BY <1>3, <1>5, <2>1 DEF GoodEntry
  <2> QED
    BY <2>1, <2>2 DEF RowType
<1>6. ASSUME NEW i \in 1 .. Len(M), IsRdata(M[i])
      PROVE  M[i].cmd.row \in S /\ x < M[i].cmd.row[2] /\ M[i].cmd.row[2] \in Nat
  <2>1. M[i].cmd.row \in S
    BY <1>4, <1>6 DEF GoodEntry
  <2> QED
    BY <1>6, <2>1 DEF Sends, RowType
<1>7. GoodLine(N, S, t, y, n)
  <2> SUFFICES ASSUME NEW j \in 1 .. Len(N)
               PROVE  GoodEntry(N[j], S, t, y, n)
    BY DEF GoodLine
  <2>1. CASE j <= l
    <3>1. j \in 1 .. l /\ N[j] = L[j] /\ GoodEntry(N[j], S, t, x, n)
        BY <1>1, <1>3, <2>1
    <3>2. IsRdata(N[j]) => N[j].cmd.row[2] <= y
        BY <1>5, <3>1, SMTT(30)
    <3> QED
        BY <3>1, <3>2 DEF GoodEntry
  <2>2. CASE ~(j <= l)
    BY <1>2, <1>4, <2>2
  <2> QED
    BY <2>1, <2>2
<1>8. Ordered(N)
  <2> SUFFICES ASSUME NEW i \in 1 .. Len(N), NEW j \in 1 .. Len(N), i < j, N[i].conn = N[j].conn,
                      IsRdata(N[i]), IsRdata(N[j])
               PROVE  N[i].cmd.row[2] <= N[j].cmd.row[2]
    BY DEF Ordered
  <2>1. CASE j <= l
    <3>1. i \in 1 .. l /\ j \in 1 .. l /\ N[i] = L[i] /\ N[j] = L[j]
        BY <1>1, <2>1
    <3> QED
        BY <3>1 DEF Ordered, l
  <2>2. CASE ~(j <= l) /\ i <= l
    <3>1. PICK h \in 1 .. Len(M) : N[j] = M[h]
        BY <1>2, <2>2
    <3>2. i \in 1 .. l
        BY <1>1, <2>2
    <3> DEFINE a == N[i].cmd.row[2]
               b == N[j].cmd.row[2]
    <3>3. a <= x /\ x < b /\ a \in Nat /\ b \in Nat
        BY <1>5, <1>6, <3>1, <3>2
    <3> HIDE DEF a, b
    <3>4. a <= b
        BY <3>3
    <3> QED
        BY <3>4 DEF a, b
  <2>3. CASE ~(j <= l) /\ ~(i <= l)
    <3>1. PICK h \in 1 .. Len(M) : j = l + h /\ N[j] = M[h]
        BY <1>2, <2>3
    <3>2. PICK g \in 1 .. Len(M) : i = l + g /\ N[i] = M[g]
        BY <1>2, <2>3
    <3>3. g < h
        BY <1>1, <3>1, <3>2
    <3> QED
        BY <3>1, <3>2, <3>3 DEF Sends
  <2> QED
    BY <2>1, <2>2, <2>3
<1>9. BatchBefore(N, B, C)
  <2> SUFFICES ASSUME NEW j \in 1 .. Len(N), NEW q \in B, IsRdata(N[j]), N[j].conn \in C
               PROVE  q[2] <= N[j].cmd.row[2]
    BY DEF BatchBefore
  <2>1. CASE j <= l
    <3>1. j \in 1 .. l /\ N[j] = L[j]
        BY <1>1, <2>1
    <3> QED
        BY <3>1 DEF BatchBefore, l
  <2>2. CASE ~(j <= l)
    <3>1. PICK h \in 1 .. Len(M) : N[j] = M[h]
        BY <1>2, <2>2
    <3>2. q[2] <= x /\ q[2] \in Nat
        BY DEF RowType
    <3>3. x < N[j].cmd.row[2] /\ N[j].cmd.row[2] \in Nat
        BY <1>6, <3>1
    <3> QED
        BY <3>2, <3>3
  <2> QED
    BY <2>1, <2>2
<1> QED
    BY <1>7, <1>8, <1>9 DEF N

-----------------------------------------------------------------------------
(***************************************************************************)
(* One writer: the invariant                                               *)
(***************************************************************************)

\* The writer is the only one, and keeps its connection.
Alone(w) == Writers = {w} /\ MaxWriterBreaks = 0

WriterSide(w) ==
    /\ seq \in Nat \ {0}
    /\ IsFiniteSet(rows)
    /\ \A r \in rows : r \in RowType /\ r[1] = w /\ 1 < r[2] /\ r[2] <= seq
    /\ tok \in [Writers -> Nat] /\ tok[w] = seq
    /\ minTok \in [Writers -> Nat] /\ minTok[w] = seq
    /\ last \in [Writers -> Nat] /\ last[w] <= seq
    /\ fetch \in [Writers -> Nat \X Nat]
    /\ DOMAIN looping = Writers
    /\ looping[w] => fetch[w][1] = last[w] /\ last[w] <= fetch[w][2] /\ fetch[w][2] <= seq
    /\ up[w]
    /\ breaks \in [1 .. 2 -> Nat] /\ breaks[2] = 0

\* The reader has handled the rows up to its position, and no others.
ReaderSide(w) ==
    /\ conns \in Nat /\ conn \in Nat /\ conn <= conns
    /\ chan \in Seq(Commands)
    /\ conn = 0 => chan = <<>>
    /\ queue \in Seq(Entries)
    /\ connected \subseteq 1 .. conns
    /\ \A c, d \in connected : c = d
    /\ batch \subseteq rows
    /\ \A q \in batch : q[2] <= last[w]
    /\ upto \in Nat /\ upto <= seq
    /\ positions \in [Writers -> Nat] /\ positions[w] = upto
    /\ known = {}
    /\ applied = Upto(rows, upto)

\* Rows that the reader has, or will have when it has handled the POSITION.
Held == Upto(rows, upto) \union batch \union
        IF proc = Idle THEN {} ELSE Upto(rows, proc.cmd.new)

\* The reader takes the commands of connection c, or will.
Counts(c) == c \in connected \/ (proc # Idle /\ c = proc.conn)

\* What the writer has sent on connection c.
Reach(w, c) == IF c = conn THEN last[w] ELSE 0

LineInv(w) ==
    /\ GoodLine(Line, rows, seq, last[w], conns)
    /\ Ordered(Line)
    /\ BatchBefore(Line, batch, connected)
    /\ Starts(Line, rows, upto, last[w], conn)
    /\ \A c \in 1 .. conns : Counts(c) => Chained(Line, 0, c, Held, rows, Reach(w, c))

Procs ==
    [stage : {"fetch", "apply", "caught_up", "connect"}, cmd : Commands, conn : Nat, from : Nat,
     todo : SUBSET RowType]

\* The POSITION that is being handled: rows up to from are there or to be done.
Handling ==
    proc # Idle =>
        /\ proc \in Procs
        /\ proc.cmd.type = "POSITION" /\ proc.cmd.new <= seq
        /\ 0 < proc.conn /\ proc.conn <= conns
        /\ proc.from <= seq
        /\ connected = {} /\ batch = {}
        /\ proc.stage = "fetch" => Upto(rows, proc.from) \subseteq Upto(rows, upto)
        /\ proc.stage = "apply" =>
              /\ proc.todo \subseteq Upto(rows, proc.from)
              /\ Upto(rows, proc.from) \subseteq Upto(rows, upto) \union proc.todo
        /\ proc.stage = "caught_up" => Upto(rows, proc.cmd.new) \subseteq Upto(rows, upto)
        /\ proc.stage = "connect" => proc.cmd.new <= upto

ReplicationInv(w) == WriterSide(w) /\ ReaderSide(w) /\ LineInv(w) /\ Handling

LEMMA LineProp ==
    ASSUME NEW w, ReaderSide(w)
    PROVE  /\ Line \in Seq(Entries) /\ Len(queue) \in Nat /\ Len(chan) \in Nat
           /\ Len(Line) = Len(queue) + Len(chan) /\ Len(Line) \in Nat
           /\ \A i \in 1 .. Len(queue) : i \in 1 .. Len(Line) /\ Line[i] = queue[i]
           /\ \A i \in 1 .. Len(Line) : Line[i] \in Entries
<1>1. queue \in Seq(Entries) /\ chan \in Seq(Commands) /\ conn \in Nat
    BY DEF ReaderSide
<1>2. Tagged(chan, conn) \in Seq(Entries) /\ Len(Tagged(chan, conn)) = Len(chan) /\ Len(chan) \in Nat
    BY <1>1, TaggedProp
<1>3. Len(queue) \in Nat
    BY <1>1, LenProperties
<1>4. /\ Line \in Seq(Entries) /\ Len(Line) = Len(queue) + Len(chan)
      /\ \A i \in 1 .. Len(queue) + Len(chan) : Line[i] =
             IF i <= Len(queue) THEN queue[i] ELSE Tagged(chan, conn)[i - Len(queue)]
  <2> DEFINE T == Tagged(chan, conn)
  <2> HIDE DEF T
  <2>1. /\ queue \o T \in Seq(Entries) /\ Len(queue \o T) = Len(queue) + Len(T)
        /\ \A i \in 1 .. Len(queue) + Len(T) : (queue \o T)[i] =
               IF i <= Len(queue) THEN queue[i] ELSE T[i - Len(queue)]
    BY <1>1, <1>2, ConcatProperties DEF T
  <2> QED
    BY <1>2, <2>1 DEF T, Line
<1>5. \A i \in 1 .. Len(Line) : Line[i] \in Entries
    BY <1>4, ElementOfSeq
<1> QED
    BY <1>2, <1>3, <1>4, <1>5

LEMMA EntriesConcat ==
    ASSUME NEW r \in Seq(Entries), NEW s \in Seq(Entries), NEW t \in Seq(Entries)
    PROVE  r \o (s \o t) = (r \o s) \o t
<1> QED
    BY ConcatAssociative, SMTT(30)

LEMMA TaggedConcat ==
    ASSUME NEW s \in Seq(Commands), NEW t \in Seq(Commands), NEW c \in Nat
    PROVE  Tagged(s \o t, c) = Tagged(s, c) \o Tagged(t, c)
<1> DEFINE u == s \o t
<1>1. /\ u \in Seq(Commands) /\ Len(u) = Len(s) + Len(t)
      /\ \A i \in 1 .. Len(s) + Len(t) : u[i] = IF i <= Len(s) THEN s[i] ELSE t[i - Len(s)]
    BY ConcatProperties
<1>2. /\ Tagged(s, c) \in Seq(Entries) /\ Len(Tagged(s, c)) = Len(s) /\ Len(s) \in Nat
      /\ \A j \in 1 .. Len(s) : Tagged(s, c)[j] = [cmd |-> s[j], conn |-> c]
    BY TaggedProp
<1>3. /\ Tagged(t, c) \in Seq(Entries) /\ Len(Tagged(t, c)) = Len(t) /\ Len(t) \in Nat
      /\ \A j \in 1 .. Len(t) : Tagged(t, c)[j] = [cmd |-> t[j], conn |-> c]
    BY TaggedProp
<1> HIDE DEF u
<1>4. /\ Tagged(u, c) \in Seq(Entries) /\ Len(Tagged(u, c)) = Len(u)
      /\ \A j \in 1 .. Len(u) : Tagged(u, c)[j] = [cmd |-> u[j], conn |-> c]
    BY <1>1, TaggedProp
<1>5. /\ Tagged(s, c) \o Tagged(t, c) \in Seq(Entries)
      /\ Len(Tagged(s, c) \o Tagged(t, c)) = Len(u)
      /\ \A i \in 1 .. Len(u) : (Tagged(s, c) \o Tagged(t, c))[i] =
            IF i <= Len(s) THEN Tagged(s, c)[i] ELSE Tagged(t, c)[i - Len(s)]
    BY <1>1, <1>2, <1>3, ConcatProperties
<1>6. ASSUME NEW i \in 1 .. Len(u)
      PROVE  Tagged(u, c)[i] = (Tagged(s, c) \o Tagged(t, c))[i]
  <2>1. CASE i <= Len(s)
    <3>1. i \in 1 .. Len(s) /\ i \in 1 .. Len(s) + Len(t)
        BY <1>1, <1>2, <1>3, <2>1
    <3>2. u[i] = s[i]
        BY <1>1, <2>1, <3>1
    <3> QED
        BY <1>2, <1>4, <1>5, <2>1, <3>1, <3>2
  <2>2. CASE ~(i <= Len(s))
    <3>1. i - Len(s) \in 1 .. Len(t)
        BY <1>1, <1>2, <1>3, <2>2
    <3> QED
        BY <1>1, <1>3, <1>4, <1>5, <2>2, <3>1
  <2> QED
    BY <2>1, <2>2
<1> QED
    BY <1>4, <1>5, <1>6, SeqEqual, ZenonT(60) DEF u

\* With one writer the reader's generator simply moves up: there is no other
\* position to wait for, and no gap to remember.
LEMMA OnRdataProp ==
    ASSUME NEW w, Alone(w), ReaderSide(w), NEW v \in Nat, NEW new, OnRdata(w, v, new)
    PROVE  /\ upto' = MaxOf2(v, upto) /\ upto' \in Nat /\ upto <= upto' /\ v <= upto'
           /\ positions' \in [Writers -> Nat] /\ positions'[w] = upto'
           /\ known' = {}
           /\ applied' = applied \union new
<1> DEFINE map == [positions EXCEPT ![w] = MaxOf2(v, positions[w])]
           top == MaxOf2(v, upto)
<1>1. /\ upto \in Nat /\ positions \in [Writers -> Nat] /\ positions[w] = upto /\ known = {}
      /\ w \in Writers /\ Reader # w
    BY ReplicationAssumption DEF ReaderSide, Alone
<1>2. top \in Nat /\ upto <= top /\ v <= top
    BY <1>1 DEF MaxOf2
<1>3. map \in [Writers -> Nat] /\ map[w] = top /\ DOMAIN map = {w}
    BY <1>1, <1>2 DEF Alone
<1>4. Gen!MinCurr(Reader, map, FALSE) = top
  <2> DEFINE others == {map[x] : x \in DOMAIN map \ {Reader}}
  <2> HIDE DEF map, top
  <2>1. others = {top}
    BY <1>1, <1>3
  <2>2. Gen!Min(others) = top
    BY <1>2, <2>1 DEF Gen!Min
  <2>3. others # {}
    BY <2>1
  <2> QED
    BY <2>2, <2>3 DEF Gen!MinCurr
<1>5. Gen!MaxOf2(top, upto) = top
  <2> HIDE DEF top
  <2> QED
    BY <1>1, <1>2 DEF Gen!MaxOf2
<1> HIDE DEF map, top
<1>6. Gen!SkipForward(top, {v}) = top
  <2>1. {m \in {v} : m > top /\ \A k \in top + 1 .. m : k \in {v}} = {}
    BY <1>2
  <2> QED
    BY <2>1 DEF Gen!SkipForward
<1>7. Gen!AddPersistedUpto(Reader, map, FALSE, upto, known, {v}) = top
    BY <1>1, <1>4, <1>5, <1>6 DEF Gen!AddPersistedUpto
<1>8. Gen!AddPersistedKnown(Reader, map, FALSE, upto, known, {v}) = {}
  <2>1. {k \in {v} : k > top} = {}
    BY <1>2
  <2>2. known \union {v} = {v}
    BY <1>1
  <2> QED
    BY <1>7, <2>1, <2>2 DEF Gen!AddPersistedKnown
<1>9. positions' = map /\ upto' = top /\ known' = {} /\ applied' = applied \union new
    BY <1>7, <1>8 DEF OnRdata, map
<1> QED
    BY <1>2, <1>3, <1>9 DEF top

LEMMA WriterFrame ==
    ASSUME NEW w, WriterSide(w),
           UNCHANGED <<seq, rows, tok, minTok, last, fetch, looping, up, breaks>>
    PROVE  WriterSide(w)'
BY DEF WriterSide

\* Steps that change nothing of the line and of the reader.
LEMMA ReaderFrame ==
    ASSUME NEW w, ReaderSide(w), LineInv(w), Handling,
           UNCHANGED <<seq, rows, last, conn, conns, readerVars, chan>>
    PROVE  ReaderSide(w)' /\ LineInv(w)' /\ Handling'
<1>1. UNCHANGED <<queue, connected, batch, proc, positions, upto, known, applied>>
    BY DEF readerVars
<1>2. ReaderSide(w)' /\ Handling'
    BY <1>1 DEF ReaderSide, Handling
<1>3. UNCHANGED <<Line, Held>> /\ \A c : Counts(c)' = Counts(c) /\ Reach(w, c)' = Reach(w, c)
    BY <1>1 DEF Line, Held, Counts, Reach
<1>4. LineInv(w)'
    BY <1>1, <1>3 DEF LineInv
<1> QED
    BY <1>2, <1>4

-----------------------------------------------------------------------------
(***************************************************************************)
(* One writer: the steps of the writer                                     *)
(***************************************************************************)

\* The streamer sends what is new, up to y.
LEMMA SendStep ==
    ASSUME NEW w, Alone(w), ReplicationInv(w),
           NEW cmds \in Seq(Commands), NEW y \in Nat, last[w] <= y, y <= seq,
           conn # 0 => GoodLine(Tagged(cmds, conn), rows, seq, y, conns),
           Sends(Tagged(cmds, conn), rows, last[w], y),
           chan' = IF conn # 0 THEN chan \o cmds ELSE chan,
           last' = [last EXCEPT ![w] = y],
           fetch' \in [Writers -> Nat \X Nat],
           DOMAIN looping' = Writers,
           looping'[w] => fetch'[w][1] = y /\ y <= fetch'[w][2] /\ fetch'[w][2] <= seq,
           UNCHANGED <<writerVars, linkVars, readerVars>>
    PROVE  ReplicationInv(w)'
<1> DEFINE M == Tagged(cmds, conn)
<1>1. WriterSide(w) /\ ReaderSide(w) /\ LineInv(w) /\ Handling
    BY DEF ReplicationInv
<1>2. /\ UNCHANGED <<seq, rows, tok, minTok, up, greet, conn, conns, breaks>>
      /\ UNCHANGED <<queue, connected, batch, proc, positions, upto, known, applied>>
    BY DEF writerVars, linkVars, readerVars
<1>3. /\ w \in Writers /\ last'[w] = y /\ last' \in [Writers -> Nat] /\ last[w] \in Nat
      /\ rows \in SUBSET RowType /\ batch \in SUBSET rows
      /\ \A q \in rows : q[2] \in Nat /\ 1 < q[2]
      /\ \A q \in batch : q[2] <= last[w]
    BY <1>1 DEF Alone, WriterSide, ReaderSide, RowType
<1>4. WriterSide(w)'
    BY <1>1, <1>2, <1>3 DEF WriterSide
<1>5. Handling'
    BY <1>1, <1>2 DEF Handling
<1>6. /\ conn \in Nat /\ conns \in Nat /\ chan \in Seq(Commands) /\ queue \in Seq(Entries)
      /\ conn = 0 => chan = <<>>
    BY <1>1 DEF ReaderSide
<1>7. M \in Seq(Entries) /\ Len(M) = Len(cmds) /\ \A j \in 1 .. Len(M) : M[j].conn = conn
  <2>1. M \in Seq(Entries) /\ Len(M) = Len(cmds) /\ \A j \in 1 .. Len(cmds) : M[j].conn = conn
    <3>1. cmds \in Seq(Commands) /\ conn \in Nat
        BY <1>6
    <3> QED
        BY <3>1, TaggedProp, ZenonT(60)
  <2> HIDE DEF M
  <2> QED
    BY <2>1
<1>8. ReaderSide(w)'
  <2>1. chan' \in Seq(Commands)
    <3>1. chan \o cmds \in Seq(Commands)
        BY <1>6, ConcatProperties
    <3> QED
        BY <1>6, <3>1
  <2>2. conn = 0 => chan' = <<>>
    BY <1>6
  <2>3. \A q \in batch : q[2] <= y
    BY <1>3
  <2> QED
    BY <1>1, <1>2, <1>3, <2>1, <2>2, <2>3 DEF ReaderSide
<1>9. Held' = Held /\ \A c : Counts(c)' = Counts(c)
    BY <1>2 DEF Held, Counts
<1>10. Line \in Seq(Entries) /\ Len(Line) \in Nat
    BY <1>1, LineProp
<1>11. /\ GoodLine(Line, rows, seq, last[w], conns) /\ Ordered(Line)
       /\ BatchBefore(Line, batch, connected)
       /\ Starts(Line, rows, upto, last[w], conn)
       /\ \A c \in 1 .. conns : Counts(c) => Chained(Line, 0, c, Held, rows, Reach(w, c))
    BY <1>1 DEF LineInv
<1>12. CASE conn # 0
  <2>1. Line' = Line \o M
    <3>1. Tagged(chan \o cmds, conn) = Tagged(chan, conn) \o M
        BY <1>6, TaggedConcat
    <3>2. Tagged(chan, conn) \in Seq(Entries)
        BY <1>6, TaggedProp
    <3>3. queue \o (Tagged(chan, conn) \o M) = (queue \o Tagged(chan, conn)) \o M
      <4> DEFINE T == Tagged(chan, conn)
      <4> HIDE DEF T, M
      <4>1. T \in Seq(Entries)
        BY <3>2 DEF T
      <4>2. queue \o (T \o M) = (queue \o T) \o M
        BY <1>6, <1>7, <4>1, EntriesConcat
      <4> QED
        BY <4>2 DEF T
    <3>4. Line' = queue \o Tagged(chan \o cmds, conn)
        BY <1>2, <1>12 DEF Line
    <3> QED
        BY <3>1, <3>3, <3>4 DEF Line
  <2> HIDE DEF M
  <2>2. GoodLine(M, rows, seq, y, conns) /\ Sends(M, rows, last[w], y)
    BY <1>12 DEF M
  <2>3. /\ GoodLine(Line \o M, rows, seq, y, conns) /\ Ordered(Line \o M)
        /\ BatchBefore(Line \o M, batch, connected)
    BY <1>3, <1>7, <1>10, <1>11, <2>2, LineAppend
  <2>4. Starts(Line \o M, rows, upto, y, conn)
    BY <1>3, <1>7, <1>10, <1>11, <2>2, StartsAppend
  <2>5. ASSUME NEW c \in 1 .. conns, Counts(c)
        PROVE  Chained(Line \o M, 0, c, Held, rows, Reach(w, c)')
    <3> DEFINE p == Reach(w, c)
               r == IF c = conn THEN y ELSE 0
    <3>1. Reach(w, c)' = r
        BY <1>2, <1>3 DEF Reach
    <3>2. (c # conn => r = p) /\ (c = conn => p = last[w] /\ r = y)
        BY DEF Reach
    <3>3. Chained(Line, 0, c, Held, rows, p)
        BY <1>11, <2>5
    <3> HIDE DEF p, r
    <3>4. c = conn =>
             /\ \A j \in 1 .. Len(M) : \A q \in rows :
                   IsRdata(M[j]) /\ Before(q, M[j].cmd.row) =>
                       q[2] <= p \/ \E m \in 1 .. Len(M) : m < j /\ Brings(M[m], q)
             /\ \A q \in rows : q[2] <= r => q[2] <= p \/ \E m \in 1 .. Len(M) : Brings(M[m], q)
        BY <2>2, <3>2 DEF Sends
    <3>5. 0 \in 0 .. Len(Line)
        BY <1>10
    <3>6. Chained(Line \o M, 0, c, Held, rows, r)
        BY <1>7, <1>10, <3>2, <3>3, <3>4, <3>5, ChainedAppend
    <3> QED
        BY <3>1, <3>6
  <2>6. LineInv(w)'
    BY <1>2, <1>3, <1>9, <2>1, <2>3, <2>4, <2>5 DEF LineInv
  <2> QED
    BY <1>4, <1>5, <1>8, <2>6 DEF ReplicationInv
<1>13. CASE conn = 0
  <2>1. Line' = Line
    BY <1>2, <1>13 DEF Line
  <2>2. GoodLine(Line, rows, seq, y, conns)
    <3> SUFFICES ASSUME NEW j \in 1 .. Len(Line)
                 PROVE  GoodEntry(Line[j], rows, seq, y, conns)
        BY DEF GoodLine
    <3>1. GoodEntry(Line[j], rows, seq, last[w], conns)
        BY <1>11 DEF GoodLine
    <3>2. IsRdata(Line[j]) => Line[j].cmd.row[2] <= y
      <4> SUFFICES ASSUME IsRdata(Line[j]) PROVE Line[j].cmd.row[2] <= y
        OBVIOUS
      <4> DEFINE z == Line[j].cmd.row[2]
      <4>1. z <= last[w] /\ z \in Nat
        BY <1>3, <3>1 DEF GoodEntry
      <4> HIDE DEF z
      <4>2. z <= y
        BY <1>3, <4>1
      <4> QED
        BY <4>2 DEF z
    <3> QED
        BY <3>1, <3>2 DEF GoodEntry
  <2>3. Starts(Line, rows, upto, y, conn)
    <3>1. \A i \in 1 .. Len(Line) : Line[i].conn # conn
        BY <1>11, <1>13 DEF GoodLine, GoodEntry
    <3>2. \A q \in rows : q[2] \in Nat /\ 0 < q[2]
        BY <1>3
    <3>3. Len(Line) <= Len(Line) /\ \A i \in 1 .. Len(Line) : Line[i] = Line[i]
        BY <1>10
    <3>4. Starts(Line, rows, upto, last[w], conn)
        BY <1>11
    <3> QED
        BY <1>10, <3>1, <3>2, <3>3, <3>4, StartsCut
  <2>4. \A c \in 1 .. conns : Reach(w, c)' = Reach(w, c)
    BY <1>2, <1>13 DEF Reach
  <2>5. LineInv(w)'
    BY <1>2, <1>3, <1>9, <1>11, <2>1, <2>2, <2>3, <2>4 DEF LineInv
  <2> QED
    BY <1>4, <1>5, <1>8, <2>5 DEF ReplicationInv
<1> QED
    BY <1>12, <1>13

\* POSITIONs may follow.
LEMMA SendsMore ==
    ASSUME NEW M \in Seq(Entries), NEW K \in Seq(Entries), NEW S, NEW x, NEW y,
           \A j \in 1 .. Len(K) : IsPosition(K[j]) /\ K[j].cmd.new = y,
           Sends(M, S, x, y)
    PROVE  Sends(M \o K, S, x, y)
<1> DEFINE N == M \o K
           l == Len(M)
<1>1. /\ Len(N) = l + Len(K) /\ l \in Nat /\ Len(K) \in Nat
      /\ \A i \in 1 .. l : N[i] = M[i] /\ i \in 1 .. Len(N)
      /\ \A i \in 1 .. Len(K) : N[l + i] = K[i] /\ l + i \in 1 .. Len(N)
    BY ConcatProperties, LenProperties
<1>2. ASSUME NEW j \in 1 .. Len(N), ~(j <= l)
      PROVE  IsPosition(N[j]) /\ N[j].cmd.new = y /\ ~IsRdata(N[j])
  <2>1. j - l \in 1 .. Len(K) /\ j = l + (j - l)
    BY <1>1, <1>2
  <2>2. N[j] = K[j - l]
    BY <1>1, <2>1
  <2> QED
    BY <2>1, <2>2 DEF IsPosition, IsRdata
<1>3. ASSUME NEW j \in 1 .. Len(N), j <= l
      PROVE  j \in 1 .. l /\ N[j] = M[j]
    BY <1>1, <1>3
<1>4. \A j \in 1 .. Len(N) : ~IsPosition(N[j]) \/ ~IsRdata(N[j])
    BY DEF IsPosition, IsRdata
<1> HIDE DEF N
<1>5. \A j \in 1 .. Len(N) : IsPosition(N[j]) => N[j].cmd.new = y
    BY <1>2, <1>3 DEF Sends, l
<1>6. \A j \in 1 .. Len(N) : IsRdata(N[j]) => x < N[j].cmd.row[2]
    BY <1>2, <1>3 DEF Sends, l
<1>7. ASSUME NEW i \in 1 .. Len(N), NEW j \in 1 .. Len(N), i < j, IsPosition(N[i])
      PROVE  IsPosition(N[j])
  <2>1. CASE j <= l
    <3>1. i <= l
        BY <1>1, <1>7, <2>1
    <3> QED
        BY <1>3, <1>7, <2>1, <3>1 DEF Sends, l
  <2> QED
    BY <1>2, <2>1
<1>8. ASSUME NEW i \in 1 .. Len(N), NEW j \in 1 .. Len(N), i < j, IsRdata(N[i]), IsRdata(N[j])
      PROVE  N[i].cmd.row[2] <= N[j].cmd.row[2]
  <2>1. i <= l /\ j <= l
    BY <1>2, <1>8
  <2> QED
    BY <1>3, <1>8, <2>1 DEF Sends, l
<1>9. ASSUME NEW j \in 1 .. Len(N), NEW q \in S, IsRdata(N[j]), Before(q, N[j].cmd.row)
      PROVE  q[2] <= x \/ \E m \in 1 .. Len(N) : m < j /\ Brings(N[m], q)
  <2>1. j <= l
    BY <1>2, <1>9
  <2>2. j \in 1 .. l /\ N[j] = M[j]
    BY <1>3, <2>1
  <2>3. q[2] <= x \/ \E m \in 1 .. l : m < j /\ Brings(M[m], q)
    BY <1>9, <2>2 DEF Sends, l
  <2> QED
    BY <1>1, <2>3
<1>10. ASSUME NEW q \in S, q[2] <= y
       PROVE  q[2] <= x \/ \E m \in 1 .. Len(N) : Brings(N[m], q)
  <2>1. q[2] <= x \/ \E m \in 1 .. l : Brings(M[m], q)
    BY <1>10 DEF Sends, l
  <2> QED
    BY <1>1, <2>1
<1>11. Sends(N, S, x, y)
    BY <1>5, <1>6, <1>7, <1>8, <1>9, <1>10 DEF Sends
<1> QED
    BY <1>11 DEF N

LEMMA GoodMore ==
    ASSUME NEW M \in Seq(Entries), NEW K \in Seq(Entries), NEW S, NEW t, NEW x, NEW n,
           GoodLine(M, S, t, x, n), GoodLine(K, S, t, x, n)
    PROVE  GoodLine(M \o K, S, t, x, n)
<1> DEFINE N == M \o K
           l == Len(M)
<1>1. /\ Len(N) = l + Len(K) /\ l \in Nat /\ Len(K) \in Nat
      /\ \A i \in 1 .. l : N[i] = M[i] /\ i \in 1 .. Len(N)
      /\ \A i \in 1 .. Len(K) : N[l + i] = K[i] /\ l + i \in 1 .. Len(N)
    BY ConcatProperties, LenProperties
<1> SUFFICES ASSUME NEW j \in 1 .. Len(N)
             PROVE  GoodEntry(N[j], S, t, x, n)
    BY DEF GoodLine
<1> HIDE DEF N
<1>2. CASE j <= l
  <2>1. j \in 1 .. l /\ N[j] = M[j]
    BY <1>1, <1>2
  <2> QED
    BY <2>1 DEF GoodLine, l
<1>3. CASE ~(j <= l)
  <2>1. j - l \in 1 .. Len(K) /\ j = l + (j - l)
    BY <1>1, <1>3
  <2>2. N[j] = K[j - l]
    BY <1>1, <2>1
  <2> QED
    BY <2>1, <2>2 DEF GoodLine
<1> QED
    BY <1>2, <1>3

\* A round of the loop adds at most the announcement of the position: with one
\* writer there is nothing to step over.
LEMMA RoundAlone ==
    ASSUME NEW w, Alone(w), ReplicationInv(w),
           NEW sent \in Seq(Commands), NEW y \in Nat, last[w] <= y, y <= seq,
           conn # 0 => GoodLine(Tagged(sent, conn), rows, seq, y, conns),
           Sends(Tagged(sent, conn), rows, last[w], y),
           Round(w, sent, y), UNCHANGED <<writerVars, linkVars, readerVars>>
    PROVE  ReplicationInv(w)'
<1> DEFINE hello == IF announce[w] THEN <<Position(w, y, y)>> ELSE <<>>
           wrote == y < minTok[w]
           skip  == IF y # tok[w] /\ ~wrote THEN <<Position(w, y, tok[w])>> ELSE <<>>
           cmds  == sent \o hello
           K     == Tagged(hello, conn)
<1>1. /\ seq \in Nat /\ tok[w] = seq /\ minTok[w] = seq /\ up[w] /\ w \in Writers
      /\ last \in [Writers -> Nat] /\ fetch \in [Writers -> Nat \X Nat] /\ DOMAIN looping = Writers
      /\ \A r \in rows : r \in RowType
      /\ conn \in Nat /\ conns \in Nat /\ conn <= conns
    BY DEF Alone, ReplicationInv, WriterSide, ReaderSide
<1>2. skip = <<>>
    BY <1>1
<1>3. Position(w, y, y) \in Commands /\ Position(w, y, y).type = "POSITION"
      /\ Position(w, y, y).new = y /\ Position(w, y, y).prev = y
    BY <1>1 DEF Position, Commands
<1>4. hello \in Seq(Commands) /\ \A j \in 1 .. Len(hello) : hello[j] = Position(w, y, y)
  <2>1. CASE announce[w]
    BY <1>3, <2>1
  <2>2. CASE ~announce[w]
    BY <2>2
  <2> QED
    BY <2>1, <2>2
<1> HIDE DEF hello
<1>5. /\ K \in Seq(Entries) /\ Len(K) = Len(hello)
      /\ \A j \in 1 .. Len(hello) : K[j].cmd = hello[j] /\ K[j].conn = conn
  <2>1. hello \in Seq(Commands) /\ conn \in Nat
    BY <1>1, <1>4
  <2> QED
    BY <2>1, TaggedProp, ZenonT(60)
<1> HIDE DEF K
<1>6. \A j \in 1 .. Len(K) : /\ IsPosition(K[j]) /\ K[j].cmd.new = y /\ K[j].cmd.prev = y
                             /\ ~IsRdata(K[j]) /\ K[j].conn = conn
    BY <1>3, <1>4, <1>5 DEF IsPosition, IsRdata
<1>7. cmds \in Seq(Commands) /\ Tagged(cmds, conn) = Tagged(sent, conn) \o K
  <2>1. cmds \in Seq(Commands)
    BY <1>4, ConcatProperties
  <2> QED
    BY <1>1, <1>4, <2>1, TaggedConcat, ZenonT(60) DEF K
<1>8. Tagged(sent, conn) \in Seq(Entries)
    BY <1>1, TaggedProp
<1>9. Sends(Tagged(cmds, conn), rows, last[w], y)
  <2> DEFINE M == Tagged(sent, conn)
  <2>1. M \in Seq(Entries) /\ Sends(M, rows, last[w], y)
    BY <1>8
  <2> HIDE DEF M
  <2>2. Sends(M \o K, rows, last[w], y)
    BY <1>5, <1>6, <2>1, SendsMore
  <2> QED
    BY <1>7, <2>2 DEF M
<1>10. conn # 0 => GoodLine(Tagged(cmds, conn), rows, seq, y, conns)
  <2> SUFFICES ASSUME conn # 0
               PROVE  GoodLine(Tagged(sent, conn) \o K, rows, seq, y, conns)
    BY <1>7
  <2>1. \A r \in rows : ~(y < r[2] /\ r[2] <= y)
    BY <1>1 DEF RowType
  <2>2. conn \in 1 .. conns
    BY <1>1
  <2>3. GoodLine(K, rows, seq, y, conns)
    BY <1>6, <2>1, <2>2 DEF GoodLine, GoodEntry
  <2> DEFINE M == Tagged(sent, conn)
  <2>4. M \in Seq(Entries) /\ GoodLine(M, rows, seq, y, conns)
    BY <1>8
  <2> HIDE DEF M
  <2>5. GoodLine(M \o K, rows, seq, y, conns)
    BY <1>5, <2>3, <2>4, GoodMore
  <2> QED
    BY <2>5 DEF M
<1>11. chan' = IF conn # 0 THEN chan \o cmds ELSE chan
  <2>1. Publish(w, cmds \o skip, IF skip # <<>> THEN tok[w] ELSE y)
    BY DEF Round, hello
  <2>2. cmds \o skip = cmds
    <3> HIDE DEF skip, cmds
    <3> QED
        BY <1>2, <1>7, ConcatEmptySeq
  <2> QED
    BY <1>1, <2>1, <2>2 DEF Publish
<1>12. last' = [last EXCEPT ![w] = y]
  <2>1. last' = [last EXCEPT ![w] = IF wrote THEN y ELSE tok[w]]
    BY DEF Round
  <2>2. (IF wrote THEN y ELSE tok[w]) = y
    BY <1>1
  <2> QED
    BY <2>1, <2>2
<1>13. /\ fetch' \in [Writers -> Nat \X Nat]
       /\ wrote => fetch'[w] = <<y, seq>>
  <2>1. fetch' = [fetch EXCEPT ![w] = IF wrote THEN <<y, tok[w]>> ELSE <<0, 0>>]
    BY DEF Round
  <2>2. (IF wrote THEN <<y, tok[w]>> ELSE <<0, 0>>) \in Nat \X Nat
    BY <1>1
  <2> QED
    BY <1>1, <2>1, <2>2
<1>14. DOMAIN looping' = Writers /\ looping'[w] = wrote
    BY <1>1 DEF Round
<1>15. looping'[w] => fetch'[w][1] = y /\ y <= fetch'[w][2] /\ fetch'[w][2] <= seq
  <2> SUFFICES ASSUME wrote
               PROVE  fetch'[w][1] = y /\ y <= fetch'[w][2] /\ fetch'[w][2] <= seq
    BY <1>14, Zenon
  <2>1. fetch'[w][1] = y /\ fetch'[w][2] = seq
    BY <1>13
  <2> QED
    BY <1>1, <2>1
<1> HIDE DEF cmds, skip, wrote
<1> QED
    BY <1>7, <1>9, <1>10, <1>11, <1>12, <1>13, <1>14, <1>15, SendStep

LEMMA PokeAlone ==
    ASSUME NEW w, Alone(w), ReplicationInv(w), Poke(w)
    PROVE  ReplicationInv(w)'
<1>1. /\ up[w] /\ last \in [Writers -> Nat] /\ last[w] <= seq /\ seq \in Nat /\ w \in Writers
      /\ conn \in Nat /\ \A r \in rows : r \in RowType
    BY DEF Alone, ReplicationInv, WriterSide, ReaderSide
<1>2. UNCHANGED <<writerVars, linkVars, readerVars>>
    BY DEF Poke
<1>3. CASE UNCHANGED <<last, looping, fetch, chan>>
  <2>1. UNCHANGED <<seq, rows, tok, minTok, last, fetch, looping, up, breaks, conn, conns, chan>>
    BY <1>2, <1>3 DEF writerVars, linkVars
  <2> QED
    BY <1>2, <2>1, WriterFrame, ReaderFrame DEF ReplicationInv
<1>4. CASE Round(w, <<>>, last[w])
  <2> DEFINE M == Tagged(<<>>, conn)
             nothing == <<>>
  <2>1. nothing \in Seq(Commands) /\ Len(nothing) = 0
    OBVIOUS
  <2>2. Len(M) = 0
    BY <2>1, TaggedProp, <1>1
  <2>3. last[w] \in Nat /\ last[w] <= last[w] /\ \A q \in rows : q[2] \in Nat
    BY <1>1 DEF RowType
  <2> HIDE DEF M
  <2>4. Sends(M, rows, last[w], last[w])
    BY <2>2, <2>3 DEF Sends
  <2>5. GoodLine(M, rows, seq, last[w], conns)
    BY <2>2 DEF GoodLine
  <2> DEFINE y == last[w]
  <2>6. /\ Round(w, nothing, y) /\ y \in Nat /\ y <= seq /\ y <= y
        /\ Sends(Tagged(nothing, conn), rows, y, y)
        /\ GoodLine(Tagged(nothing, conn), rows, seq, y, conns)
    BY <1>1, <1>4, <2>3, <2>4, <2>5 DEF M
  <2> HIDE DEF nothing
  <2> QED
    BY <1>2, <2>1, <2>6, RoundAlone
<1> QED
    BY <1>1, <1>3, <1>4 DEF Poke

LEMMA BeforeProp ==
    ASSUME NEW r \in RowType, NEW s \in RowType
    PROVE  /\ r[2] \in Nat /\ s[2] \in Nat
           /\ Before(r, s) => r[2] <= s[2] /\ ~Before(s, r) /\ r # s
<1> DEFINE a == r[2]
           b == s[2]
           c == r[3]
           d == s[3]
<1>1. a \in Nat /\ b \in Nat /\ c \in Nat /\ d \in Nat
    BY DEF RowType
<1>2. (Before(r, s) <=> a < b \/ (a = b /\ c < d)) /\ (Before(s, r) <=> b < a \/ (b = a /\ d < c))
    BY DEF Before
<1>3. r = s => a = b /\ c = d
    OBVIOUS
<1> HIDE DEF a, b, c, d
<1>4. Before(r, s) => a <= b /\ ~Before(s, r) /\ r # s
    BY <1>1, <1>2, <1>3
<1> QED
    BY <1>1, <1>4 DEF a, b

\* A read sends the rows above the last token, and the POSITION after them.
LEMMA ReadSends ==
    ASSUME NEW w, Alone(w), ReplicationInv(w), NEW x \in Nat, NEW u \in Nat, x <= u, u <= seq
    PROVE  LET S    == RowsBetween(w, x, u)
               cmds == BatchUpdates(w, S) \o PositionAfter(w, x, u, S)
           IN  /\ cmds \in Seq(Commands)
               /\ conn # 0 => GoodLine(Tagged(cmds, conn), rows, seq, u, conns)
               /\ Sends(Tagged(cmds, conn), rows, x, u)
<1> DEFINE S == RowsBetween(w, x, u)
           B == BatchUpdates(w, S)
           P == PositionAfter(w, x, u, S)
           M == Tagged(B, conn)
           K == Tagged(P, conn)
<1>1. /\ w \in Writers /\ IsFiniteSet(rows) /\ seq \in Nat
      /\ conn \in Nat /\ conns \in Nat /\ conn <= conns
    BY DEF Alone, ReplicationInv, WriterSide, ReaderSide
<1>2. \A r \in rows : r \in RowType /\ r[1] = w /\ r[2] \in Nat /\ 0 < r[2]
    BY DEF ReplicationInv, WriterSide, RowType
<1>3. /\ S \in SUBSET RowType /\ IsFiniteSet(S) /\ S \subseteq rows
      /\ \A r \in S : r[1] = w /\ 0 < r[2]
    BY <1>1, <1>2, ReadRows
<1>4. \A r \in rows : r \in S <=> x < r[2] /\ r[2] <= u
    BY <1>2 DEF RowsBetween
<1>5. /\ P \in Seq(Commands)
      /\ \A j \in 1 .. Len(P) : /\ P[j].type = "POSITION" /\ P[j].w = w
                                /\ P[j].prev \in Nat /\ P[j].new = u
                                /\ RowsBetween(w, P[j].prev, u) = {}
    BY <1>1, <1>2, PositionAfterProp
<1> HIDE DEF S
<1>6. /\ B \in Seq(Commands)
      /\ \A j \in 1 .. Len(B) : /\ B[j].type = "RDATA" /\ B[j].w = w /\ B[j].row \in S
                                /\ B[j].token \in {0, B[j].row[2]}
      /\ \A i, j \in 1 .. Len(B) : i < j => Before(B[i].row, B[j].row)
      /\ \A r \in S : \E j \in 1 .. Len(B) : B[j].row = r
      /\ \A j \in 1 .. Len(B) : B[j].token # 0 =>
             \A r \in S : ~(Before(B[j].row, r) /\ r[2] = B[j].row[2])
    BY <1>1, <1>3, BatchProp
<1> HIDE DEF B, P
<1>7. /\ M \in Seq(Entries) /\ Len(M) = Len(B) /\ Len(B) \in Nat
      /\ \A j \in 1 .. Len(B) : M[j].cmd = B[j] /\ M[j].conn = conn
  <2>1. B \in Seq(Commands) /\ conn \in Nat
    BY <1>1, <1>6
  <2> QED
    BY <2>1, TaggedProp, ZenonT(60)
<1>8. /\ K \in Seq(Entries) /\ Len(K) = Len(P)
      /\ \A j \in 1 .. Len(P) : K[j].cmd = P[j] /\ K[j].conn = conn
  <2>1. P \in Seq(Commands) /\ conn \in Nat
    BY <1>1, <1>5
  <2> QED
    BY <2>1, TaggedProp, ZenonT(60)
<1>9. B \o P \in Seq(Commands) /\ Tagged(B \o P, conn) = M \o K
  <2>1. B \o P \in Seq(Commands)
    BY <1>5, <1>6, ConcatProperties
  <2> QED
    BY <1>1, <1>5, <1>6, <2>1, TaggedConcat
<1> HIDE DEF M, K
<1>10. \A j \in 1 .. Len(M) : /\ IsRdata(M[j]) /\ ~IsPosition(M[j]) /\ M[j].conn = conn
                              /\ M[j].cmd.row \in S /\ M[j].cmd.row \in rows
                              /\ M[j].cmd.row \in RowType
                              /\ M[j].cmd.token \in {0, M[j].cmd.row[2]}
    BY <1>3, <1>6, <1>7 DEF IsRdata, IsPosition
<1>11. \A i, j \in 1 .. Len(M) : i < j => Before(M[i].cmd.row, M[j].cmd.row)
    BY <1>6, <1>7
<1>12. \A r \in S : \E j \in 1 .. Len(M) : M[j].cmd.row = r
    BY <1>6, <1>7
<1>13. \A j \in 1 .. Len(K) : IsPosition(K[j]) /\ ~IsRdata(K[j]) /\ K[j].cmd.new = u
                              /\ K[j].conn = conn /\ RowsBetween(w, K[j].cmd.prev, u) = {}
    BY <1>5, <1>8, ZenonT(60) DEF IsPosition, IsRdata
<1>14. Sends(M, rows, x, u)
  <2>1. \A j \in 1 .. Len(M) : x < M[j].cmd.row[2]
    BY <1>4, <1>10
  <2>2. \A i, j \in 1 .. Len(M) : i < j => M[i].cmd.row[2] <= M[j].cmd.row[2]
    BY <1>10, <1>11, BeforeProp
  <2>3. ASSUME NEW j \in 1 .. Len(M), NEW q \in rows, Before(q, M[j].cmd.row), ~(q[2] <= x)
        PROVE  \E m \in 1 .. Len(M) : m < j /\ Brings(M[m], q)
    <3> DEFINE r == M[j].cmd.row
    <3>1. r \in RowType /\ q \in RowType /\ r[2] <= u
        BY <1>2, <1>4, <1>10
    <3> HIDE DEF r
    <3>2. q[2] <= r[2] /\ q[2] \in Nat /\ r[2] \in Nat /\ ~Before(r, q) /\ r # q
        BY <2>3, <3>1, BeforeProp DEF r
    <3>3. q \in S
        BY <1>4, <2>3, <3>1, <3>2
    <3>4. PICK m \in 1 .. Len(M) : M[m].cmd.row = q
        BY <1>12, <3>3
    <3>5. m # j /\ ~(j < m)
        BY <1>11, <3>2, <3>4 DEF r
    <3>6. Brings(M[m], q)
        BY <1>10, <3>4 DEF Brings
    <3> QED
        BY <1>7, <3>5, <3>6
  <2>4. ASSUME NEW q \in rows, q[2] <= u, ~(q[2] <= x)
        PROVE  \E m \in 1 .. Len(M) : Brings(M[m], q)
    <3>1. q \in S
        BY <1>2, <1>4, <2>4
    <3> QED
        BY <1>10, <1>12, <3>1 DEF Brings
  <2> QED
    BY <1>10, <2>1, <2>2, <2>3, <2>4 DEF Sends
<1>15. Sends(M \o K, rows, x, u)
    BY <1>7, <1>8, <1>13, <1>14, SendsMore
<1>16. ASSUME conn # 0
       PROVE  GoodLine(M \o K, rows, seq, u, conns)
  <2>1. conn \in 1 .. conns
    BY <1>1, <1>16
  <2>2. GoodLine(M, rows, seq, u, conns)
    <3> SUFFICES ASSUME NEW j \in 1 .. Len(M)
                 PROVE  GoodEntry(M[j], rows, seq, u, conns)
        BY DEF GoodLine
    <3>1. M[j].cmd.row[2] <= u
        BY <1>4, <1>10
    <3>2. ASSUME M[j].cmd.token # 0, NEW r \in rows, Before(M[j].cmd.row, r), r[2] = M[j].cmd.row[2]
          PROVE  FALSE
      <4>1. r \in S
        BY <1>4, <1>10, <3>2
      <4>2. j \in 1 .. Len(B) /\ M[j].cmd = B[j]
        BY <1>7
      <4>3. B[j].token # 0 /\ Before(B[j].row, r) /\ r[2] = B[j].row[2]
        BY <3>2, <4>2
      <4> QED
        BY <1>6, <4>1, <4>2, <4>3
    <3> QED
        BY <1>10, <2>1, <3>1, <3>2 DEF GoodEntry
  <2>3. GoodLine(K, rows, seq, u, conns)
    <3> SUFFICES ASSUME NEW j \in 1 .. Len(K)
                 PROVE  GoodEntry(K[j], rows, seq, u, conns)
        BY DEF GoodLine
    <3>1. \A r \in rows : ~(K[j].cmd.prev < r[2] /\ r[2] <= u)
        BY <1>2, <1>13 DEF RowsBetween
    <3> QED
        BY <1>13, <2>1, <3>1 DEF GoodEntry
  <2> QED
    BY <1>7, <1>8, <2>2, <2>3, GoodMore
<1> QED
    BY <1>9, <1>15, <1>16 DEF B, P, S

LEMMA GetUpdatesAlone ==
    ASSUME NEW w, Alone(w), ReplicationInv(w), NEW u, GetUpdates(w, u)
    PROVE  ReplicationInv(w)'
<1> DEFINE x == last[w]
           S == RowsBetween(w, x, u)
           cmds == BatchUpdates(w, S) \o PositionAfter(w, x, u, S)
<1>1. /\ seq \in Nat /\ up[w] /\ w \in Writers
      /\ last \in [Writers -> Nat] /\ fetch \in [Writers -> Nat \X Nat] /\ DOMAIN looping = Writers
      /\ \A r \in rows : r \in RowType
    BY DEF Alone, ReplicationInv, WriterSide, ReaderSide
<1>2. fetch[w][1] = x /\ x <= fetch[w][2] /\ fetch[w][2] <= seq /\ x \in Nat /\ fetch[w][2] \in Nat
  <2>1. looping[w]
    BY DEF GetUpdates
  <2> QED
    BY <1>1, <2>1 DEF ReplicationInv, WriterSide
<1>3. u \in ReadEnds(w, x, fetch[w][2])
    BY <1>2 DEF GetUpdates
<1>4. u \in Nat /\ x <= u /\ u <= fetch[w][2]
  <2> DEFINE to == fetch[w][2]
  <2>1. to \in Nat /\ x <= to /\ u \in ReadEnds(w, x, to)
    BY <1>2, <1>3
  <2> HIDE DEF x, to
  <2>2. u \in Nat /\ x <= u /\ u <= to
    BY <1>1, <1>2, <2>1, ReadEndsProp
  <2> QED
    BY <2>2 DEF to
<1>5. u <= seq
    BY <1>1, <1>2, <1>4
<1>6. /\ cmds \in Seq(Commands)
      /\ conn # 0 => GoodLine(Tagged(cmds, conn), rows, seq, u, conns)
      /\ Sends(Tagged(cmds, conn), rows, x, u)
  <2> HIDE DEF x
  <2> QED
    BY <1>2, <1>4, <1>5, ReadSends
<1>7. UNCHANGED <<writerVars, linkVars, readerVars>>
    BY DEF GetUpdates
<1>8. CASE pend[w] \/ u < fetch[w][2]
  <2>1. Round(w, cmds, u)
    BY <1>2, <1>8 DEF GetUpdates
  <2> HIDE DEF cmds
  <2> QED
    BY <1>4, <1>5, <1>6, <1>7, <2>1, RoundAlone
<1>9. CASE ~(pend[w] \/ u < fetch[w][2])
  <2>1. /\ Publish(w, cmds, u)
        /\ last' = [last EXCEPT ![w] = u]
        /\ looping' = [looping EXCEPT ![w] = FALSE]
        /\ fetch' = [fetch EXCEPT ![w] = <<0, 0>>]
    BY <1>2, <1>9 DEF GetUpdates
  <2> HIDE DEF cmds
  <2>2. chan' = IF conn # 0 THEN chan \o cmds ELSE chan
    BY <1>1, <2>1 DEF Publish
  <2>3. fetch' \in [Writers -> Nat \X Nat]
    BY <1>1, <2>1
  <2>4. DOMAIN looping' = Writers /\ ~looping'[w]
    BY <1>1, <2>1
  <2> QED
    BY <1>4, <1>5, <1>6, <1>7, <2>1, <2>2, <2>3, <2>4, SendStep
<1> QED
    BY <1>8, <1>9

LEMMA QuietAlone ==
    ASSUME NEW w, Alone(w), ReplicationInv(w),
           \/ GetUpdatesFails(w) \/ OnReplicate(w) \/ SendPositionsToConnection(w)
           \/ WriterDown(w) \/ WriterUp(w)
    PROVE  ReplicationInv(w)'
<1>1. WriterSide(w) /\ ReaderSide(w) /\ LineInv(w) /\ Handling /\ w \in Writers
    BY DEF ReplicationInv, Alone
<1>2. CASE GetUpdatesFails(w)
  <2>1. /\ UNCHANGED <<seq, rows, tok, minTok, last, up, breaks, conn, conns, readerVars, chan>>
        /\ looping' = [looping EXCEPT ![w] = FALSE]
        /\ fetch' = [fetch EXCEPT ![w] = <<0, 0>>]
    BY <1>2 DEF GetUpdatesFails, writerVars, linkVars
  <2>2. fetch' \in [Writers -> Nat \X Nat] /\ DOMAIN looping' = Writers /\ ~looping'[w]
    BY <1>1, <2>1 DEF WriterSide
  <2>3. WriterSide(w)'
    BY <1>1, <2>1, <2>2 DEF WriterSide
  <2> QED
    BY <1>1, <2>1, <2>3, ReaderFrame DEF ReplicationInv
<1>3. CASE OnReplicate(w) \/ SendPositionsToConnection(w)
  <2>1. UNCHANGED <<seq, rows, tok, minTok, last, fetch, looping, up, breaks, conn, conns,
                    readerVars, chan>>
    BY <1>3 DEF OnReplicate, SendPositionsToConnection, writerVars, linkVars
  <2> QED
    BY <1>1, <2>1, WriterFrame, ReaderFrame DEF ReplicationInv
<1>4. ~WriterDown(w) /\ ~WriterUp(w)
    BY <1>1 DEF WriterDown, WriterUp, WriterSide, Alone
<1> QED
    BY <1>2, <1>3, <1>4

LEMMA WriteAlone ==
    ASSUME NEW w, Alone(w), ReplicationInv(w), NEW n \in 0 .. MaxRows, Write(w, n)
    PROVE  ReplicationInv(w)'
<1> DEFINE T == {<<w, seq + 1, k>> : k \in 1 .. n}
<1>1. WriterSide(w) /\ ReaderSide(w) /\ LineInv(w) /\ Handling /\ w \in Writers
    BY DEF ReplicationInv, Alone
<1>2. /\ seq \in Nat /\ seq # 0 /\ n \in Nat /\ seq + 1 \in Nat /\ IsFiniteSet(rows)
      /\ last \in [Writers -> Nat] /\ last[w] \in Nat /\ last[w] <= seq
      /\ upto \in Nat /\ upto <= seq /\ conn \in Nat /\ conns \in Nat
      /\ batch \subseteq rows /\ applied = Upto(rows, upto)
    BY <1>1, ReplicationAssumption, SMTT(30) DEF WriterSide, ReaderSide
<1>3. \A r \in rows : r \in RowType /\ r[1] = w /\ 1 < r[2] /\ r[2] <= seq /\ r[2] \in Nat
    BY <1>1 DEF WriterSide, RowType
<1>4. IsFiniteSet(T) /\ \A r \in T : r \in RowType /\ r[1] = w /\ r[2] = seq + 1
    BY <1>1, <1>2, WrittenRows
<1>5. /\ seq' = seq + 1
      /\ rows' = rows \union T
      /\ tok' = [tok EXCEPT ![w] = seq + 1]
      /\ minTok' = [minTok EXCEPT ![w] = seq + 1]
      /\ UNCHANGED <<last, fetch, looping, up, breaks, conn, conns, chan>>
      /\ UNCHANGED <<queue, connected, batch, proc, positions, upto, known, applied>>
    BY DEF Write, streamVars, linkVars, readerVars
<1> HIDE DEF T
<1>6. /\ IsFiniteSet(rows') /\ rows \subseteq rows' /\ rows \in SUBSET RowType
      /\ rows' \in SUBSET RowType
      /\ \A r \in rows' : r \in RowType /\ r[1] = w /\ 1 < r[2] /\ r[2] <= seq'
      /\ \A r \in rows' \ rows : r[2] = seq + 1
  <2>1. IsFiniteSet(rows')
    BY <1>2, <1>4, <1>5, FS_Union
  <2>2. \A r \in T : 1 < r[2] /\ r[2] <= seq'
    BY <1>2, <1>4, <1>5
  <2>3. \A r \in rows : r[2] <= seq'
    BY <1>2, <1>3, <1>5
  <2> QED
    BY <1>3, <1>4, <1>5, <2>1, <2>2, <2>3
<1>7. ASSUME NEW t \in Nat, t <= seq
      PROVE  Upto(rows', t) = Upto(rows, t)
    BY <1>2, <1>3, <1>6, <1>7 DEF Upto
<1>8. WriterSide(w)'
  <2>1. /\ tok' \in [Writers -> Nat] /\ tok'[w] = seq' /\ minTok' \in [Writers -> Nat]
        /\ minTok'[w] = seq' /\ seq' \in Nat \ {0} /\ last'[w] <= seq'
    BY <1>1, <1>2, <1>5 DEF WriterSide
  <2>2. looping'[w] => fetch'[w][1] = last'[w] /\ last'[w] <= fetch'[w][2] /\ fetch'[w][2] <= seq'
    <3>1. fetch[w][2] \in Nat
        BY <1>1 DEF WriterSide
    <3> QED
        BY <1>1, <1>2, <1>5, <3>1 DEF WriterSide
  <2>3. /\ last' \in [Writers -> Nat] /\ fetch' \in [Writers -> Nat \X Nat]
        /\ DOMAIN looping' = Writers /\ up'[w] /\ breaks' \in [1 .. 2 -> Nat] /\ breaks'[2] = 0
    BY <1>1, <1>5 DEF WriterSide
  <2> QED
    BY <1>6, <2>1, <2>2, <2>3 DEF WriterSide
<1>9. ReaderSide(w)'
  <2>1. upto' <= seq' /\ batch' \subseteq rows'
    BY <1>2, <1>5, <1>6
  <2>2. applied' = Upto(rows', upto')
    <3>1. Upto(rows', upto) = Upto(rows, upto)
        BY <1>2, <1>7
    <3> QED
        BY <1>2, <1>5, <3>1
  <2> QED
    BY <1>1, <1>5, <2>1, <2>2 DEF ReaderSide
<1>10. proc # Idle => /\ proc.from \in Nat /\ proc.cmd.new \in Nat /\ proc.from <= seq
                      /\ proc.cmd.new <= seq
    BY <1>1 DEF Handling, Procs, Commands
<1>11. Handling'
  <2> SUFFICES ASSUME proc # Idle
               PROVE  Handling'
    BY <1>5 DEF Handling, Idle
  <2>1. /\ Upto(rows', proc.from) = Upto(rows, proc.from)
        /\ Upto(rows', proc.cmd.new) = Upto(rows, proc.cmd.new)
    BY <1>7, <1>10
  <2>2. Upto(rows', upto) = Upto(rows, upto)
    BY <1>2, <1>7
  <2>3. proc.from <= seq' /\ proc.cmd.new <= seq'
    BY <1>2, <1>5, <1>10
  <2> QED
    BY <1>1, <1>5, <2>1, <2>2, <2>3 DEF Handling
<1>12. Held' = Held /\ UNCHANGED Line /\ \A c : Counts(c)' = Counts(c) /\ Reach(w, c)' = Reach(w, c)
  <2>1. Held' = Held
    BY <1>2, <1>5, <1>7, <1>10 DEF Held
  <2> QED
    BY <1>5, <2>1 DEF Line, Counts, Reach
<1>13. /\ GoodLine(Line, rows, seq, last[w], conns) /\ Ordered(Line)
       /\ BatchBefore(Line, batch, connected)
       /\ Starts(Line, rows, upto, last[w], conn)
       /\ \A c \in 1 .. conns : Counts(c) => Chained(Line, 0, c, Held, rows, Reach(w, c))
    BY <1>1 DEF LineInv
<1>14. Line \in Seq(Entries) /\ \A j \in 1 .. Len(Line) : Line[j] \in Entries
    BY <1>1, LineProp
<1>15. ASSUME NEW q \in rows' \ rows, NEW j \in 1 .. Len(Line), IsRdata(Line[j])
       PROVE  ~Before(q, Line[j].cmd.row) /\ q[2] # Line[j].cmd.row[2]
  <2> DEFINE z == Line[j].cmd.row
  <2>1. z \in rows
    BY <1>13, <1>15 DEF GoodLine, GoodEntry
  <2>2. z[2] <= seq /\ z[2] \in Nat /\ q[2] = seq + 1
    BY <1>3, <1>6, <2>1
  <2> HIDE DEF z
  <2>3. ~Before(q, z) /\ q[2] # z[2]
    BY <1>2, <2>2 DEF Before
  <2> QED
    BY <2>3 DEF z
<1>16. GoodLine(Line, rows', seq', last[w], conns)
  <2> SUFFICES ASSUME NEW j \in 1 .. Len(Line)
               PROVE  GoodEntry(Line[j], rows', seq', last[w], conns)
    BY DEF GoodLine
  <2>1. GoodEntry(Line[j], rows, seq, last[w], conns)
    BY <1>13 DEF GoodLine
  <2>2. ASSUME IsPosition(Line[j])
        PROVE  /\ Line[j].cmd.new <= seq'
               /\ \A r \in rows' : ~(Line[j].cmd.prev < r[2] /\ r[2] <= Line[j].cmd.new)
    <3> DEFINE v == Line[j].cmd.new
    <3>1. v \in Nat
        BY <1>14, <2>2 DEF Entries, Commands, IsPosition
    <3>2. v <= seq /\ \A r \in rows : ~(Line[j].cmd.prev < r[2] /\ r[2] <= v)
        BY <2>1, <2>2 DEF GoodEntry
    <3> HIDE DEF v
    <3>3. v <= seq' /\ \A r \in rows' \ rows : ~(r[2] <= v)
        BY <1>2, <1>5, <1>6, <3>1, <3>2
    <3> QED
        BY <3>2, <3>3 DEF v
  <2>3. ASSUME IsRdata(Line[j]), NEW r \in rows', Before(Line[j].cmd.row, r),
               r[2] = Line[j].cmd.row[2], Line[j].cmd.token # 0
        PROVE  FALSE
    <3>1. r \in rows
        BY <1>15, <2>3
    <3> QED
        BY <2>1, <2>3, <3>1 DEF GoodEntry
  <2> QED
    BY <1>6, <2>1, <2>2, <2>3 DEF GoodEntry
<1>17. \A q \in rows' \ rows :
          /\ last[w] < q[2]
          /\ \A j \in 1 .. Len(Line) : IsRdata(Line[j]) => ~Before(q, Line[j].cmd.row)
    BY <1>2, <1>6, <1>15
<1>18. Starts(Line, rows', upto, last[w], conn)
  <2> DEFINE x == last[w]
  <2>1. /\ x \in Nat /\ Starts(Line, rows, upto, x, conn) /\ upto <= upto
        /\ \A q \in rows' \ rows :
              /\ x < q[2]
              /\ \A j \in 1 .. Len(Line) : IsRdata(Line[j]) => ~Before(q, Line[j].cmd.row)
    BY <1>2, <1>13, <1>17
  <2> HIDE DEF x
  <2>2. Starts(Line, rows', upto, x, conn)
    BY <1>2, <1>6, <1>14, <2>1, StartsGrow
  <2> QED
    BY <2>2 DEF x
<1>19. ASSUME NEW c \in 1 .. conns, Counts(c)
       PROVE  Chained(Line, 0, c, Held, rows', Reach(w, c))
  <2> DEFINE y == Reach(w, c)
  <2>1. y \in Nat /\ y <= last[w]
    BY <1>2 DEF Reach
  <2>2. Chained(Line, 0, c, Held, rows, y)
    BY <1>13, <1>19
  <2> HIDE DEF y
  <2>3. \A q \in rows' \ rows :
           /\ ~(q[2] <= y)
           /\ \A j \in 1 .. Len(Line) : IsRdata(Line[j]) => ~Before(q, Line[j].cmd.row)
    BY <1>2, <1>6, <1>17, <2>1
  <2>4. Chained(Line, 0, c, Held, rows', y)
    BY <2>2, <2>3, ChainedGrow
  <2> QED
    BY <2>4 DEF y
<1>20. LineInv(w)'
  <2>1. UNCHANGED <<last, conn, conns, connected, batch, upto, Line, Held>>
    BY <1>5, <1>12
  <2> QED
    BY <1>12, <1>13, <1>16, <1>18, <1>19, <2>1 DEF LineInv
<1> QED
    BY <1>8, <1>9, <1>11, <1>20 DEF ReplicationInv

-----------------------------------------------------------------------------
(***************************************************************************)
(* One writer: the connection                                              *)
(***************************************************************************)

LEMMA LineAt ==
    ASSUME NEW q \in Seq(Entries), NEW s \in Seq(Commands), NEW c \in Nat
    PROVE  LET N == q \o Tagged(s, c)
           IN  /\ N \in Seq(Entries) /\ Len(N) = Len(q) + Len(s)
               /\ Len(q) \in Nat /\ Len(s) \in Nat
               /\ \A i \in 1 .. Len(q) : N[i] = q[i]
               /\ \A i \in 1 .. Len(s) : N[Len(q) + i] = [cmd |-> s[i], conn |-> c]
<1> DEFINE T == Tagged(s, c)
           N == q \o T
<1>1. /\ T \in Seq(Entries) /\ Len(T) = Len(s) /\ Len(s) \in Nat
      /\ \A j \in 1 .. Len(s) : T[j] = [cmd |-> s[j], conn |-> c]
    BY TaggedProp
<1> HIDE DEF T
<1>2. /\ N \in Seq(Entries) /\ Len(N) = Len(q) + Len(T) /\ Len(q) \in Nat
      /\ \A i \in 1 .. Len(q) : N[i] = q[i]
      /\ \A i \in 1 .. Len(T) : N[Len(q) + i] = T[i]
  <2>1. Len(q) \in Nat /\ Len(T) \in Nat
    BY <1>1, LenProperties
  <2>2. /\ q \o T \in Seq(Entries) /\ Len(q \o T) = Len(q) + Len(T)
        /\ \A i \in 1 .. Len(q) + Len(T) :
              (q \o T)[i] = IF i <= Len(q) THEN q[i] ELSE T[i - Len(q)]
    <3>1. q \in Seq(Entries) /\ T \in Seq(Entries)
        BY <1>1
    <3> QED
        BY <3>1, ConcatProperties
  <2> HIDE DEF N
  <2>3. /\ N \in Seq(Entries) /\ Len(N) = Len(q) + Len(T)
        /\ \A i \in 1 .. Len(q) + Len(T) : N[i] = IF i <= Len(q) THEN q[i] ELSE T[i - Len(q)]
    BY <2>2 DEF N
  <2>4. ASSUME NEW i \in 1 .. Len(T)
        PROVE  N[Len(q) + i] = T[i]
    <3>1. Len(q) + i \in 1 .. Len(q) + Len(T) /\ ~(Len(q) + i <= Len(q)) /\ (Len(q) + i) - Len(q) = i
        BY <2>1
    <3> QED
        BY <2>3, <3>1
  <2>5. ASSUME NEW i \in 1 .. Len(q)
        PROVE  N[i] = q[i]
    BY <2>1, <2>3
  <2> QED
    BY <2>1, <2>3, <2>4, <2>5
<1> QED
    BY <1>1, <1>2 DEF T

LEMMA LineOfQueue ==
    ASSUME NEW q \in Seq(Entries), NEW c \in Nat
    PROVE  q \o Tagged(<<>>, c) = q
<1> DEFINE s == <<>>
           N == q \o Tagged(s, c)
<1>1. s \in Seq(Commands) /\ Len(s) = 0
    OBVIOUS
<1> HIDE DEF s
<1>2. /\ N \in Seq(Entries) /\ Len(N) = Len(q) + Len(s) /\ Len(q) \in Nat
      /\ \A i \in 1 .. Len(q) : N[i] = q[i]
  <2>1. s \in Seq(Commands)
    BY <1>1
  <2> QED
    BY <2>1, LineAt
<1>3. Len(N) = Len(q)
    BY <1>1, <1>2
<1> HIDE DEF N
<1>4. N = q
    BY <1>2, <1>3, SeqEqual
<1> QED
    BY <1>4 DEF N, s

LEMMA ReaderDownAlone ==
    ASSUME NEW w, Alone(w), ReplicationInv(w), ReaderDown
    PROVE  ReplicationInv(w)'
<1>1. WriterSide(w) /\ ReaderSide(w) /\ LineInv(w) /\ Handling /\ w \in Writers
    BY DEF ReplicationInv, Alone
<1>2. /\ conn' = 0 /\ chan' = <<>> /\ connected' = connected \ {conn}
      /\ breaks' = [breaks EXCEPT ![1] = @ + 1]
      /\ UNCHANGED <<seq, rows, tok, minTok, last, fetch, looping, up, conns>>
      /\ UNCHANGED <<queue, batch, proc, positions, upto, known, applied>>
    BY DEF ReaderDown, writerVars, streamVars
<1>3. /\ queue \in Seq(Entries) /\ conn \in Nat /\ conns \in Nat
      /\ \A q \in rows : q[2] \in Nat /\ 0 < q[2]
    BY <1>1 DEF ReaderSide, WriterSide, RowType
<1>4. WriterSide(w)'
  <2>1. breaks' \in [1 .. 2 -> Nat] /\ breaks'[2] = 0
    BY <1>1, <1>2 DEF WriterSide
  <2> QED
    BY <1>1, <1>2, <2>1 DEF WriterSide
<1>5. ReaderSide(w)'
  <2>1. chan' \in Seq(Commands) /\ conn' \in Nat /\ conn' <= conns'
    BY <1>2, <1>3
  <2> QED
    BY <1>1, <1>2, <2>1 DEF ReaderSide
<1>6. Handling'
    BY <1>1, <1>2 DEF Handling
<1>7. Line' = queue
  <2>1. Line' = queue \o Tagged(<<>>, 0)
    BY <1>2 DEF Line
  <2> QED
    BY <1>3, <2>1, LineOfQueue
<1>8. /\ Len(queue) \in Nat /\ Len(Line) \in Nat /\ Len(queue) <= Len(Line)
      /\ \A i \in 1 .. Len(queue) : i \in 1 .. Len(Line) /\ queue[i] = Line[i]
  <2>1. /\ Len(queue) \in Nat /\ Len(chan) \in Nat /\ Len(Line) = Len(queue) + Len(chan)
        /\ \A i \in 1 .. Len(queue) : i \in 1 .. Len(Line) /\ Line[i] = queue[i]
    BY <1>1, LineProp
  <2> HIDE DEF Line
  <2> QED
    BY <2>1
<1>9. /\ GoodLine(Line, rows, seq, last[w], conns) /\ Ordered(Line)
      /\ BatchBefore(Line, batch, connected)
      /\ Starts(Line, rows, upto, last[w], conn)
      /\ \A c \in 1 .. conns : Counts(c) => Chained(Line, 0, c, Held, rows, Reach(w, c))
    BY <1>1 DEF LineInv
<1>10. /\ GoodLine(queue, rows, seq, last[w], conns) /\ Ordered(queue)
       /\ BatchBefore(queue, batch, connected)
  <2> DEFINE h == [i \in 1 .. Len(queue) |-> i]
             x == last[w]
  <2>1. \A i \in 1 .. Len(queue) : h[i] \in 1 .. Len(Line) /\ queue[i] = Line[h[i]]
    BY <1>8
  <2>2. \A i, j \in 1 .. Len(queue) : i < j => h[i] < h[j]
    OBVIOUS
  <2>3. GoodLine(Line, rows, seq, x, conns)
    BY <1>9
  <2> HIDE DEF h, x
  <2>4. /\ GoodLine(queue, rows, seq, x, conns) /\ Ordered(queue)
        /\ BatchBefore(queue, batch, connected)
    BY <1>8, <1>9, <2>1, <2>2, <2>3, Subline
  <2> QED
    BY <2>4 DEF x
<1>11. BatchBefore(queue, batch, connected \ {conn})
    BY <1>10 DEF BatchBefore
<1>12. Starts(queue, rows, upto, last[w], 0)
  <2> DEFINE x == last[w]
  <2>1. Starts(Line, rows, upto, x, conn)
    BY <1>9
  <2>2. \A i \in 1 .. Len(queue) : queue[i].conn # 0
    BY <1>10 DEF GoodLine, GoodEntry
  <2> HIDE DEF x
  <2>3. Starts(queue, rows, upto, x, 0)
    BY <1>3, <1>8, <2>1, <2>2, StartsCut
  <2> QED
    BY <2>3 DEF x
<1>13. ASSUME NEW c \in 1 .. conns, Counts(c)'
       PROVE  Chained(queue, 0, c, Held, rows, Reach(w, c)')
  <2>1. Counts(c)
    BY <1>2, <1>13 DEF Counts
  <2>2. Reach(w, c)' = 0
    BY <1>2 DEF Reach
  <2>3. \A q \in rows : ~(q[2] <= 0)
    BY <1>3
  <2> DEFINE x == Reach(w, c)
  <2>4. Chained(Line, 0, c, Held, rows, x)
    BY <1>9, <2>1
  <2> HIDE DEF x
  <2>5. Chained(queue, 0, c, Held, rows, 0)
    BY <1>8, <2>3, <2>4, ChainedCut
  <2> QED
    BY <2>2, <2>5
<1>14. Held' = Held
    BY <1>2 DEF Held
<1>15. LineInv(w)'
    BY <1>2, <1>7, <1>10, <1>11, <1>12, <1>13, <1>14 DEF LineInv
<1> QED
    BY <1>4, <1>5, <1>6, <1>15 DEF ReplicationInv

LEMMA ReaderUpAlone ==
    ASSUME NEW w, Alone(w), ReplicationInv(w), ReaderUp
    PROVE  ReplicationInv(w)'
<1>1. WriterSide(w) /\ ReaderSide(w) /\ LineInv(w) /\ Handling /\ w \in Writers
    BY DEF ReplicationInv, Alone
<1>2. /\ conn = 0 /\ conn' = conns + 1 /\ conns' = conns + 1
      /\ UNCHANGED <<seq, rows, tok, minTok, last, fetch, looping, up, breaks, chan>>
      /\ UNCHANGED <<queue, connected, batch, proc, positions, upto, known, applied>>
    BY DEF ReaderUp, writerVars, streamVars, readerVars
<1>3. /\ queue \in Seq(Entries) /\ conns \in Nat /\ chan = <<>>
      /\ connected \subseteq 1 .. conns
      /\ \A q \in rows : q[2] \in Nat /\ 0 < q[2]
      /\ proc # Idle => proc.conn \in Nat /\ proc.conn <= conns
    BY <1>1, <1>2 DEF ReaderSide, WriterSide, RowType, Handling, Procs
<1>4. WriterSide(w)'
    BY <1>1, <1>2, WriterFrame
<1>5. ReaderSide(w)'
  <2>1. /\ conns' \in Nat /\ conn' \in Nat /\ conn' <= conns' /\ conn' # 0
        /\ connected' \subseteq 1 .. conns'
    BY <1>2, <1>3
  <2> QED
    BY <1>1, <1>2, <2>1 DEF ReaderSide
<1>6. Handling'
  <2>1. proc # Idle => proc.conn <= conns'
    BY <1>2, <1>3
  <2> QED
    BY <1>1, <1>2, <2>1 DEF Handling
<1>7. Line = queue /\ Line' = queue
  <2>1. Line = queue \o Tagged(<<>>, conn) /\ Line' = queue \o Tagged(<<>>, conns + 1)
    BY <1>2, <1>3 DEF Line
  <2>2. conn \in Nat /\ conns + 1 \in Nat
    BY <1>2, <1>3
  <2> QED
    BY <1>3, <2>1, <2>2, LineOfQueue
<1>8. /\ GoodLine(queue, rows, seq, last[w], conns) /\ Ordered(queue)
      /\ BatchBefore(queue, batch, connected)
      /\ Starts(queue, rows, upto, last[w], conn)
      /\ \A c \in 1 .. conns : Counts(c) => Chained(queue, 0, c, Held, rows, Reach(w, c))
    BY <1>1, <1>7 DEF LineInv
<1>9. GoodLine(queue, rows, seq, last[w], conns + 1) /\ \A i \in 1 .. Len(queue) : queue[i].conn # conns + 1
  <2> SUFFICES ASSUME NEW j \in 1 .. Len(queue)
               PROVE  GoodEntry(queue[j], rows, seq, last[w], conns + 1) /\ queue[j].conn # conns + 1
    BY DEF GoodLine
  <2>1. GoodEntry(queue[j], rows, seq, last[w], conns)
    BY <1>8 DEF GoodLine
  <2>2. queue[j].conn \in 1 .. conns
    BY <2>1 DEF GoodEntry
  <2>3. queue[j].conn \in 1 .. conns + 1 /\ queue[j].conn # conns + 1
    BY <1>3, <2>2
  <2> QED
    BY <2>1, <2>3 DEF GoodEntry
<1>10. Starts(queue, rows, upto, last[w], conns + 1)
  <2> DEFINE x == last[w]
             e == conns + 1
  <2>1. Starts(queue, rows, upto, x, conn) /\ \A i \in 1 .. Len(queue) : queue[i].conn # e
    BY <1>8, <1>9
  <2>2. /\ Len(queue) \in Nat /\ Len(queue) <= Len(queue)
        /\ \A i \in 1 .. Len(queue) : queue[i] = queue[i]
    BY <1>3, LenProperties
  <2> HIDE DEF x, e
  <2>3. Starts(queue, rows, upto, x, e)
    BY <1>3, <2>1, <2>2, StartsCut
  <2> QED
    BY <2>3 DEF x, e
<1>11. ASSUME NEW c \in 1 .. conns', Counts(c)'
       PROVE  Chained(queue, 0, c, Held, rows, Reach(w, c)')
  <2>1. Counts(c)
    BY <1>2, <1>11 DEF Counts
  <2>2. c \in 1 .. conns /\ c # conns + 1 /\ c # 0
    BY <1>2, <1>3, <2>1 DEF Counts
  <2>3. Reach(w, c)' = 0 /\ Reach(w, c) = 0
    BY <1>2, <2>2 DEF Reach
  <2> QED
    BY <1>8, <2>1, <2>2, <2>3
<1>12. Held' = Held
    BY <1>2 DEF Held
<1>13. LineInv(w)'
    BY <1>2, <1>7, <1>8, <1>9, <1>10, <1>11, <1>12 DEF LineInv
<1> QED
    BY <1>4, <1>5, <1>6, <1>13 DEF ReplicationInv

\* An entry leaves the line: the first one, or a POSITION the reader has passed.
LEMMA LineInvRemove ==
    ASSUME NEW w, WriterSide(w), ReaderSide(w), LineInv(w),
           NEW n \in 1 .. Len(Line), NEW N \in Seq(Entries), Without(N, Line, n),
           NEW t \in Nat, upto <= t,
           n = 1 \/ (IsPosition(Line[n]) /\ Line[n].cmd.new <= t)
    PROVE  /\ GoodLine(N, rows, seq, last[w], conns) /\ Ordered(N)
           /\ BatchBefore(N, batch, connected)
           /\ Starts(N, rows, t, last[w], conn)
<1> DEFINE x == last[w]
<1>1. Line \in Seq(Entries)
    BY LineProp
<1>2. /\ GoodLine(Line, rows, seq, x, conns) /\ Ordered(Line)
      /\ BatchBefore(Line, batch, connected)
      /\ Starts(Line, rows, upto, x, conn)
    BY DEF LineInv
<1>3. rows \in SUBSET RowType /\ upto \in Nat
    BY DEF WriterSide, ReaderSide
<1> HIDE DEF x
<1>4. /\ GoodLine(N, rows, seq, x, conns) /\ Ordered(N)
      /\ BatchBefore(N, batch, connected)
    BY <1>1, <1>2, LineRemove
<1>5. Starts(N, rows, t, x, conn)
    BY <1>1, <1>2, <1>3, StartsRemove
<1> QED
    BY <1>4, <1>5 DEF x

LEMMA LineChainRemove ==
    ASSUME NEW w, ReaderSide(w), LineInv(w),
           NEW n \in 1 .. Len(Line), NEW N \in Seq(Entries), Without(N, Line, n),
           NEW c \in 1 .. conns, Counts(c), NEW floor, Held \subseteq floor,
           Line[n].conn = c => \A q \in rows : Brings(Line[n], q) => q \in floor
    PROVE  Chained(N, 0, c, floor, rows, Reach(w, c))
<1> DEFINE x == Reach(w, c)
           H == Held
<1>1. Line \in Seq(Entries) /\ Len(Line) \in Nat /\ 0 \in 0 .. Len(Line) /\ 0 < n
    BY LineProp
<1>2. Chained(Line, 0, c, H, rows, x) /\ H \subseteq floor
    BY DEF LineInv
<1>3. /\ Len(N) = Len(Line) - 1
      /\ \A i \in 1 .. Len(N) : N[i] = IF i < n THEN Line[i] ELSE Line[i + 1]
    BY DEF Without
<1>4. 0 < n /\ Line[n].conn = c => \A q \in rows : Brings(Line[n], q) => q \in floor
    OBVIOUS
<1> HIDE DEF x, H
<1>5. Chained(N, IF 0 < n THEN 0 ELSE 0 - 1, c, floor, rows, x)
    BY <1>1, <1>2, <1>3, <1>4, ChainedRemove
<1> QED
    BY <1>1, <1>5 DEF x

\* The next command of the channel is at its place on the line.
LEMMA DeliverLine ==
    ASSUME queue \in Seq(Entries), chan \in Seq(Commands), conn \in Nat, chan # <<>>
    PROVE  LET e == [cmd |-> Head(chan), conn |-> conn]
               n == Len(queue) + 1
               N == queue \o Tagged(Tail(chan), conn)
           IN  /\ Head(chan) \in Commands /\ Tail(chan) \in Seq(Commands)
               /\ n \in 1 .. Len(Line) /\ Line[n] = e /\ e \in Entries
               /\ N \in Seq(Entries) /\ Without(N, Line, n)
               /\ Append(queue, e) \in Seq(Entries)
               /\ Append(queue, e) \o Tagged(Tail(chan), conn) = Line
<1> DEFINE e == [cmd |-> Head(chan), conn |-> conn]
           l == Len(queue)
           s == Tail(chan)
           q == Append(queue, e)
           N == queue \o Tagged(s, conn)
           M == q \o Tagged(s, conn)
<1>1. queue \in Seq(Entries) /\ chan \in Seq(Commands) /\ conn \in Nat
    OBVIOUS
<1>2. /\ Head(chan) \in Commands /\ s \in Seq(Commands) /\ Len(s) = Len(chan) - 1
      /\ Head(chan) = chan[1] /\ Len(chan) \in Nat /\ 1 <= Len(chan)
      /\ \A i \in 1 .. Len(s) : s[i] = chan[i + 1]
    BY <1>1, HeadTailProperties, LenProperties
<1>3. e \in Entries
    BY <1>1, <1>2 DEF Entries
<1> HIDE DEF e, s
<1>4. /\ q \in Seq(Entries) /\ Len(q) = l + 1 /\ l \in Nat
      /\ \A i \in 1 .. l : q[i] = queue[i]
      /\ q[l + 1] = e
    BY <1>1, <1>3, AppendProperties, LenProperties
<1> HIDE DEF q
<1>5. /\ Line \in Seq(Entries) /\ Len(Line) = l + Len(chan)
      /\ \A i \in 1 .. l : Line[i] = queue[i]
      /\ \A i \in 1 .. Len(chan) : Line[l + i] = [cmd |-> chan[i], conn |-> conn]
    BY <1>1, LineAt DEF Line
<1>6. /\ N \in Seq(Entries) /\ Len(N) = l + Len(s)
      /\ \A i \in 1 .. l : N[i] = queue[i]
      /\ \A i \in 1 .. Len(s) : N[l + i] = [cmd |-> s[i], conn |-> conn]
  <2>1. s \in Seq(Commands)
    BY <1>2
  <2> QED
    BY <1>1, <2>1, LineAt
<1>7. /\ M \in Seq(Entries) /\ Len(M) = Len(q) + Len(s)
      /\ \A i \in 1 .. Len(q) : M[i] = q[i]
      /\ \A i \in 1 .. Len(s) : M[Len(q) + i] = [cmd |-> s[i], conn |-> conn]
  <2>1. s \in Seq(Commands) /\ q \in Seq(Entries)
    BY <1>2, <1>4
  <2> QED
    BY <1>1, <2>1, LineAt
<1> HIDE DEF N, M, l
<1>8. l + 1 \in 1 .. Len(Line) /\ Line[l + 1] = e
  <2>1. 1 \in 1 .. Len(chan)
    BY <1>2
  <2>2. Line[l + 1] = [cmd |-> chan[1], conn |-> conn]
    BY <1>5, <2>1
  <2> QED
    BY <1>2, <1>4, <1>5, <2>2 DEF e
<1>9. \A i \in 1 .. Len(s) : Line[l + (i + 1)] = [cmd |-> s[i], conn |-> conn]
  <2> SUFFICES ASSUME NEW i \in 1 .. Len(s)
               PROVE  Line[l + (i + 1)] = [cmd |-> s[i], conn |-> conn]
    OBVIOUS
  <2>1. i + 1 \in 1 .. Len(chan) /\ s[i] = chan[i + 1]
    BY <1>2
  <2>2. Line[l + (i + 1)] = [cmd |-> chan[i + 1], conn |-> conn]
    BY <1>5, <2>1
  <2> QED
    BY <2>1, <2>2
<1>10. Without(N, Line, l + 1)
  <2>1. Len(N) = Len(Line) - 1
    BY <1>2, <1>4, <1>5, <1>6
  <2>2. ASSUME NEW i \in 1 .. Len(N)
        PROVE  N[i] = IF i < l + 1 THEN Line[i] ELSE Line[i + 1]
    <3>1. CASE i < l + 1
      <4>1. i \in 1 .. l
        BY <1>4, <3>1
      <4> QED
        BY <1>5, <1>6, <3>1, <4>1
    <3>2. CASE ~(i < l + 1)
      <4> DEFINE k == i - l
      <4>1. k \in 1 .. Len(s) /\ i = l + k /\ i + 1 = l + (k + 1)
        BY <1>2, <1>4, <1>6, <3>2
      <4> HIDE DEF k
      <4>2. N[l + k] = Line[l + (k + 1)]
        BY <1>6, <1>9, <4>1
      <4> QED
        BY <3>2, <4>1, <4>2
    <3> QED
        BY <3>1, <3>2
  <2> QED
    BY <2>1, <2>2 DEF Without
<1>11. M = Line
  <2>1. Len(M) = Len(Line)
    BY <1>2, <1>4, <1>5, <1>7
  <2>2. ASSUME NEW i \in 1 .. Len(Line)
        PROVE  M[i] = Line[i]
    <3>1. CASE i <= l
      <4>1. i \in 1 .. l /\ i \in 1 .. Len(q)
        BY <1>4, <3>1
      <4> QED
        BY <1>4, <1>5, <1>7, <4>1
    <3>2. CASE i = l + 1
      <4>1. i \in 1 .. Len(q)
        BY <1>4, <3>2
      <4> QED
        BY <1>4, <1>7, <1>8, <3>2, <4>1
    <3>3. CASE ~(i <= l) /\ i # l + 1
      <4> DEFINE k == i - (l + 1)
      <4>1. k \in 1 .. Len(s) /\ i = Len(q) + k /\ i = l + (k + 1)
        BY <1>2, <1>4, <1>5, <3>3
      <4> HIDE DEF k
      <4>2. M[Len(q) + k] = Line[l + (k + 1)]
        BY <1>7, <1>9, <4>1
      <4> QED
        BY <4>1, <4>2
    <3> QED
        BY <3>1, <3>2, <3>3
  <2> QED
    BY <1>5, <1>7, <2>1, <2>2, SeqEqual
<1> QED
    BY <1>2, <1>3, <1>4, <1>6, <1>8, <1>10, <1>11 DEF e, s, q, N, M, l

LEMMA CurrentTokenProp ==
    ASSUME NEW w, Alone(w), ReaderSide(w), NEW x \in Writers
    PROVE  x = w /\ CurrentToken(x) = upto
BY DEF Alone, ReaderSide, CurrentToken, MaxOf2

LEMMA DeliverAlone ==
    ASSUME NEW w, Alone(w), ReplicationInv(w), Deliver
    PROVE  ReplicationInv(w)'
<1> DEFINE e == [cmd |-> Head(chan), conn |-> conn]
           n == Len(queue) + 1
           N == queue \o Tagged(Tail(chan), conn)
<1>1. WriterSide(w) /\ ReaderSide(w) /\ LineInv(w) /\ Handling /\ w \in Writers
    BY DEF ReplicationInv, Alone
<1>2. /\ chan # <<>> /\ chan' = Tail(chan)
      /\ queue' = IF Head(chan).type = "POSITION" /\ CanDiscard(Head(chan), conn) THEN queue
                  ELSE Append(queue, e)
      /\ UNCHANGED <<seq, rows, tok, minTok, last, fetch, looping, up, breaks, conn, conns>>
      /\ UNCHANGED <<connected, batch, proc, positions, upto, known, applied>>
    BY DEF Deliver, writerVars, streamVars, linkVars
<1>3. /\ Head(chan) \in Commands /\ Tail(chan) \in Seq(Commands)
      /\ n \in 1 .. Len(Line) /\ Line[n] = e /\ e \in Entries
      /\ N \in Seq(Entries) /\ Without(N, Line, n)
      /\ Append(queue, e) \in Seq(Entries)
      /\ Append(queue, e) \o Tagged(Tail(chan), conn) = Line
    BY <1>1, <1>2, DeliverLine DEF ReaderSide
<1>4. WriterSide(w)'
    BY <1>1, <1>2, WriterFrame
<1>5. conn # 0 /\ queue \in Seq(Entries)
    BY <1>1, <1>2 DEF ReaderSide
<1>6. ReaderSide(w)'
  <2>1. chan' \in Seq(Commands) /\ queue' \in Seq(Entries)
    BY <1>2, <1>3, <1>5
  <2> QED
    BY <1>1, <1>2, <1>5, <2>1 DEF ReaderSide
<1>7. Handling'
    BY <1>1, <1>2 DEF Handling
<1>8. Held' = Held /\ \A c : Counts(c)' = Counts(c) /\ Reach(w, c)' = Reach(w, c)
    BY <1>2 DEF Held, Counts, Reach
<1>9. CASE ~(Head(chan).type = "POSITION" /\ CanDiscard(Head(chan), conn))
  <2>1. Line' = Line
    <3>1. Line' = Append(queue, e) \o Tagged(Tail(chan), conn)
        BY <1>2, <1>9 DEF Line
    <3> QED
        BY <1>3, <3>1
  <2>2. LineInv(w)'
    BY <1>1, <1>2, <1>8, <2>1 DEF LineInv
  <2> QED
    BY <1>4, <1>6, <1>7, <2>2 DEF ReplicationInv
<1>10. CASE Head(chan).type = "POSITION" /\ CanDiscard(Head(chan), conn)
  <2>1. Line' = N
    BY <1>2, <1>10 DEF Line
  <2>2. Head(chan).w \in Writers /\ Head(chan).new \in Nat
    BY <1>3, <1>10 DEF Commands
  <2>3. Head(chan).new <= upto /\ upto \in Nat
    BY <1>1, <1>10, <2>2, CurrentTokenProp DEF CanDiscard, ReaderSide
  <2>4. IsPosition(e) /\ e.cmd.new <= upto /\ ~IsRdata(e)
    BY <1>10, <2>3 DEF IsPosition, IsRdata
  <2> HIDE DEF e, n, N
  <2>5. IsPosition(Line[n]) /\ Line[n].cmd.new <= upto
    BY <1>3, <2>4
  <2>6. /\ GoodLine(N, rows, seq, last[w], conns) /\ Ordered(N)
        /\ BatchBefore(N, batch, connected)
        /\ Starts(N, rows, upto, last[w], conn)
    <3>1. upto <= upto
        BY <2>3
    <3> QED
        BY <1>1, <1>3, <2>3, <2>5, <3>1, LineInvRemove
  <2>7. \A q \in rows : Brings(Line[n], q) => q \in Held
    <3> SUFFICES ASSUME NEW q \in rows, Brings(e, q)
                 PROVE  q[2] <= upto
        BY <1>3 DEF Held, Upto
    <3> DEFINE v == e.cmd.new
    <3>1. q[2] <= v /\ v <= upto /\ v \in Nat /\ q[2] \in Nat
        BY <1>1, <2>2, <2>4 DEF Brings, e, WriterSide, RowType
    <3> HIDE DEF v
    <3> QED
        BY <2>3, <3>1
  <2>8. \A c \in 1 .. conns : Counts(c) => Chained(N, 0, c, Held, rows, Reach(w, c))
    BY <1>1, <1>3, <2>7, LineChainRemove
  <2>9. LineInv(w)'
    BY <1>2, <1>8, <2>1, <2>6, <2>8 DEF LineInv
  <2> QED
    BY <1>4, <1>6, <1>7, <2>9 DEF ReplicationInv
<1> QED
    BY <1>9, <1>10

-----------------------------------------------------------------------------
(***************************************************************************)
(* One writer: the steps of the reader                                     *)
(***************************************************************************)

LEMMA HeadLine ==
    ASSUME queue \in Seq(Entries), chan \in Seq(Commands), conn \in Nat, queue # <<>>
    PROVE  LET N == Tail(queue) \o Tagged(chan, conn)
           IN  /\ Head(queue) \in Entries /\ Tail(queue) \in Seq(Entries)
               /\ 1 \in 1 .. Len(Line) /\ Line[1] = Head(queue)
               /\ N \in Seq(Entries) /\ Without(N, Line, 1)
<1> DEFINE q == Tail(queue)
           N == q \o Tagged(chan, conn)
           l == Len(queue)
<1>1. queue \in Seq(Entries) /\ chan \in Seq(Commands) /\ conn \in Nat
    OBVIOUS
<1>2. /\ Head(queue) \in Entries /\ q \in Seq(Entries) /\ Len(q) = l - 1
      /\ Head(queue) = queue[1] /\ l \in Nat /\ 1 <= l
      /\ \A i \in 1 .. Len(q) : q[i] = queue[i + 1]
    BY <1>1, HeadTailProperties, LenProperties
<1> HIDE DEF q
<1>3. /\ Line \in Seq(Entries) /\ Len(Line) = l + Len(chan) /\ Len(chan) \in Nat
      /\ \A i \in 1 .. l : Line[i] = queue[i]
      /\ \A i \in 1 .. Len(chan) : Line[l + i] = [cmd |-> chan[i], conn |-> conn]
    BY <1>1, LineAt DEF Line
<1>4. /\ N \in Seq(Entries) /\ Len(N) = Len(q) + Len(chan)
      /\ \A i \in 1 .. Len(q) : N[i] = q[i]
      /\ \A i \in 1 .. Len(chan) : N[Len(q) + i] = [cmd |-> chan[i], conn |-> conn]
  <2>1. q \in Seq(Entries)
    BY <1>2
  <2> QED
    BY <1>1, <2>1, LineAt
<1> HIDE DEF N, l
<1>5. Len(N) = Len(Line) - 1 /\ 1 \in 1 .. Len(Line) /\ 1 \in 1 .. l
    BY <1>2, <1>3, <1>4
<1>6. ASSUME NEW i \in 1 .. Len(N)
      PROVE  N[i] = Line[i + 1] /\ ~(i < 1)
  <2>1. CASE i <= Len(q)
    <3>1. i \in 1 .. Len(q) /\ i + 1 \in 1 .. l
        BY <1>2, <2>1
    <3> QED
        BY <1>2, <1>3, <1>4, <3>1
  <2>2. CASE ~(i <= Len(q))
    <3> DEFINE k == i - Len(q)
    <3>1. k \in 1 .. Len(chan) /\ i = Len(q) + k /\ i + 1 = l + k
        BY <1>2, <1>3, <1>4, <2>2
    <3> HIDE DEF k
    <3>2. N[Len(q) + k] = Line[l + k]
        BY <1>3, <1>4, <3>1
    <3> QED
        BY <3>1, <3>2
  <2> QED
    BY <2>1, <2>2
<1>7. Without(N, Line, 1)
    BY <1>5, <1>6 DEF Without
<1>8. Line[1] = Head(queue)
    BY <1>2, <1>3, <1>5
<1> QED
    BY <1>2, <1>4, <1>5, <1>7, <1>8 DEF q, N

\* The reader handles the first command, and is idle again.
LEMMA HeadStep ==
    ASSUME NEW w, Alone(w), ReplicationInv(w), queue # <<>>, proc = Idle,
           queue' = Tail(queue), ReaderSide(w)', upto <= upto',
           UNCHANGED <<writerVars, streamVars, linkVars, connected, proc, chan>>,
           Held \subseteq Held',
           Head(queue).conn \in connected =>
               \A q \in rows : Brings(Head(queue), q) => q \in Held',
           BatchBefore(Tail(queue) \o Tagged(chan, conn), batch, connected) =>
               BatchBefore(Tail(queue) \o Tagged(chan, conn), batch', connected)
    PROVE  ReplicationInv(w)'
<1> DEFINE N == Tail(queue) \o Tagged(chan, conn)
<1>1. WriterSide(w) /\ ReaderSide(w) /\ LineInv(w)
    BY DEF ReplicationInv
<1>2. UNCHANGED <<seq, rows, tok, minTok, last, fetch, looping, up, breaks, conn, conns, chan,
                  connected, proc>>
    BY DEF writerVars, streamVars, linkVars
<1>3. /\ 1 \in 1 .. Len(Line) /\ Line[1] = Head(queue)
      /\ N \in Seq(Entries) /\ Without(N, Line, 1)
    BY <1>1, HeadLine DEF ReaderSide
<1>4. Line' = N
    BY <1>2 DEF Line
<1>5. WriterSide(w)'
    BY <1>1, <1>2, WriterFrame
<1>6. Handling'
    BY <1>2 DEF Handling
<1>7. upto' \in Nat
    BY DEF ReaderSide
<1> HIDE DEF N
<1>8. /\ GoodLine(N, rows, seq, last[w], conns) /\ Ordered(N)
      /\ BatchBefore(N, batch, connected)
      /\ Starts(N, rows, upto', last[w], conn)
  <2> DEFINE t == upto'
  <2>1. t \in Nat /\ upto <= t
    BY <1>7
  <2> HIDE DEF t
  <2>2. /\ GoodLine(N, rows, seq, last[w], conns) /\ Ordered(N)
        /\ BatchBefore(N, batch, connected)
        /\ Starts(N, rows, t, last[w], conn)
    BY <1>1, <1>3, <2>1, LineInvRemove
  <2> QED
    BY <2>2 DEF t
<1>9. BatchBefore(N, batch', connected)
    BY <1>8 DEF N
<1>10. ASSUME NEW c \in 1 .. conns, Counts(c)'
       PROVE  Chained(N, 0, c, Held', rows, Reach(w, c)')
  <2>1. Counts(c) /\ Reach(w, c)' = Reach(w, c) /\ c \in connected
    BY <1>2, <1>10 DEF Counts, Reach
  <2>2. Line[1].conn = c => \A q \in rows : Brings(Line[1], q) => q \in Held'
    BY <1>3, <2>1
  <2> DEFINE H == Held'
  <2>3. Held \subseteq H /\ (Line[1].conn = c => \A q \in rows : Brings(Line[1], q) => q \in H)
    BY <2>2
  <2> HIDE DEF H
  <2>4. Chained(N, 0, c, H, rows, Reach(w, c))
    BY <1>1, <1>3, <2>1, <2>3, LineChainRemove
  <2> QED
    BY <2>1, <2>4 DEF H
<1>11. LineInv(w)'
    BY <1>2, <1>4, <1>8, <1>9, <1>10 DEF LineInv
<1> QED
    BY <1>5, <1>6, <1>11 DEF ReplicationInv

LEMMA ProcessRdataAlone ==
    ASSUME NEW w, Alone(w), ReplicationInv(w), ProcessRdata
    PROVE  ReplicationInv(w)'
<1> DEFINE e == Head(queue)
           r == e.cmd.row
           N == Tail(queue) \o Tagged(chan, conn)
<1>1. WriterSide(w) /\ ReaderSide(w) /\ LineInv(w) /\ w \in Writers
    BY DEF ReplicationInv, Alone
<1>2. /\ proc = Idle /\ queue # <<>> /\ e.cmd.type = "RDATA" /\ queue' = Tail(queue)
      /\ UNCHANGED <<writerVars, streamVars, linkVars, connected, proc, chan>>
      /\ UNCHANGED <<seq, rows, last, conn, conns>>
    BY DEF ProcessRdata, writerVars, streamVars, linkVars
<1>3. /\ e \in Entries /\ Tail(queue) \in Seq(Entries)
      /\ 1 \in 1 .. Len(Line) /\ Line[1] = e
      /\ N \in Seq(Entries) /\ Without(N, Line, 1)
    BY <1>1, <1>2, HeadLine DEF ReaderSide
<1> HIDE DEF e
<1>4. /\ GoodLine(Line, rows, seq, last[w], conns) /\ Ordered(Line)
      /\ BatchBefore(Line, batch, connected)
      /\ \A c \in 1 .. conns : Counts(c) => Chained(Line, 0, c, Held, rows, Reach(w, c))
    BY <1>1 DEF LineInv
<1>5. /\ e.conn \in 1 .. conns /\ r \in rows /\ r[2] <= last[w] /\ e.cmd.token \in {0, r[2]}
      /\ e.cmd.token # 0 => \A q \in rows : ~(Before(r, q) /\ q[2] = r[2])
  <2>1. IsRdata(e) /\ GoodEntry(e, rows, seq, last[w], conns)
    BY <1>2, <1>3, <1>4 DEF GoodLine, IsRdata
  <2> QED
    BY <2>1 DEF GoodEntry
<1>6. e.cmd.w = w /\ e.cmd.token \in Nat
  <2>1. e.cmd.w \in Writers /\ e.cmd.token \in Nat
    BY <1>2, <1>3 DEF Entries, Commands
  <2> QED
    BY <2>1 DEF Alone
<1>7. /\ \A q \in rows : q \in RowType /\ q[1] = w /\ q[2] \in Nat /\ q[2] <= seq
      /\ seq \in Nat /\ upto \in Nat /\ upto <= seq /\ conns \in Nat /\ conn \in Nat
      /\ batch \subseteq rows /\ applied = Upto(rows, upto) /\ connected \subseteq 1 .. conns
      /\ \A c, d \in connected : c = d
    BY <1>1 DEF WriterSide, ReaderSide, RowType
<1>8. CurrentToken(e.cmd.w) = upto
    BY <1>1, <1>6, CurrentTokenProp
<1>9. \A q : Brings(e, q) => q = r
    BY <1>2 DEF Brings, IsPosition
<1>10. Held = Upto(rows, upto) \union batch
    BY <1>2 DEF Held
<1>11. Held' = Upto(rows, upto') \union batch'
    BY <1>2 DEF Held
<1>12. ASSUME e.conn \in connected, NEW q \in batch
       PROVE  q[2] <= r[2]
  <2>1. IsRdata(Line[1]) /\ Line[1].conn \in connected /\ Line[1].cmd.row = r
    BY <1>2, <1>3, <1>12 DEF IsRdata
  <2> QED
    BY <1>3, <1>4, <2>1 DEF BatchBefore
<1>13. CASE e.conn \notin connected
  <2>1. UNCHANGED <<batch, positions, upto, known, applied>>
    BY <1>13 DEF ProcessRdata, StreamConnected, e
  <2>2. ReaderSide(w)'
    BY <1>1, <1>2, <1>3, <2>1 DEF ReaderSide, linkVars
  <2>3. Held' = Held /\ upto <= upto'
    BY <1>7, <1>10, <1>11, <2>1
  <2>4. batch' = batch
    BY <2>1
  <2> HIDE DEF N
  <2> QED
    BY <1>2, <1>13, <2>2, <2>3, <2>4, HeadStep DEF e
<1>14. CASE e.conn \in connected /\ e.cmd.token = 0
  <2>1. batch' = batch \union {r} /\ UNCHANGED <<positions, upto, known, applied>>
    BY <1>14 DEF ProcessRdata, StreamConnected, e
  <2>2. ReaderSide(w)'
    <3>1. batch' \subseteq rows' /\ \A q \in batch' : q[2] <= last'[w]
        BY <1>1, <1>2, <1>5, <2>1 DEF ReaderSide
    <3> QED
        BY <1>1, <1>2, <1>3, <2>1, <3>1 DEF ReaderSide
  <2>3. Held' = Held \union {r} /\ upto <= upto'
    BY <1>7, <1>10, <1>11, <2>1
  <2>4. BatchBefore(N, batch, connected) => BatchBefore(N, batch', connected)
    <3> SUFFICES ASSUME NEW j \in 1 .. Len(N), IsRdata(N[j]), N[j].conn \in connected
                 PROVE  r[2] <= N[j].cmd.row[2]
        BY <2>1 DEF BatchBefore
    <3>1. j \in Nat /\ ~(j < 1) /\ j + 1 \in 1 .. Len(Line) /\ 1 < j + 1
        BY <1>1, <1>3, LineProp DEF Without
    <3>2. N[j] = Line[j + 1]
        BY <1>3, <3>1 DEF Without
    <3>3. Line[j + 1].conn = Line[1].conn /\ IsRdata(Line[1]) /\ IsRdata(Line[j + 1])
        BY <1>2, <1>3, <1>7, <1>14, <3>2 DEF IsRdata
    <3>4. Line[1].cmd.row[2] <= Line[j + 1].cmd.row[2]
        BY <1>3, <1>4, <3>1, <3>3 DEF Ordered
    <3> QED
        BY <1>3, <3>2, <3>4
  <2>5. Held \subseteq Held' /\ \A q \in rows : Brings(e, q) => q \in Held'
    BY <1>9, <2>3
  <2> QED
    BY <1>2, <2>2, <2>3, <2>4, <2>5, HeadStep DEF e
<1>15. CASE e.conn \in connected /\ e.cmd.token # 0
  <2>1. /\ batch' = {}
        /\ IF e.cmd.token <= CurrentToken(e.cmd.w)
           THEN UNCHANGED <<positions, upto, known, applied>>
           ELSE OnRdata(e.cmd.w, e.cmd.token, batch \union {r})
    BY <1>15 DEF ProcessRdata, StreamConnected, e
  <2>2. e.cmd.token = r[2] /\ r[2] \in Nat
    BY <1>5, <1>7, <1>15
  <2>3. BatchBefore(N, batch', connected)
    BY <2>1 DEF BatchBefore
  <2>4. CASE r[2] <= upto
    <3>1. UNCHANGED <<positions, upto, known, applied>>
        BY <1>8, <2>1, <2>2, <2>4
    <3>2. ReaderSide(w)'
        BY <1>1, <1>2, <1>3, <2>1, <3>1 DEF ReaderSide
    <3>3. batch \union {r} \subseteq Upto(rows, upto)
      <4> SUFFICES ASSUME NEW q \in batch PROVE q[2] <= upto
        BY <1>5, <1>7, <2>4 DEF Upto
      <4>1. q[2] <= r[2] /\ q[2] \in Nat
        BY <1>7, <1>12, <1>15
      <4> QED
        BY <1>7, <2>2, <2>4, <4>1
    <3>4. Held \subseteq Held' /\ (\A q \in rows : Brings(e, q) => q \in Held') /\ upto <= upto'
        BY <1>7, <1>9, <1>10, <1>11, <3>1, <3>3
    <3> QED
        BY <1>2, <2>3, <3>2, <3>4, HeadStep DEF e
  <2>5. CASE ~(r[2] <= upto)
    <3> DEFINE v == r[2]
    <3>1. OnRdata(w, v, batch \union {r})
        BY <1>6, <1>8, <2>1, <2>2, <2>5
    <3>2. v \in Nat /\ upto < v /\ v <= seq
        BY <1>5, <1>7, <2>2, <2>5
    <3> HIDE DEF v
    <3>3. /\ upto' = MaxOf2(v, upto)
          /\ positions' \in [Writers -> Nat] /\ positions'[w] = upto'
          /\ known' = {} /\ applied' = applied \union (batch \union {r})
        BY <1>1, <3>1, <3>2, OnRdataProp
    <3>4. upto' = v
        BY <1>7, <3>2, <3>3 DEF MaxOf2
    <3>5. Upto(rows, upto) \union batch \union {r} \subseteq Upto(rows, v)
      <4>1. ASSUME NEW q \in batch PROVE q[2] <= v
        BY <1>12, <1>15, <4>1 DEF v
      <4>2. r[2] <= v
        BY <2>2 DEF v
      <4>3. ASSUME NEW q \in rows, q[2] <= upto PROVE q[2] <= v
        BY <1>7, <3>2, <4>3
      <4> QED
        BY <1>5, <1>7, <4>1, <4>2, <4>3 DEF Upto
    <3>6. ASSUME NEW q \in rows, q[2] <= v, q # r
          PROVE  q \in Upto(rows, upto) \union batch
      <4>1. Before(q, r)
        <5>1. q \in RowType /\ r \in RowType /\ q[1] = w /\ r[1] = w
            BY <1>5, <1>7
        <5>2. q[2] \in Nat /\ r[2] \in Nat /\ q[3] \in Nat /\ r[3] \in Nat
            BY <5>1 DEF RowType
        <5>3. q = <<w, q[2], q[3]>> /\ r = <<w, r[2], r[3]>>
            BY <5>1 DEF RowType
        <5>4. q[2] # r[2] \/ q[3] # r[3]
            BY <3>6, <5>3
        <5>5. ~(Before(r, q) /\ q[2] = r[2])
            BY <1>5, <1>15
        <5> QED
            BY <3>6, <5>2, <5>4, <5>5 DEF Before, v
      <4>2. Counts(e.conn)
        BY <1>15 DEF Counts
      <4>3. Chained(Line, 0, e.conn, Held, rows, Reach(w, e.conn))
        BY <1>4, <1>5, <4>2
      <4>4. q \in Held
        <5> SUFFICES ASSUME q \notin Held PROVE FALSE
            OBVIOUS
        <5>1. 0 < 1 /\ Line[1].conn = e.conn /\ IsRdata(Line[1]) /\ Before(q, Line[1].cmd.row)
            BY <1>2, <1>3, <4>1 DEF IsRdata
        <5>2. \E m \in 1 .. Len(Line) : 0 < m /\ m < 1
            BY <1>3, <4>3, <5>1 DEF Chained
        <5> QED
            BY <5>2
      <4> QED
        BY <1>10, <4>4
    <3>7. applied' = Upto(rows, v)
      <4>1. Upto(rows, v) \subseteq Upto(rows, upto) \union batch \union {r}
        BY <3>6 DEF Upto
      <4> QED
        BY <1>7, <3>3, <3>5, <4>1
    <3>8. ReaderSide(w)'
      <4>1. upto' \in Nat /\ upto' <= seq' /\ applied' = Upto(rows', upto')
        BY <1>2, <3>2, <3>4, <3>7
      <4> QED
        BY <1>1, <1>2, <1>3, <2>1, <3>3, <4>1 DEF ReaderSide
    <3>9. Held \subseteq Held' /\ (\A q \in rows : Brings(e, q) => q \in Held') /\ upto <= upto'
        BY <1>7, <1>9, <1>10, <1>11, <3>2, <3>4, <3>5
    <3> QED
        BY <1>2, <2>3, <3>8, <3>9, HeadStep DEF e
  <2> QED
    BY <2>4, <2>5
<1> QED
    BY <1>13, <1>14, <1>15

LEMMA ProcessPositionAlone ==
    ASSUME NEW w, Alone(w), ReplicationInv(w), ProcessPosition
    PROVE  ReplicationInv(w)'
<1> DEFINE e == Head(queue)
           v == e.cmd.new
           N == Tail(queue) \o Tagged(chan, conn)
<1>1. WriterSide(w) /\ ReaderSide(w) /\ LineInv(w) /\ w \in Writers
    BY DEF ReplicationInv, Alone
<1>2. /\ proc = Idle /\ queue # <<>> /\ e.cmd.type = "POSITION" /\ queue' = Tail(queue)
      /\ UNCHANGED <<writerVars, streamVars, linkVars, positions, upto, known, applied, chan>>
      /\ UNCHANGED <<seq, rows, tok, minTok, last, fetch, looping, up, breaks, conn, conns>>
    BY DEF ProcessPosition, writerVars, streamVars, linkVars
<1>3. /\ e \in Entries /\ Tail(queue) \in Seq(Entries)
      /\ 1 \in 1 .. Len(Line) /\ Line[1] = e
      /\ N \in Seq(Entries) /\ Without(N, Line, 1)
    BY <1>1, <1>2, HeadLine DEF ReaderSide
<1> HIDE DEF e
<1>4. /\ e.conn \in 1 .. conns /\ v <= seq
      /\ \A q \in rows : ~(e.cmd.prev < q[2] /\ q[2] <= v)
  <2>1. IsPosition(e) /\ GoodEntry(e, rows, seq, last[w], conns)
    BY <1>1, <1>2, <1>3 DEF LineInv, GoodLine, IsPosition
  <2> QED
    BY <2>1 DEF GoodEntry
<1>5. e.cmd.w = w /\ v \in Nat /\ e.cmd.prev \in Nat /\ e.cmd \in Commands /\ e.conn \in Nat
  <2>1. /\ e.cmd.w \in Writers /\ v \in Nat /\ e.cmd.prev \in Nat /\ e.cmd \in Commands
        /\ e.conn \in Nat
    BY <1>2, <1>3 DEF Entries, Commands
  <2> QED
    BY <2>1 DEF Alone
<1>6. /\ \A q \in rows : q \in RowType /\ q[2] \in Nat
      /\ seq \in Nat /\ upto \in Nat /\ upto <= seq /\ conns \in Nat /\ conn \in Nat
    BY <1>1 DEF WriterSide, ReaderSide, RowType
<1>7. CurrentToken(e.cmd.w) = upto
    BY <1>1, <1>5, CurrentTokenProp
<1>8. CASE CanDiscard(e.cmd, e.conn)
  <2>1. UNCHANGED <<connected, batch, proc>>
    BY <1>8 DEF ProcessPosition, e
  <2>2. v <= upto
    BY <1>7, <1>8 DEF CanDiscard
  <2>3. ReaderSide(w)'
    BY <1>1, <1>2, <1>3, <2>1 DEF ReaderSide
  <2>4. Held' = Held /\ upto <= upto'
    BY <1>2, <1>6, <2>1 DEF Held
  <2>5. \A q \in rows : Brings(e, q) => q \in Held
    <3> SUFFICES ASSUME NEW q \in rows, Brings(e, q)
                 PROVE  q[2] <= upto
        BY DEF Held, Upto
    <3>1. q[2] <= v
        BY <1>2 DEF Brings, IsRdata
    <3> HIDE DEF v
    <3> QED
        BY <1>5, <1>6, <2>2, <3>1
  <2> HIDE DEF N
  <2> QED
    BY <1>2, <2>1, <2>3, <2>4, <2>5, HeadStep DEF e
<1>9. CASE ~CanDiscard(e.cmd, e.conn)
  <2> DEFINE s == IF MissingUpdates(e.cmd) THEN "fetch" ELSE "caught_up"
  <2>1. /\ connected' = {} /\ batch' = {}
        /\ proc' = [stage |-> s, cmd |-> e.cmd, conn |-> e.conn, from |-> upto, todo |-> {}]
    BY <1>7, <1>9 DEF ProcessPosition, e
  <2>2. s \in {"fetch", "caught_up"}
    OBVIOUS
  <2>3. s = "caught_up" => Upto(rows, v) \subseteq Upto(rows, upto)
    <3> SUFFICES ASSUME ~MissingUpdates(e.cmd), NEW q \in rows, q[2] <= v
                 PROVE  q[2] <= upto
        BY DEF Upto
    <3>1. e.cmd.prev <= upto
        BY <1>7 DEF MissingUpdates
    <3>2. ~(e.cmd.prev < q[2])
        BY <1>4
    <3> QED
        BY <1>5, <1>6, <3>1, <3>2
  <2> HIDE DEF s
  <2>4. /\ proc' \in Procs /\ proc' # Idle
        /\ proc'.stage = s /\ proc'.cmd = e.cmd /\ proc'.conn = e.conn /\ proc'.from = upto
    BY <1>5, <1>6, <2>1, <2>2 DEF Procs, Idle
  <2>5. Handling'
    <3>1. 0 < e.conn /\ e.conn <= conns /\ v <= seq
        BY <1>4, <1>6
    <3> QED
        BY <1>2, <1>6, <2>1, <2>2, <2>3, <2>4, <3>1 DEF Handling
  <2>6. ReaderSide(w)'
    BY <1>1, <1>2, <1>3, <2>1 DEF ReaderSide
  <2>7. WriterSide(w)'
    BY <1>1, <1>2, WriterFrame
  <2>8. Line' = N
    BY <1>2 DEF Line
  <2>9. Held' = Upto(rows, upto) \union Upto(rows, v)
    BY <1>2, <2>1, <2>4 DEF Held
  <2>10. \A c : Counts(c)' <=> c = e.conn
    BY <2>1, <2>4 DEF Counts
  <2>11. ASSUME NEW c, c = e.conn
         PROVE  Chained(N, 0, c, Held', rows, Reach(w, c)')
    <3> DEFINE floor == Upto(rows, upto) \union Upto(rows, v)
               x == IF e.conn = conn THEN last[w] ELSE 0
    <3>1. IsPosition(Line[1])
        BY <1>2, <1>3 DEF IsPosition
    <3>2. Chained(Line, 1, e.conn, floor, rows, x)
        BY <1>1, <1>3, <3>1 DEF LineInv, Starts
    <3>3. /\ Len(N) = Len(Line) - 1
          /\ \A i \in 1 .. Len(N) : N[i] = IF i < 1 THEN Line[i] ELSE Line[i + 1]
        BY <1>3 DEF Without
    <3>4. Line \in Seq(Entries) /\ 1 \in 0 .. Len(Line) /\ ~(1 < 1) /\ 1 - 1 = 0
        BY <1>1, <1>3, LineProp
    <3>5. floor \subseteq floor
        OBVIOUS
    <3> HIDE DEF floor, x, N
    <3>6. Chained(N, IF 1 < 1 THEN 1 ELSE 1 - 1, e.conn, floor, rows, x)
        BY <1>3, <3>2, <3>3, <3>4, <3>5, ChainedRemove
    <3>7. Chained(N, 0, e.conn, floor, rows, x)
        BY <3>4, <3>6
    <3>8. Reach(w, c)' = x
        BY <1>2, <2>11 DEF Reach, x
    <3> QED
        BY <2>9, <2>11, <3>7, <3>8 DEF floor
  <2> HIDE DEF N
  <2>12. /\ GoodLine(N, rows, seq, last[w], conns) /\ Ordered(N)
         /\ Starts(N, rows, upto, last[w], conn)
    <3>1. upto <= upto
        BY <1>6
    <3> QED
        BY <1>1, <1>3, <1>6, <3>1, LineInvRemove
  <2>13. LineInv(w)'
    <3>1. BatchBefore(N, batch', connected')
        BY <2>1 DEF BatchBefore
    <3> QED
        BY <1>2, <2>8, <2>10, <2>11, <2>12, <3>1 DEF LineInv
  <2> QED
    BY <2>5, <2>6, <2>7, <2>13 DEF ReplicationInv
<1> QED
    BY <1>8, <1>9

\* Steps of the reader while it handles a POSITION leave the line alone.
LEMMA HandlingStep ==
    ASSUME NEW w, Alone(w), ReplicationInv(w), proc # Idle,
           ReaderSide(w)', Handling', upto <= upto',
           UNCHANGED <<writerVars, streamVars, linkVars, queue, batch, chan>>,
           \A c : Counts(c)' => Counts(c) /\ Held \subseteq Held'
    PROVE  ReplicationInv(w)'
<1>1. WriterSide(w) /\ ReaderSide(w) /\ LineInv(w) /\ batch = {}
    BY DEF ReplicationInv, Handling
<1>2. UNCHANGED <<seq, rows, tok, minTok, last, fetch, looping, up, breaks, conn, conns, chan,
                  queue, batch>>
    BY DEF writerVars, streamVars, linkVars
<1>3. WriterSide(w)'
    BY <1>1, <1>2, WriterFrame
<1>4. Line' = Line
    BY <1>2 DEF Line
<1>5. /\ GoodLine(Line, rows, seq, last[w], conns) /\ Ordered(Line)
      /\ Starts(Line, rows, upto, last[w], conn)
      /\ \A c \in 1 .. conns : Counts(c) => Chained(Line, 0, c, Held, rows, Reach(w, c))
    BY <1>1 DEF LineInv
<1>6. Starts(Line, rows, upto', last[w], conn)
  <2> DEFINE x == last[w]
             t == upto'
  <2>1. /\ Line \in Seq(Entries) /\ rows \in SUBSET RowType /\ rows \subseteq rows
        /\ upto \in Nat /\ t \in Nat /\ upto <= t /\ x \in Nat
        /\ Starts(Line, rows, upto, x, conn)
    BY <1>1, <1>5, LineProp DEF WriterSide, ReaderSide, Alone
  <2>2. \A q \in rows \ rows : /\ x < q[2]
                               /\ \A j \in 1 .. Len(Line) : IsRdata(Line[j]) => ~Before(q, Line[j].cmd.row)
    OBVIOUS
  <2> HIDE DEF x, t
  <2>3. Starts(Line, rows, t, x, conn)
    BY <2>1, <2>2, StartsGrow
  <2> QED
    BY <2>3 DEF x, t
<1>7. ASSUME NEW c \in 1 .. conns, Counts(c)'
      PROVE  Chained(Line, 0, c, Held', rows, Reach(w, c)')
  <2>1. Chained(Line, 0, c, Held, rows, Reach(w, c)) /\ Held \subseteq Held' /\ Reach(w, c)' = Reach(w, c)
    BY <1>2, <1>5, <1>7 DEF Reach
  <2> QED
    BY <2>1 DEF Chained
<1>8. BatchBefore(Line, batch', connected')
    BY <1>1, <1>2 DEF BatchBefore
<1>9. LineInv(w)'
    BY <1>2, <1>4, <1>5, <1>6, <1>7, <1>8 DEF LineInv
<1> QED
    BY <1>3, <1>9 DEF ReplicationInv

\* What is known while a POSITION is handled.
LEMMA HandlingProp ==
    ASSUME NEW w, Alone(w), ReplicationInv(w), proc.stage # "idle"
    PROVE  /\ WriterSide(w) /\ ReaderSide(w) /\ Handling /\ proc # Idle /\ proc \in Procs
           /\ proc.cmd.type = "POSITION" /\ proc.cmd.w = w
           /\ proc.cmd.new \in Nat /\ proc.cmd.new <= seq
           /\ proc.from \in Nat /\ proc.from <= seq
           /\ connected = {} /\ batch = {}
           /\ seq \in Nat /\ upto \in Nat /\ upto <= seq
           /\ applied = Upto(rows, upto)
           /\ \A q \in rows : q \in RowType /\ q[1] = w /\ q[2] \in Nat /\ q[2] <= seq
           /\ Held = Upto(rows, upto) \union Upto(rows, proc.cmd.new)
           /\ \A c : Counts(c) <=> c = proc.conn
<1>1. WriterSide(w) /\ ReaderSide(w) /\ Handling /\ proc # Idle
    BY DEF ReplicationInv, Idle
<1>2. /\ proc \in Procs /\ proc.cmd.type = "POSITION" /\ proc.cmd.new <= seq /\ proc.from <= seq
      /\ connected = {} /\ batch = {}
    BY <1>1 DEF Handling
<1>3. proc.cmd \in Commands /\ proc.from \in Nat
    BY <1>2 DEF Procs
<1>4. proc.cmd.new \in Nat /\ proc.cmd.w \in Writers
    BY <1>2, <1>3 DEF Commands
<1>5. proc.cmd.w = w
    BY <1>4 DEF Alone
<1>6. /\ seq \in Nat /\ upto \in Nat /\ upto <= seq /\ applied = Upto(rows, upto)
      /\ \A q \in rows : q \in RowType /\ q[1] = w /\ q[2] \in Nat /\ q[2] <= seq
    BY <1>1 DEF WriterSide, ReaderSide, RowType
<1>7. /\ Held = Upto(rows, upto) \union Upto(rows, proc.cmd.new)
      /\ \A c : Counts(c) <=> c = proc.conn
    BY <1>1, <1>2 DEF Held, Counts
<1> QED
    BY <1>1, <1>2, <1>3, <1>4, <1>5, <1>6, <1>7

LEMMA GetUpdatesSinceAlone ==
    ASSUME NEW w, Alone(w), ReplicationInv(w), NEW u \in 1 .. seq, GetUpdatesSince(u)
    PROVE  ReplicationInv(w)'
<1> DEFINE S == RowsBetween(proc.cmd.w, proc.from, u)
<1>1. proc.stage = "fetch"
    BY DEF GetUpdatesSince
<1>2. /\ WriterSide(w) /\ ReaderSide(w) /\ Handling /\ proc # Idle /\ proc \in Procs
      /\ proc.cmd.w = w /\ proc.from \in Nat /\ proc.from <= seq /\ seq \in Nat /\ upto \in Nat
      /\ \A q \in rows : q \in RowType /\ q[1] = w /\ q[2] \in Nat
    BY <1>1, HandlingProp
<1>3. /\ proc' = [proc EXCEPT !.stage = "apply", !.from = u, !.todo = S]
      /\ UNCHANGED <<writerVars, streamVars, linkVars, queue, batch, chan>>
      /\ UNCHANGED <<seq, rows, last, conn, conns, connected, positions, upto, known, applied>>
    BY DEF GetUpdatesSince, writerVars, streamVars, linkVars
<1>4. S \subseteq rows /\ \A q \in rows : q \in S <=> proc.from < q[2] /\ q[2] <= u
    BY <1>2 DEF RowsBetween
<1>5. S \in SUBSET RowType /\ u \in Nat /\ u <= seq
    BY <1>2, <1>4
<1> HIDE DEF S
<1>6. /\ proc' \in Procs /\ proc'.stage = "apply" /\ proc'.from = u /\ proc'.todo = S
      /\ proc'.cmd = proc.cmd /\ proc'.conn = proc.conn
    BY <1>2, <1>3, <1>5 DEF Procs
<1>7. proc' # Idle
    BY <1>6 DEF Idle
<1>8. S \subseteq Upto(rows, u) /\ Upto(rows, u) \subseteq Upto(rows, upto) \union S
  <2>1. Upto(rows, proc.from) \subseteq Upto(rows, upto)
    BY <1>1, <1>2 DEF Handling
  <2>2. Upto(rows, u) \subseteq Upto(rows, proc.from) \union S
    BY <1>2, <1>4 DEF Upto
  <2>3. S \subseteq Upto(rows, u)
    BY <1>4 DEF Upto
  <2> QED
    BY <2>1, <2>2, <2>3
<1>9. Handling'
    BY <1>2, <1>3, <1>5, <1>6, <1>7, <1>8 DEF Handling
<1>10. ReaderSide(w)'
    BY <1>2, <1>3 DEF ReaderSide
<1>11. Held' = Held /\ \A c : Counts(c)' = Counts(c)
    BY <1>2, <1>3, <1>6, <1>7 DEF Held, Counts
<1>12. upto <= upto'
    BY <1>2, <1>3
<1> QED
    BY <1>2, <1>3, <1>9, <1>10, <1>11, <1>12, HandlingStep

LEMMA ApplyUpdatesAlone ==
    ASSUME NEW w, Alone(w), ReplicationInv(w), ApplyUpdates
    PROVE  ReplicationInv(w)'
<1> DEFINE ids == {q[2] : q \in proc.todo}
           id  == Min(ids)
           new == {q \in proc.todo : q[2] = id}
<1>1. /\ proc.stage = "apply" /\ proc.todo # {} /\ OnRdata(proc.cmd.w, id, new)
      /\ proc' = [proc EXCEPT !.todo = proc.todo \ new]
      /\ UNCHANGED <<writerVars, streamVars, linkVars, queue, batch, chan>>
      /\ UNCHANGED <<seq, rows, last, conn, conns, connected>>
    BY DEF ApplyUpdates, writerVars, streamVars, linkVars
<1>2. /\ WriterSide(w) /\ ReaderSide(w) /\ Handling /\ proc # Idle /\ proc \in Procs
      /\ proc.cmd.w = w /\ proc.from \in Nat /\ proc.from <= seq
      /\ seq \in Nat /\ upto \in Nat /\ upto <= seq /\ applied = Upto(rows, upto)
      /\ \A q \in rows : q \in RowType /\ q[1] = w /\ q[2] \in Nat /\ q[2] <= seq
    BY <1>1, HandlingProp
<1>3. /\ proc.todo \subseteq Upto(rows, proc.from)
      /\ Upto(rows, proc.from) \subseteq Upto(rows, upto) \union proc.todo
    BY <1>1, <1>2 DEF Handling
<1>4. \A q \in proc.todo : q \in rows /\ q[2] \in Nat /\ q[2] <= proc.from
    BY <1>2, <1>3 DEF Upto
<1>5. id \in ids /\ \A x \in ids : id <= x
  <2>1. ids \in SUBSET Nat /\ ids # {}
    BY <1>1, <1>4
  <2> HIDE DEF ids
  <2> QED
    BY <2>1, MinNat
<1>6. id \in Nat /\ id <= proc.from /\ id <= seq /\ \A q \in proc.todo : id <= q[2]
    BY <1>2, <1>4, <1>5
<1> HIDE DEF id, ids
<1>7. new \subseteq rows /\ \A q \in rows : q \in new <=> q \in proc.todo /\ q[2] = id
    BY <1>4
<1>8. OnRdata(w, id, new)
    BY <1>1, <1>2
<1> HIDE DEF new
<1>9. /\ upto' = MaxOf2(id, upto) /\ upto' \in Nat /\ upto <= upto' /\ id <= upto'
      /\ positions' \in [Writers -> Nat] /\ positions'[w] = upto'
      /\ known' = {} /\ applied' = applied \union new
    BY <1>2, <1>6, <1>8, OnRdataProp
<1>10. upto' <= seq /\ (upto' = id \/ upto' = upto)
    BY <1>2, <1>6, <1>9 DEF MaxOf2
<1>11. Upto(rows, upto) \subseteq Upto(rows, upto') /\ new \subseteq Upto(rows, upto')
    BY <1>2, <1>6, <1>7, <1>9 DEF Upto
<1>12. Upto(rows, upto') \subseteq Upto(rows, upto) \union new
  <2>1. CASE upto' = upto
    BY <2>1
  <2>2. CASE upto' = id
    <3> SUFFICES ASSUME NEW q \in rows, q[2] <= id, ~(q[2] <= upto)
                 PROVE  q \in new
        BY <2>2 DEF Upto
    <3>1. q[2] <= proc.from
        BY <1>2, <1>6
    <3>2. q \in proc.todo
        BY <1>3, <3>1 DEF Upto
    <3>3. q[2] = id
        BY <1>2, <1>6, <3>2
    <3> QED
        BY <1>7, <3>2, <3>3
  <2> QED
    BY <1>10, <2>1, <2>2
<1>13. ReaderSide(w)'
  <2>1. applied' = Upto(rows', upto') /\ upto' <= seq'
    BY <1>1, <1>2, <1>9, <1>10, <1>11, <1>12
  <2> QED
    BY <1>1, <1>2, <1>9, <2>1 DEF ReaderSide
<1>14. /\ proc' \in Procs /\ proc'.stage = proc.stage /\ proc'.from = proc.from
       /\ proc'.todo = proc.todo \ new /\ proc'.cmd = proc.cmd /\ proc'.conn = proc.conn
    BY <1>1, <1>2 DEF Procs
<1>15. proc' # Idle
    BY <1>1, <1>14 DEF Idle
<1>16. /\ proc.todo \ new \subseteq Upto(rows, proc.from)
       /\ Upto(rows, proc.from) \subseteq Upto(rows, upto') \union (proc.todo \ new)
    BY <1>3, <1>11
<1>17. Handling'
    BY <1>1, <1>2, <1>14, <1>15, <1>16 DEF Handling
<1>18. Held \subseteq Held' /\ \A c : Counts(c)' = Counts(c)
    BY <1>1, <1>2, <1>11, <1>14, <1>15 DEF Held, Counts
<1> QED
    BY <1>1, <1>2, <1>9, <1>13, <1>17, <1>18, HandlingStep

LEMMA FetchedAllAlone ==
    ASSUME NEW w, Alone(w), ReplicationInv(w), FetchedAll
    PROVE  ReplicationInv(w)'
<1> DEFINE s == IF proc.from < proc.cmd.new THEN "fetch" ELSE "caught_up"
<1>1. /\ proc.stage = "apply" /\ proc.todo = {} /\ proc' = [proc EXCEPT !.stage = s]
      /\ UNCHANGED <<writerVars, streamVars, linkVars, queue, batch, chan>>
      /\ UNCHANGED <<seq, rows, last, conn, conns, connected, positions, upto, known, applied>>
    BY DEF FetchedAll, writerVars, streamVars, linkVars
<1>2. /\ WriterSide(w) /\ ReaderSide(w) /\ Handling /\ proc # Idle /\ proc \in Procs
      /\ proc.from \in Nat /\ proc.cmd.new \in Nat /\ upto \in Nat
      /\ \A q \in rows : q[2] \in Nat
    BY <1>1, HandlingProp
<1>3. Upto(rows, proc.from) \subseteq Upto(rows, upto)
    BY <1>1, <1>2 DEF Handling
<1>4. s = "caught_up" => Upto(rows, proc.cmd.new) \subseteq Upto(rows, upto)
  <2> SUFFICES ASSUME ~(proc.from < proc.cmd.new)
               PROVE  Upto(rows, proc.cmd.new) \subseteq Upto(rows, proc.from)
    BY <1>3
  <2> QED
    BY <1>2 DEF Upto
<1>5. s \in {"fetch", "caught_up"}
    OBVIOUS
<1> HIDE DEF s
<1>6. /\ proc' \in Procs /\ proc'.stage = s /\ proc'.from = proc.from
      /\ proc'.todo = proc.todo /\ proc'.cmd = proc.cmd /\ proc'.conn = proc.conn
    BY <1>1, <1>2, <1>5 DEF Procs
<1>7. proc' # Idle
    BY <1>5, <1>6 DEF Idle
<1>8. Handling'
    BY <1>1, <1>2, <1>3, <1>4, <1>5, <1>6, <1>7 DEF Handling
<1>9. ReaderSide(w)'
    BY <1>1, <1>2 DEF ReaderSide
<1>10. Held' = Held /\ \A c : Counts(c)' = Counts(c)
    BY <1>1, <1>2, <1>6, <1>7 DEF Held, Counts
<1>11. upto <= upto'
    BY <1>1, <1>2
<1> QED
    BY <1>1, <1>2, <1>8, <1>9, <1>10, <1>11, HandlingStep

LEMMA OnPositionAlone ==
    ASSUME NEW w, Alone(w), ReplicationInv(w), OnPosition
    PROVE  ReplicationInv(w)'
<1> DEFINE v == proc.cmd.new
<1>1. /\ proc.stage = "caught_up" /\ OnRdata(proc.cmd.w, v, {})
      /\ proc' = [proc EXCEPT !.stage = "connect"]
      /\ UNCHANGED <<writerVars, streamVars, linkVars, queue, batch, chan>>
      /\ UNCHANGED <<seq, rows, last, conn, conns, connected>>
    BY DEF OnPosition, writerVars, streamVars, linkVars
<1>2. /\ WriterSide(w) /\ ReaderSide(w) /\ Handling /\ proc # Idle /\ proc \in Procs
      /\ proc.cmd.w = w /\ v \in Nat /\ v <= seq
      /\ seq \in Nat /\ upto \in Nat /\ upto <= seq /\ applied = Upto(rows, upto)
      /\ \A q \in rows : q[2] \in Nat
    BY <1>1, HandlingProp
<1>3. Upto(rows, v) \subseteq Upto(rows, upto)
    BY <1>1, <1>2 DEF Handling
<1>4. OnRdata(w, v, {})
    BY <1>1, <1>2
<1> HIDE DEF v
<1>5. /\ upto' = MaxOf2(v, upto) /\ upto' \in Nat /\ upto <= upto' /\ v <= upto'
      /\ positions' \in [Writers -> Nat] /\ positions'[w] = upto'
      /\ known' = {} /\ applied' = applied \union {}
    BY <1>2, <1>4, OnRdataProp
<1>6. upto' <= seq /\ (upto' = v \/ upto' = upto)
    BY <1>2, <1>5 DEF MaxOf2
<1>7. Upto(rows, upto') = Upto(rows, upto)
  <2>1. CASE upto' = upto
    BY <2>1
  <2>2. CASE upto' = v
    <3>1. Upto(rows, upto) \subseteq Upto(rows, upto')
        BY <1>2, <1>5 DEF Upto
    <3> QED
        BY <1>3, <2>2, <3>1
  <2> QED
    BY <1>6, <2>1, <2>2
<1>8. ReaderSide(w)'
  <2>1. applied' = Upto(rows', upto') /\ upto' <= seq'
    BY <1>1, <1>2, <1>5, <1>6, <1>7
  <2> QED
    BY <1>1, <1>2, <1>5, <2>1 DEF ReaderSide
<1>9. /\ proc' \in Procs /\ proc'.stage = "connect" /\ proc'.from = proc.from
      /\ proc'.todo = proc.todo /\ proc'.cmd = proc.cmd /\ proc'.conn = proc.conn
    BY <1>1, <1>2 DEF Procs
<1>10. proc' # Idle
    BY <1>9 DEF Idle
<1>11. Handling'
    BY <1>1, <1>2, <1>5, <1>9, <1>10 DEF Handling, v
<1>12. Held \subseteq Held' /\ \A c : Counts(c)' = Counts(c)
    BY <1>1, <1>2, <1>7, <1>9, <1>10 DEF Held, Counts
<1> QED
    BY <1>1, <1>2, <1>5, <1>8, <1>11, <1>12, HandlingStep

LEMMA ConnectAlone ==
    ASSUME NEW w, Alone(w), ReplicationInv(w), Connect \/ ProcessFails
    PROVE  ReplicationInv(w)'
<1>1. /\ proc.stage # "idle" /\ proc' = Idle
      /\ UNCHANGED <<writerVars, streamVars, linkVars, queue, batch, chan>>
      /\ UNCHANGED <<seq, rows, last, conn, conns, positions, upto, known, applied>>
    BY DEF Connect, ProcessFails, writerVars, streamVars, linkVars
<1>2. /\ WriterSide(w) /\ ReaderSide(w) /\ Handling /\ proc # Idle /\ proc \in Procs
      /\ proc.cmd.new \in Nat /\ connected = {} /\ batch = {} /\ upto \in Nat
      /\ \A q \in rows : q[2] \in Nat
      /\ Held = Upto(rows, upto) \union Upto(rows, proc.cmd.new)
      /\ \A c : Counts(c) <=> c = proc.conn
    BY <1>1, HandlingProp
<1>3. Handling' /\ upto <= upto'
    BY <1>1, <1>2 DEF Handling
<1>4. /\ proc.conn \in Nat /\ 0 < proc.conn /\ proc.conn <= conns /\ conns \in Nat
    BY <1>2 DEF Handling, Procs, ReaderSide
<1>5. CASE ProcessFails
  <2>1. connected' = connected
    BY <1>5 DEF ProcessFails
  <2>2. ReaderSide(w)'
    BY <1>1, <1>2, <2>1 DEF ReaderSide
  <2>3. \A c : ~Counts(c)'
    BY <1>1, <1>2, <2>1 DEF Counts
  <2> QED
    BY <1>1, <1>2, <1>3, <2>2, <2>3, HandlingStep
<1>6. CASE Connect
  <2>1. connected' = connected \union {proc.conn} /\ proc.stage = "connect"
    BY <1>6 DEF Connect
  <2>2. connected' = {proc.conn} /\ proc.conn \in 1 .. conns
    BY <1>2, <1>4, <2>1
  <2>3. ReaderSide(w)'
    BY <1>1, <1>2, <2>2 DEF ReaderSide
  <2>4. proc.cmd.new <= upto
    BY <1>2, <2>1 DEF Handling
  <2>5. Held \subseteq Held'
    <3>1. Upto(rows, proc.cmd.new) \subseteq Upto(rows, upto)
        BY <1>2, <2>4 DEF Upto
    <3>2. Held' = Upto(rows, upto) \union batch
        BY <1>1 DEF Held
    <3> QED
        BY <1>2, <3>1, <3>2
  <2>6. \A c : Counts(c)' => Counts(c)
    BY <1>1, <1>2, <2>2 DEF Counts
  <2> QED
    BY <1>1, <1>2, <1>3, <2>3, <2>5, <2>6, HandlingStep
<1> QED
    BY <1>5, <1>6

-----------------------------------------------------------------------------
(***************************************************************************)
(* One writer: the theorems                                                *)
(***************************************************************************)

LEMMA ReplicationStart ==
    ASSUME NEW w, Alone(w), Init
    PROVE  ReplicationInv(w)
<1>1. w \in Writers
    BY DEF Alone
<1>2. queue = <<>> /\ chan = <<>> /\ conn = 1 /\ conns = 1 /\ connected = {1} /\ rows = {}
    BY DEF Init
<1>3. WriterSide(w)
  <2>1. IsFiniteSet(rows)
    BY <1>2, FS_EmptySet
  <2>2. looping = [x \in Writers |-> FALSE] /\ up = [x \in Writers |-> TRUE]
    BY DEF Init
  <2>3. DOMAIN looping = Writers /\ ~looping[w] /\ up[w]
    BY <1>1, <2>2
  <2> QED
    BY <1>1, <1>2, <2>1, <2>3 DEF Init, WriterSide
<1>4. ReaderSide(w)
    BY <1>1, <1>2 DEF Init, ReaderSide, Upto
<1>5. Handling
    BY DEF Init, Handling
<1>6. Len(Line) = 0
  <2>1. Len(Line) = Len(queue) + Len(chan)
    BY <1>4, LineProp
  <2> QED
    BY <1>2, <2>1
<1>7. LineInv(w)
    BY <1>2, <1>6 DEF LineInv, GoodLine, Ordered, BatchBefore, Starts, Chained
<1> QED
    BY <1>3, <1>4, <1>5, <1>7 DEF ReplicationInv

LEMMA ReplicationStep ==
    ASSUME NEW w, Alone(w), ReplicationInv(w), [Next]_vars
    PROVE  ReplicationInv(w)'
<1>1. \A x \in Writers : x = w
    BY DEF Alone
<1>2. CASE UNCHANGED vars
  <2>1. UNCHANGED <<seq, rows, tok, minTok, last, fetch, looping, up, breaks, conn, conns,
                    readerVars, chan>>
    BY <1>2 DEF vars, writerVars, streamVars, linkVars
  <2> QED
    BY <2>1, WriterFrame, ReaderFrame DEF ReplicationInv
<1>3. CASE \E x \in Writers, n \in 0 .. MaxRows : Write(x, n)
    BY <1>1, <1>3, WriteAlone
<1>4. CASE \E x \in Writers : Streamer(x)
  <2>1. PICK x \in Writers : Streamer(x)
    BY <1>4
  <2>2. Poke(w) \/ \E u \in 1 .. seq : GetUpdates(w, u)
    BY <1>1, <2>1 DEF Streamer
  <2> QED
    BY <2>2, PokeAlone, GetUpdatesAlone
<1>5. CASE \E x \in Writers : \/ GetUpdatesFails(x) \/ OnReplicate(x)
                              \/ SendPositionsToConnection(x)
                              \/ WriterDown(x) \/ WriterUp(x)
    BY <1>1, <1>5, QuietAlone
<1>6. ~ \E x, y \in Writers : Carry(x, y)
    BY <1>1 DEF Carry
<1>7. CASE ReaderDown \/ ReaderUp \/ Deliver
    BY <1>7, ReaderDownAlone, ReaderUpAlone, DeliverAlone
<1>8. CASE Handler
    BY <1>8, ProcessRdataAlone, ProcessPositionAlone, GetUpdatesSinceAlone, ApplyUpdatesAlone,
       FetchedAllAlone, OnPositionAlone, ConnectAlone DEF Handler
<1>9. CASE ProcessFails
    BY <1>9, ConnectAlone
<1> QED
    BY <1>2, <1>3, <1>4, <1>5, <1>6, <1>7, <1>8, <1>9 DEF Next, HealthyNext, AloneNext, Failures

\* With a single writer that keeps its connection, whatever connections the
\* reader loses and however reads are cut short or fail: the reader has handled
\* every row at or below its position (NoMissedRows).
THEOREM NoRowIsMissed ==
    ASSUME NEW w, Alone(w)
    PROVE  Spec => []NoMissedRows
<1>1. ReplicationInv(w) => NoMissedRows
  <2> SUFFICES ASSUME ReplicationInv(w), NEW r \in rows, r[2] <= CurrentToken(r[1])
               PROVE  r \in applied
    BY DEF NoMissedRows
  <2>1. ReaderSide(w) /\ r[1] = w /\ w \in Writers
    BY DEF ReplicationInv, WriterSide, Alone
  <2>2. CurrentToken(r[1]) = upto
    BY <2>1, CurrentTokenProp
  <2> QED
    BY <2>1, <2>2 DEF ReaderSide, Upto
<1>2. Init => ReplicationInv(w)
    BY ReplicationStart
<1>3. ReplicationInv(w) /\ [Next]_vars => ReplicationInv(w)'
    BY ReplicationStep
<1> QED
    BY <1>1, <1>2, <1>3, PTL DEF Spec

\* A step writes, or moves the reader's position up, or does neither.
LEMMA StepMoves ==
    ASSUME NEW w, Alone(w), ReplicationInv(w), [Next]_vars
    PROVE  \/ /\ UNCHANGED <<rows, tok>>
              /\ upto <= upto'
           \/ /\ \E n \in 0 .. MaxRows : Write(w, n)
              /\ UNCHANGED <<upto, applied>>
<1>1. ReaderSide(w) /\ upto \in Nat /\ \A x \in Writers : x = w
    BY DEF ReplicationInv, ReaderSide, Alone
<1>2. CASE \E x \in Writers, n \in 0 .. MaxRows : Write(x, n)
    BY <1>1, <1>2 DEF Write, readerVars
<1>3. CASE UNCHANGED <<rows, tok, upto>>
    BY <1>1, <1>3
<1>4. CASE UNCHANGED vars
    BY <1>3, <1>4 DEF vars, writerVars, readerVars
<1>5. CASE \E x \in Writers : \/ Streamer(x) \/ GetUpdatesFails(x) \/ OnReplicate(x)
                              \/ SendPositionsToConnection(x)
                              \/ WriterDown(x) \/ WriterUp(x)
    BY <1>3, <1>5 DEF Streamer, Poke, GetUpdates, GetUpdatesFails, OnReplicate,
                      SendPositionsToConnection, WriterDown, WriterUp, writerVars, readerVars
<1>6. CASE ReaderDown \/ ReaderUp \/ Deliver
    BY <1>3, <1>6 DEF ReaderDown, ReaderUp, Deliver, writerVars, readerVars
<1>7. CASE ProcessPosition \/ (\E u \in 1 .. seq : GetUpdatesSince(u)) \/ FetchedAll \/ Connect
           \/ ProcessFails
    BY <1>3, <1>7 DEF ProcessPosition, GetUpdatesSince, FetchedAll, Connect, ProcessFails, writerVars
<1>8. CASE ProcessRdata
  <2> DEFINE e == Head(queue)
  <2>1. UNCHANGED <<rows, tok>>
    BY <1>8 DEF ProcessRdata, writerVars
  <2>2. upto' = upto \/ OnRdata(e.cmd.w, e.cmd.token, batch \union {e.cmd.row})
    BY <1>8 DEF ProcessRdata
  <2>3. queue # <<>> /\ e.cmd.type = "RDATA"
    BY <1>8 DEF ProcessRdata
  <2>4. e \in Entries
    BY <1>1, <2>3, HeadLine DEF ReaderSide
  <2> HIDE DEF e
  <2>5. e.cmd.w \in Writers /\ e.cmd.token \in Nat
    BY <2>3, <2>4 DEF Entries, Commands
  <2>6. e.cmd.w = w
    BY <1>1, <2>5
  <2>7. CASE OnRdata(e.cmd.w, e.cmd.token, batch \union {e.cmd.row})
    <3>1. upto <= upto'
        BY <1>1, <2>5, <2>6, <2>7, OnRdataProp
    <3> QED
        BY <2>1, <3>1
  <2> QED
    BY <1>3, <2>1, <2>2, <2>7
<1>9. CASE ApplyUpdates
  <2> DEFINE ids == {q[2] : q \in proc.todo}
             id  == Min(ids)
             new == {q \in proc.todo : q[2] = id}
  <2>1. /\ UNCHANGED <<rows, tok>> /\ proc.stage = "apply" /\ proc.todo # {}
        /\ OnRdata(proc.cmd.w, id, new)
    BY <1>9 DEF ApplyUpdates, writerVars
  <2>2. proc.cmd.w = w /\ proc \in Procs
    BY <2>1, HandlingProp
  <2>3. ids \in SUBSET Nat /\ ids # {}
    BY <2>1, <2>2 DEF Procs, RowType
  <2> HIDE DEF ids
  <2>4. id \in Nat
    BY <2>3, MinNat
  <2> HIDE DEF id, new
  <2>5. upto <= upto'
    BY <1>1, <2>1, <2>2, <2>4, OnRdataProp
  <2> QED
    BY <2>1, <2>5
<1>10. CASE OnPosition
  <2>1. UNCHANGED <<rows, tok>> /\ proc.stage = "caught_up" /\ OnRdata(proc.cmd.w, proc.cmd.new, {})
    BY <1>10 DEF OnPosition, writerVars
  <2>2. proc.cmd.w = w /\ proc.cmd.new \in Nat
    BY <2>1, HandlingProp
  <2>3. upto <= upto'
    BY <1>1, <2>1, <2>2, OnRdataProp
  <2> QED
    BY <2>1, <2>3
<1>11. ~ \E x, y \in Writers : Carry(x, y)
    BY <1>1 DEF Carry
<1> QED
    BY <1>2, <1>4, <1>5, <1>6, <1>7, <1>8, <1>9, <1>10, <1>11
       DEF Next, HealthyNext, AloneNext, Failures, Handler

LEMMA StepImplements ==
    ASSUME NEW w, Alone(w), ReplicationInv(w), ReplicationInv(w)', [Next]_vars
    PROVE  [Abstract!Next]_Abstract!vars
<1> DEFINE position == [x \in Writers |-> CurrentToken(x)]
<1>1. w \in Writers /\ Writers = {w}
    BY DEF Alone
<1>2. /\ ReaderSide(w) /\ upto \in Nat /\ applied = Upto(rows, upto)
      /\ seq \in Nat /\ tok \in [Writers -> Nat] /\ tok[w] = seq
      /\ \A q \in rows : q[1] = w /\ q[2] \in Nat /\ q[2] <= seq
    BY DEF ReplicationInv, ReaderSide, WriterSide, RowType
<1>3. /\ ReaderSide(w)' /\ upto' \in Nat /\ upto' <= seq' /\ applied' = Upto(rows', upto')
      /\ tok' \in [Writers -> Nat] /\ tok'[w] = seq'
    BY DEF ReplicationInv, ReaderSide, WriterSide
<1>4. position = [x \in Writers |-> upto] /\ position' = [x \in Writers |-> upto']
  <2>1. \A x \in Writers : CurrentToken(x) = upto
    BY <1>2, CurrentTokenProp
  <2>2. \A x \in Writers : CurrentToken(x)' = upto'
    BY <1>1, <1>3 DEF ReaderSide, CurrentToken, MaxOf2
  <2> QED
    BY <2>1, <2>2
<1> HIDE DEF position
<1>5. CASE UNCHANGED <<rows, tok>> /\ upto' = upto
  <2>1. UNCHANGED <<rows, tok, position, applied>>
    BY <1>2, <1>3, <1>4, <1>5
  <2> QED
    BY <2>1 DEF Abstract!vars, position
<1>6. CASE UNCHANGED <<rows, tok>> /\ upto < upto'
  <2>1. /\ position[w] = upto /\ position'[w] = upto'
        /\ position' = [position EXCEPT ![w] = upto']
    BY <1>1, <1>4
  <2>2. upto' <= tok[w]
    BY <1>1, <1>2, <1>3, <1>6
  <2>3. applied' = applied \union {r \in rows : r[1] = w /\ upto < r[2] /\ r[2] <= upto'}
    BY <1>2, <1>3, <1>6 DEF Upto
  <2>4. Abstract!Follow(w)
    BY <1>6, <2>1, <2>2, <2>3 DEF Abstract!Follow, position
  <2> QED
    BY <1>1, <2>4 DEF Abstract!Next
<1>7. CASE (\E n \in 0 .. MaxRows : Write(w, n)) /\ UNCHANGED <<upto, applied>>
  <2>1. PICK n \in 0 .. MaxRows : Write(w, n)
    BY <1>7
  <2> DEFINE T == {<<w, seq + 1, k>> : k \in 1 .. n}
  <2>2. rows' = rows \union T /\ tok' = [tok EXCEPT ![w] = seq + 1]
    BY <2>1 DEF Write
  <2>3. \A r \in T : r[1] = w /\ r[2] = seq + 1
    OBVIOUS
  <2> HIDE DEF T
  <2>4. UNCHANGED <<position, applied>> /\ rows \subseteq rows'
    BY <1>4, <1>7, <2>2
  <2>5. tok'[w] = seq + 1 /\ tok[w] < tok'[w] /\ tok' = [tok EXCEPT ![w] = tok'[w]]
    BY <1>1, <1>2, <2>2
  <2>6. \A r \in rows' \ rows : r[1] = w /\ tok[w] < r[2] /\ r[2] <= tok'[w]
    BY <1>2, <2>2, <2>3, <2>5
  <2>7. Abstract!Append(w)
    BY <2>4, <2>5, <2>6 DEF Abstract!Append, position
  <2> QED
    BY <1>1, <2>7 DEF Abstract!Next
<1> QED
    BY <1>2, <1>3, <1>5, <1>6, <1>7, StepMoves

\* Under the same conditions replication implements ReplicatedStream
\* (ImplementsReplicatedStream): whenever the reader's position moves, it has
\* handled exactly the rows in between, in that step.
THEOREM FollowsTheStream ==
    ASSUME NEW w, Alone(w)
    PROVE  Spec => ImplementsReplicatedStream
<1>1. Init => Abstract!Init
  <2> SUFFICES ASSUME Init
               PROVE  Abstract!Init
    OBVIOUS
  <2>1. \A x \in Writers : CurrentToken(x) = 1
    BY DEF Init, CurrentToken, MaxOf2
  <2> QED
    BY <2>1 DEF Init, Abstract!Init
<1>2. Init => ReplicationInv(w)
    BY ReplicationStart
<1>3. ReplicationInv(w) /\ [Next]_vars => ReplicationInv(w)'
    BY ReplicationStep
<1>4. ReplicationInv(w) /\ ReplicationInv(w)' /\ [Next]_vars => [Abstract!Next]_Abstract!vars
    BY StepImplements
<1> QED
    BY <1>1, <1>2, <1>3, <1>4, PTL DEF Spec, ImplementsReplicatedStream, Abstract!Spec
=============================================================================
