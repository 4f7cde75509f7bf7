---------------------------- MODULE GuardCellsProofs ----------------------------
(***************************************************************************)
(* Proofs about guard cells, for every grid of ranks and every size of     *)
(* the grid and of the guard cells.  What is in a cell at any moment is    *)
(* the product of what has come to it along each axis (Has): a sweep along *)
(* one axis leaves what came along the others as it is.  So the values of  *)
(* every rank are known from the call it is at (Expected), and so are the  *)
(* messages under way (ChannelInv): the inductive invariant is that they   *)
(* are as expected (AsExpected).  That both sweeps achieve what they are   *)
(* for is then a fact about one axis (SameCell, Copied), from which follow *)
(* SumsComplete and RanksAgree.  As the messages under way are known, the  *)
(* ranks also never all wait (NeverAllWaitHolds).                          *)
(***************************************************************************)
EXTENDS GuardCells, CountingLemmas, SequenceTheorems

--------------------------------------------------------------------------------
LEMMA AxisCases ==
  ASSUME NEW k \in Axis
  PROVE  /\ k \in 1 .. 3 /\ Dim \in 1 .. 3 /\ k <= Dim
         /\ Dim = 1 => k = 1
         /\ Dim = 2 => k = 1 \/ k = 2
         /\ Dim = 3 => k = 1 \/ k = 2 \/ k = 3
BY DimAssumption DEF Axis

LEMMA Boxes ==
  ASSUME NEW B \in [Axis -> Nat]
  PROVE  {c \in [Axis -> 0 .. Max({B[k] : k \in Axis}) - 1] : \A k \in Axis : c[k] < B[k]}
           = {c \in [Axis -> Nat] : \A k \in Axis : c[k] < B[k]}
<1> DEFINE E == {B[k] : k \in Axis}
<1>1. \E x \in E : \A y \in E : x >= y
  <2>1. \A k \in Axis : B[k] \in Nat
    OBVIOUS
  <2>2. CASE Dim = 1
    BY <2>1, <2>2 DEF Axis
  <2>3. CASE Dim = 2
    BY <2>1, <2>3 DEF Axis
  <2>4. CASE Dim = 3
    <3>1. B[1] \in Nat /\ B[2] \in Nat /\ B[3] \in Nat
      BY <2>1, <2>4 DEF Axis
    <3>2. \A y \in E : y = B[1] \/ y = B[2] \/ y = B[3]
      BY <2>4 DEF Axis
    <3>3. B[1] \in E /\ B[2] \in E /\ B[3] \in E
      BY <2>4 DEF Axis
    <3>4. CASE B[1] >= B[2] /\ B[1] >= B[3]
      BY <3>1, <3>2, <3>3, <3>4
    <3>5. CASE B[2] >= B[1] /\ B[2] >= B[3]
      BY <3>1, <3>2, <3>3, <3>5
    <3>6. CASE B[3] >= B[1] /\ B[3] >= B[2]
      BY <3>1, <3>2, <3>3, <3>6
    <3> QED BY <3>1, <3>4, <3>5, <3>6
  <2> QED BY <2>2, <2>3, <2>4, DimAssumption
<1>2. Max(E) \in E /\ \A k \in Axis : B[k] <= Max(E)
  BY <1>1 DEF Max
<1>3. PICK m \in Nat : m = Max(E)
  BY <1>2
<1>4. ASSUME NEW c \in [Axis -> Nat], \A k \in Axis : c[k] < B[k]
      PROVE  c \in [Axis -> 0 .. m - 1]
  <2>1. \A k \in Axis : c[k] \in 0 .. m - 1
    BY <1>2, <1>3, <1>4
  <2> QED BY <2>1
<1>5. [Axis -> 0 .. m - 1] \subseteq [Axis -> Nat]
  OBVIOUS
<1> QED BY <1>3, <1>4, <1>5

LEMMA Ranks == Rank = {c \in [Axis -> Nat] : \A k \in Axis : c[k] < Extent[k]}
<1>1. Extent \in [Axis -> Nat]
  BY GridOfRanks
<1> QED BY <1>1, Boxes DEF Rank

LEMMA Locals == /\ Local = {c \in [Axis -> Nat] : \A k \in Axis : c[k] < Dims(k)}
                /\ \A k \in Axis : Dims(k) \in Nat
<1> DEFINE B == [k \in Axis |-> Dims(k)]
<1>1. \A k \in Axis : Dims(k) \in Nat
  BY GridAssumption DEF Dims
<1>2. B \in [Axis -> Nat] /\ \A k \in Axis : B[k] = Dims(k)
  BY <1>1
<1>3. {B[k] : k \in Axis} = {Dims(k) : k \in Axis}
  BY <1>2
<1> HIDE DEF B
<1>4. Local = {c \in [Axis -> 0 .. Max({B[k] : k \in Axis}) - 1] : \A k \in Axis : c[k] < B[k]}
  BY <1>2, <1>3 DEF Local
<1> QED BY ZenonT(40), <1>1, <1>2, <1>4, Boxes

\* Remainders of numbers that are off by at most one.
LEMMA Wrap ==
  ASSUME NEW n \in Nat \ {0}, NEW x \in 0 .. n - 1, NEW dir \in {-1, 1}
  PROVE  /\ (x + dir) % n \in 0 .. n - 1
         /\ (((x + dir) % n) - dir) % n = x
<1>1. CASE x + dir \in 0 .. n - 1
  <2>1. (x + dir) % n = x + dir
    BY <1>1
  <2>2. x + dir - dir = x /\ x % n = x
    OBVIOUS
  <2> QED BY <1>1, <2>1, <2>2
<1>2. CASE x + dir = -1
  <2>1. x = 0 /\ dir = -1 /\ (-1) % n = n - 1 /\ n % n = 0
    BY <1>2
  <2>2. n - 1 + 1 = n /\ 0 + (-1) = -1 /\ n - 1 - (-1) = n
    OBVIOUS
  <2> QED BY <2>1, <2>2
<1>3. CASE x + dir = n
  <2>1. x = n - 1 /\ dir = 1 /\ n % n = 0 /\ (-1) % n = n - 1
    BY <1>3
  <2>2. x + dir = n /\ 0 - dir = -1
    BY <1>3, <2>1
  <2> QED BY <2>1, <2>2
<1> QED BY <1>1, <1>2, <1>3

\* The neighbour along one axis: whether there is one, and its coordinate.
Beside(k, i, dir) == Periodic[k] \/ i + dir \in 0 .. Extent[k] - 1
Coordinate(k, i, dir) == IF Periodic[k] THEN (i + dir) % Extent[k] ELSE i + dir

LEMMA CoordinateType ==
  ASSUME NEW k \in Axis, NEW i \in 0 .. Extent[k] - 1, NEW dir \in {-1, 1}, Beside(k, i, dir)
  PROVE  /\ Coordinate(k, i, dir) \in 0 .. Extent[k] - 1
         /\ Beside(k, Coordinate(k, i, dir), -dir)
         /\ Coordinate(k, Coordinate(k, i, dir), -dir) = i
<1>1. PICK e \in Nat \ {0} : e = Extent[k]
  BY GridOfRanks
<1>2. i \in 0 .. e - 1
  BY <1>1
<1>3. (i + dir) % e \in 0 .. e - 1 /\ (((i + dir) % e) - dir) % e = i
  BY <1>2, Wrap
<1>4. ((i + dir) % e) + (-dir) = ((i + dir) % e) - dir
  BY <1>3
<1>5. i + dir + (-dir) = i
  OBVIOUS
<1> QED BY <1>1, <1>3, <1>4, <1>5 DEF Beside, Coordinate

LEMMA NeighbourIs ==
  ASSUME NEW r \in Rank, NEW k \in Axis, NEW dir \in {-1, 1}
  PROVE  /\ r[k] \in 0 .. Extent[k] - 1
         /\ Neighbour(r, k, dir) \in Rank \cup {Null}
         /\ Neighbour(r, k, dir) # Null <=> Beside(k, r[k], dir)
         /\ Beside(k, r[k], dir) =>
              /\ Neighbour(r, k, dir) = [r EXCEPT ![k] = Coordinate(k, r[k], dir)]
              /\ Neighbour(r, k, dir)[k] = Coordinate(k, r[k], dir)
              /\ \A l \in Axis \ {k} : Neighbour(r, k, dir)[l] = r[l]
              /\ Neighbour(Neighbour(r, k, dir), k, -dir) = r
<1>1. /\ r \in [Axis -> Nat] /\ r[k] \in 0 .. Extent[k] - 1
      /\ \A l \in Axis : r[l] < Extent[l]
  BY Ranks, GridOfRanks
<1>2. CASE Beside(k, r[k], dir)
  <2> DEFINE i == Coordinate(k, r[k], dir)
             s == [r EXCEPT ![k] = i]
  <2>1. i \in 0 .. Extent[k] - 1 /\ Beside(k, i, -dir) /\ Coordinate(k, i, -dir) = r[k]
    BY <1>1, <1>2, CoordinateType
  <2>2. Neighbour(r, k, dir) = s
    BY <1>2 DEF Neighbour, Beside, Coordinate
  <2> HIDE DEF i
  <2>3. s \in [Axis -> Nat] /\ s[k] = i /\ \A l \in Axis \ {k} : s[l] = r[l]
    BY <1>1, <2>1
  <2>4. s \in Rank
    <3>1. \A l \in Axis : s[l] < Extent[l]
      BY <1>1, <2>1, <2>3, GridOfRanks
    <3> QED BY <2>3, <3>1, Ranks
  <2>5. Neighbour(s, k, -dir) = [s EXCEPT ![k] = Coordinate(k, i, -dir)]
    BY <2>1, <2>3 DEF Neighbour, Beside, Coordinate
  <2>6. [s EXCEPT ![k] = r[k]] = r
    BY <1>1
  <2> HIDE DEF s
  <2> QED BY <1>1, <1>2, <2>1, <2>2, <2>3, <2>4, <2>5, <2>6, NullIsNoRank DEF s, i
<1>3. CASE ~Beside(k, r[k], dir)
  BY <1>1, <1>3 DEF Neighbour, Beside
<1> QED BY <1>2, <1>3

--------------------------------------------------------------------------------
\* How many of the four operations along axis k a rank is through with at call a: to add
\* to the left and to the right, and to copy to the left and to the right.
Clip(n) == IF n < 0 THEN 0 ELSE IF n > 2 THEN 2 ELSE n
Stage(a, k) == Clip(a + 1 - 2 * k) + Clip(a + 1 - 2 * k - 2 * Dim)
StageOf(o) == IF o.add THEN IF o.dir = -1 THEN 0 ELSE 1
                       ELSE IF o.dir = -1 THEN 2 ELSE 3

LEMMA SweepIs ==
  ASSUME NEW add \in BOOLEAN
  PROVE  /\ Len(Sweep(add)) = 2 * Dim /\ \E S : Sweep(add) \in Seq(S)
         /\ \A i \in 1 .. 2 * Dim :
              /\ Sweep(add)[i].axis = (i + 1) \div 2
              /\ Sweep(add)[i].dir = IF i % 2 = 1 THEN -1 ELSE 1
              /\ Sweep(add)[i].add = add
<1> DEFINE e(i) == [axis |-> (i + 1) \div 2, dir |-> IF i % 2 = 1 THEN -1 ELSE 1, add |-> add,
                    tag |-> IF add \/ Vector THEN 0 ELSE (i - 1) \div 2]
<1>1. Sweep(add) = [i \in 1 .. 2 * Dim |-> e(i)]
  BY DEF Sweep
<1>2. \A i \in 1 .. 2 * Dim : /\ e(i).axis = (i + 1) \div 2
                              /\ e(i).dir = IF i % 2 = 1 THEN -1 ELSE 1
                              /\ e(i).add = add
  OBVIOUS
<1> HIDE DEF e
<1>3. 2 * Dim \in Nat
  BY DimAssumption
<1>4. Sweep(add) \in Seq({e(i) : i \in 1 .. 2 * Dim}) /\ Len(Sweep(add)) = 2 * Dim
  BY <1>1, <1>3
<1> QED BY <1>1, <1>2, <1>4

LEMMA ThePlan ==
  /\ Len(Plan) = 4 * Dim /\ Len(Plan) \in Nat
  /\ \A i \in 1 .. 2 * Dim : /\ Plan[i].axis = (i + 1) \div 2
                             /\ Plan[i].dir = IF i % 2 = 1 THEN -1 ELSE 1
                             /\ Plan[i].add = TRUE
  /\ \A i \in 1 .. 2 * Dim : /\ Plan[i + 2 * Dim].axis = (i + 1) \div 2
                             /\ Plan[i + 2 * Dim].dir = IF i % 2 = 1 THEN -1 ELSE 1
                             /\ Plan[i + 2 * Dim].add = FALSE
<1> DEFINE A == Sweep(TRUE)
           C == Sweep(FALSE)
<1>0. Dim \in Nat
  BY DimAssumption
<1>1. Len(A) = 2 * Dim /\ Len(C) = 2 * Dim
  BY SweepIs
<1>2. PICK S : A \in Seq(S)
  BY SweepIs
<1>3. PICK T : C \in Seq(T)
  BY SweepIs
<1>4. /\ \A i \in 1 .. 2 * Dim : /\ A[i].axis = (i + 1) \div 2
                                 /\ A[i].dir = IF i % 2 = 1 THEN -1 ELSE 1
                                 /\ A[i].add = TRUE
      /\ \A i \in 1 .. 2 * Dim : /\ C[i].axis = (i + 1) \div 2
                                 /\ C[i].dir = IF i % 2 = 1 THEN -1 ELSE 1
                                 /\ C[i].add = FALSE
  BY SweepIs
<1>5. Plan = A \o C
  BY DEF Plan
<1> HIDE DEF A, C
<1>6. /\ Len(Plan) = Len(A) + Len(C)
      /\ \A i \in 1 .. Len(A) + Len(C) :
           Plan[i] = IF i <= Len(A) THEN A[i] ELSE C[i - Len(A)]
  <2>1. A \in Seq(S \cup T) /\ C \in Seq(S \cup T)
    BY <1>2, <1>3
  <2> QED BY <1>5, <2>1, ConcatProperties
<1>7. Len(Plan) = 4 * Dim /\ Len(Plan) \in Nat
  BY <1>0, <1>1, <1>6
<1>8. ASSUME NEW i \in 1 .. 2 * Dim
      PROVE  Plan[i] = A[i] /\ Plan[i + 2 * Dim] = C[i]
  <2>1. /\ i \in 1 .. Len(A) + Len(C) /\ i <= Len(A)
        /\ i + 2 * Dim \in 1 .. Len(A) + Len(C) /\ ~(i + 2 * Dim <= Len(A))
        /\ i + 2 * Dim - Len(A) = i
    BY <1>0, <1>1
  <2>2. Plan[i] = A[i]
    BY <1>6, <2>1
  <2>3. PICK l \in 1 .. Len(A) + Len(C) : l = i + 2 * Dim
    BY <2>1
  <2>4. ~(l <= Len(A)) /\ l - Len(A) = i
    BY <1>0, <1>1, <2>3
  <2>5. Plan[l] = C[l - Len(A)]
    BY <1>6, <2>4
  <2> QED BY <2>2, <2>3, <2>4, <2>5
<1> QED BY <1>4, <1>7, <1>8

LEMMA PlanCases ==
  ASSUME NEW a \in 1 .. Len(Plan)
  PROVE  \E i \in 1 .. 2 * Dim : /\ a = i \/ a = i + 2 * Dim
                                 /\ Plan[a].add = TRUE => a = i
                                 /\ Plan[a].add = FALSE => a = i + 2 * Dim
                                 /\ Plan[a].add \in BOOLEAN
                                 /\ Plan[a].axis = (i + 1) \div 2
                                 /\ Plan[a].dir = IF i % 2 = 1 THEN -1 ELSE 1
<1>1. a \in 1 .. 4 * Dim /\ Dim \in 1 .. 3
  BY ThePlan, DimAssumption
<1>2. CASE a <= 2 * Dim
  <2>1. a \in 1 .. 2 * Dim
    BY <1>1, <1>2
  <2>2. /\ Plan[a].axis = (a + 1) \div 2 /\ Plan[a].add = TRUE
        /\ Plan[a].dir = IF a % 2 = 1 THEN -1 ELSE 1
    BY <2>1, ThePlan
  <2> QED BY <2>1, <2>2
<1>3. CASE ~(a <= 2 * Dim)
  <2>1. PICK i \in 1 .. 2 * Dim : a = i + 2 * Dim
    <3>1. a - 2 * Dim \in 1 .. 2 * Dim /\ a = (a - 2 * Dim) + 2 * Dim
      BY <1>1, <1>3
    <3> QED BY <3>1
  <2>2. /\ Plan[a].axis = (i + 1) \div 2 /\ Plan[a].add = FALSE
        /\ Plan[a].dir = IF i % 2 = 1 THEN -1 ELSE 1
    BY <2>1, ThePlan
  <2> QED BY <2>1, <2>2
<1> QED BY <1>2, <1>3

LEMMA PlanType ==
  ASSUME NEW a \in 1 .. Len(Plan)
  PROVE  /\ Plan[a].axis \in Axis /\ Plan[a].dir \in {-1, 1} /\ -Plan[a].dir \in {-1, 1}
         /\ -(-Plan[a].dir) = Plan[a].dir
         /\ Plan[a].add \in BOOLEAN
<1>1. PICK i \in 1 .. 2 * Dim : /\ Plan[a].axis = (i + 1) \div 2
                                /\ Plan[a].dir = IF i % 2 = 1 THEN -1 ELSE 1
                                /\ Plan[a].add \in BOOLEAN
  BY PlanCases
<1>2. (i + 1) \div 2 \in 1 .. Dim
  BY DimAssumption
<1>3. Plan[a].dir \in {-1, 1}
  BY <1>1
<1>4. \A x \in {-1, 1} : -x \in {-1, 1} /\ -(-x) = x
  OBVIOUS
<1> QED BY <1>1, <1>2, <1>3, <1>4 DEF Axis

LEMMA StageType ==
  ASSUME NEW a \in Int, NEW k \in Axis
  PROVE  Stage(a, k) \in 0 .. 4
BY AxisCases DEF Stage, Clip

\* An operation is the next along its axis, and of no other.
LEMMA StageStep ==
  ASSUME NEW a \in 1 .. Len(Plan), NEW k \in Axis
  PROVE  /\ k # Plan[a].axis => Stage(a + 1, k) = Stage(a, k)
         /\ k = Plan[a].axis => /\ Stage(a, k) = StageOf(Plan[a])
                                /\ Stage(a + 1, k) = StageOf(Plan[a]) + 1
<1>1. PICK i \in 1 .. 2 * Dim : /\ a = i \/ a = i + 2 * Dim
                                /\ Plan[a].add = TRUE => a = i
                                /\ Plan[a].add = FALSE => a = i + 2 * Dim
                                /\ Plan[a].add \in BOOLEAN
                                /\ Plan[a].axis = (i + 1) \div 2
                                /\ Plan[a].dir = IF i % 2 = 1 THEN -1 ELSE 1
  BY PlanCases
<1>2. Dim \in 1 .. 3 /\ k \in 1 .. Dim
  BY DimAssumption DEF Axis
<1>3. /\ (i + 1) \div 2 = k =>
           /\ Clip(i + 1 - 2 * k) = IF i % 2 = 1 THEN 0 ELSE 1
           /\ Clip(i + 1 + 1 - 2 * k) = IF i % 2 = 1 THEN 1 ELSE 2
      /\ (i + 1) \div 2 # k => Clip(i + 1 + 1 - 2 * k) = Clip(i + 1 - 2 * k)
      /\ Clip(i + 1 - 2 * k) \in Int /\ Clip(i + 1 + 1 - 2 * k) \in Int
  BY <1>2 DEF Clip
<1>4. CASE Plan[a].add = TRUE
  <2>1. a = i
    BY <1>1, <1>4
  <2>2. StageOf(Plan[a]) = IF i % 2 = 1 THEN 0 ELSE 1
    BY <1>1, <1>4 DEF StageOf
  <2>3. Clip(i + 1 - 2 * k - 2 * Dim) = 0 /\ Clip(i + 1 + 1 - 2 * k - 2 * Dim) = 0
    BY <1>2 DEF Clip
  <2> QED BY <1>1, <1>3, <2>1, <2>2, <2>3 DEF Stage
<1>5. CASE Plan[a].add = FALSE
  <2>1. a = i + 2 * Dim
    BY <1>1, <1>5
  <2>2. StageOf(Plan[a]) = IF i % 2 = 1 THEN 2 ELSE 3
    BY <1>1, <1>5 DEF StageOf
  <2>3. Clip(a + 1 - 2 * k) = 2 /\ Clip(a + 1 + 1 - 2 * k) = 2
    BY <1>2, <2>1 DEF Clip
  <2>4. a + 1 - 2 * k - 2 * Dim = i + 1 - 2 * k /\ a + 1 + 1 - 2 * k - 2 * Dim = i + 1 + 1 - 2 * k
    BY <1>2, <2>1
  <2> QED BY <1>1, <1>3, <2>2, <2>3, <2>4 DEF Stage
<1> QED BY ZenonT(40), <1>1, <1>4, <1>5

--------------------------------------------------------------------------------
\* What has come to a cell along one axis, from none but the ranks next to it there.  A
\* deposit is given by the coordinates j of its rank and y of its cell along the axis.
Added(k, stage, i, x, j, y) ==
  \/ j = i /\ y = x
  \/ /\ stage >= 1 /\ Inner[k] <= x /\ x < Inner[k] + GuardOf[k]
     /\ Beside(k, i, 1) /\ j = Coordinate(k, i, 1) /\ y = x - Inner[k]
  \/ /\ stage >= 2 /\ GuardOf[k] <= x /\ x < 2 * GuardOf[k]
     /\ Beside(k, i, -1) /\ j = Coordinate(k, i, -1) /\ y = x + Inner[k]

\* Guard cells get what the neighbour there has in those cells.
CopiedFromRight(k, stage, i, x) ==
  stage >= 3 /\ x >= Inner[k] + GuardOf[k] /\ Beside(k, i, 1)
CopiedFromLeft(k, stage, i, x) == stage >= 4 /\ x < GuardOf[k] /\ Beside(k, i, -1)
Has(k, stage, i, x, j, y) ==
  \/ /\ CopiedFromRight(k, stage, i, x)
     /\ Added(k, 2, Coordinate(k, i, 1), x - Inner[k], j, y)
  \/ /\ CopiedFromLeft(k, stage, i, x)
     /\ Added(k, 2, Coordinate(k, i, -1), x + Inner[k], j, y)
  \/ /\ ~CopiedFromRight(k, stage, i, x) /\ ~CopiedFromLeft(k, stage, i, x)
     /\ Added(k, stage, i, x, j, y)

\* The values of rank r at call a.
Holds(r, a, c, p) ==
  \A k \in Axis : Has(k, Stage(a, k), r[k], c[k], p[1][k], p[2][k])
Expected(r, a) == [c \in Local |-> SetToBag({p \in Deposit : Holds(r, a, c, p)})]

--------------------------------------------------------------------------------
\* In call c, s sends a message to d; and s has done so.
Calls == 1 .. Len(Plan)
Goes(c, s, d) == Neighbour(s, Plan[c].axis, Plan[c].dir) = d /\ s # d
IsPosted(c, s) == c < at[s] \/ (c = at[s] /\ posted[s])

CommType ==
  /\ at \in [Rank -> 1 .. Len(Plan) + 1] /\ posted \in [Rank -> BOOLEAN]
  /\ field = [r \in Rank |-> field[r]]
  /\ chan = [p \in Rank \X Rank |-> chan[p]]
  /\ \A p \in Rank \X Rank : \E S : chan[p] \in Seq(S)
  /\ \A r \in Rank : posted[r] => InPlan(r) /\ ~ToSelf(r)

\* The messages from s to d are those of the calls that s has made and d has not, all of
\* them and in their order, with the values s had then; and d is through with a call only
\* if s has sent for it.
MessageInv(m, s, d) ==
  /\ m.turn \in Calls /\ Goes(m.turn, s, d) /\ m.tag = Plan[m.turn].tag
  /\ IsPosted(m.turn, s) /\ at[d] <= m.turn
  /\ m.data = Outgoing(Plan[m.turn], Expected(s, m.turn))
ChannelInv(s, d) ==
  LET q == chan[<<s, d>>]
  IN  /\ \A k \in 1 .. Len(q) : MessageInv(q[k], s, d)
      /\ \A k, l \in 1 .. Len(q) : k < l => q[k].turn < q[l].turn
      /\ \A c \in Calls : Goes(c, s, d) /\ IsPosted(c, s) /\ at[d] <= c =>
                            \E k \in 1 .. Len(q) : q[k].turn = c
      /\ \A c \in Calls : Goes(c, s, d) /\ c < at[d] => IsPosted(c, s)
FieldInv == \A r \in Rank : field[r] = Expected(r, at[r])
IInv == CommType /\ FieldInv /\ \A s, d \in Rank : ChannelInv(s, d)

LEMMA OpType ==
  ASSUME NEW r \in Rank, InPlan(r)
  PROVE  /\ at[r] \in Calls /\ Op(r) = Plan[at[r]]
         /\ Op(r).axis \in Axis /\ Op(r).dir \in {-1, 1} /\ -Op(r).dir \in {-1, 1}
         /\ -(-Op(r).dir) = Op(r).dir
         /\ Dest(r) \in Rank \cup {Null} /\ Origin(r) \in Rank \cup {Null}
<1>1. at[r] \in 1 .. Len(Plan) /\ Op(r) = Plan[at[r]]
  BY DEF InPlan, Op
<1>2. Op(r).axis \in Axis /\ Op(r).dir \in {-1, 1} /\ -Op(r).dir \in {-1, 1}
      /\ -(-Op(r).dir) = Op(r).dir
  BY <1>1, PlanType
<1> QED BY <1>1, <1>2, NeighbourIs DEF Calls, Dest, Origin

LEMMA GoesBack ==
  ASSUME NEW c \in Calls, NEW s \in Rank, NEW d \in Rank, Goes(c, s, d)
  PROVE  Neighbour(d, Plan[c].axis, -Plan[c].dir) = s
<1>1. Plan[c].axis \in Axis /\ Plan[c].dir \in {-1, 1}
  BY PlanType DEF Calls
<1>2. d # Null /\ Neighbour(s, Plan[c].axis, Plan[c].dir) = d
  BY NullIsNoRank DEF Goes
<1> QED BY <1>1, <1>2, NeighbourIs

\* Where the source of a rank is itself, it copies.
LEMMA BothSides ==
  ASSUME NEW r \in Rank, InPlan(r)
  PROVE  /\ Origin(r) = r => Dest(r) = r
         /\ Dest(r) = r => Origin(r) = r
         /\ Origin(r) # Null =>
              Origin(r) \in Rank /\ Neighbour(Origin(r), Op(r).axis, Op(r).dir) = r
<1>1. /\ Op(r).axis \in Axis /\ Op(r).dir \in {-1, 1} /\ -Op(r).dir \in {-1, 1}
      /\ -(-Op(r).dir) = Op(r).dir /\ r # Null
  BY OpType, NullIsNoRank
<1>2. Origin(r) # Null => Origin(r) \in Rank /\ Neighbour(Origin(r), Op(r).axis, Op(r).dir) = r
  BY <1>1, NeighbourIs DEF Origin
<1>3. Dest(r) # Null => Neighbour(Dest(r), Op(r).axis, -Op(r).dir) = r
  BY <1>1, NeighbourIs DEF Dest
<1>4. Origin(r) = r => Dest(r) = r
  BY <1>1, <1>2 DEF Dest
<1>5. Dest(r) = r => Origin(r) = r
  BY <1>1, <1>3 DEF Origin
<1> QED BY <1>2, <1>4, <1>5

LEMMA SourceSends ==
  ASSUME NEW r \in Rank, InPlan(r), ~ToSelf(r), Origin(r) # Null
  PROVE  Origin(r) \in Rank /\ Goes(at[r], Origin(r), r)
BY OpType, BothSides DEF Goes, ToSelf

\* A channel is not concerned by steps that change neither it nor the calls it is for.
LEMMA QuietChannel ==
  ASSUME NEW s \in Rank, NEW d \in Rank, ChannelInv(s, d), chan'[<<s, d>>] = chan[<<s, d>>],
         \A c \in Calls : Goes(c, s, d) =>
           /\ IsPosted(c, s)' <=> IsPosted(c, s)
           /\ at'[d] <= c <=> at[d] <= c
           /\ c < at'[d] <=> c < at[d]
  PROVE  ChannelInv(s, d)'
BY DEF ChannelInv, MessageInv, Goes

\* Where an operation puts what it receives, and how far that has come.
Target(k, stage) == CASE stage = 0 -> Inner[k]
                      [] stage = 1 -> GuardOf[k]
                      [] stage = 2 -> Inner[k] + GuardOf[k]
                      [] stage = 3 -> 0
Reached(k, stage, x) == Target(k, stage) <= x /\ x < Target(k, stage) + GuardOf[k]
Side(stage) == IF stage = 0 \/ stage = 2 THEN 1 ELSE -1
Source(k, stage, x) == IF stage = 0 \/ stage = 2 THEN x - Inner[k] ELSE x + Inner[k]

LEMMA Sizes ==
  ASSUME NEW k \in Axis
  PROVE  /\ Inner[k] \in Nat /\ GuardOf[k] \in Nat /\ GuardOf[k] <= Inner[k]
         /\ Dims(k) = Inner[k] + 2 * GuardOf[k]
BY GridAssumption DEF Dims

LEMMA AxisQuiet ==
  ASSUME NEW k \in Axis, NEW stage \in 0 .. 3, NEW i \in Nat, NEW x \in 0 .. Dims(k) - 1,
         NEW j, NEW y, ~Reached(k, stage, x) \/ ~Beside(k, i, Side(stage))
  PROVE  Has(k, stage + 1, i, x, j, y) <=> Has(k, stage, i, x, j, y)
<1>1. PICK n \in Nat, g \in Nat : n = Inner[k] /\ g = GuardOf[k] /\ g <= n
  BY Sizes
<1>2. x \in 0 .. n + 2 * g - 1
  BY <1>1, Sizes
<1>3. CASE stage = 0
  BY <1>1, <1>2, <1>3
     DEF Has, Added, CopiedFromRight, CopiedFromLeft, Reached, Target, Side
<1>4. CASE stage = 1
  BY <1>1, <1>2, <1>4
     DEF Has, Added, CopiedFromRight, CopiedFromLeft, Reached, Target, Side
<1>5. CASE stage = 2
  BY <1>1, <1>2, <1>5
     DEF Has, Added, CopiedFromRight, CopiedFromLeft, Reached, Target, Side
<1>6. CASE stage = 3
  BY <1>1, <1>2, <1>6
     DEF Has, Added, CopiedFromRight, CopiedFromLeft, Reached, Target, Side
<1> QED BY <1>3, <1>4, <1>5, <1>6

\* A value that comes is added, and is about other deposits than the value there.
LEMMA AxisAdd ==
  ASSUME NEW k \in Axis, NEW stage \in 0 .. 1, NEW i \in Nat, NEW x \in 0 .. Dims(k) - 1,
         NEW j, NEW y, Reached(k, stage, x), Beside(k, i, Side(stage))
  PROVE  LET old == Has(k, stage, i, x, j, y)
             new == Has(k, stage, Coordinate(k, i, Side(stage)), Source(k, stage, x), j, y)
         IN  /\ Has(k, stage + 1, i, x, j, y) <=> old \/ new
             /\ ~(old /\ new)
<1>1. PICK n \in Nat, g \in Nat : n = Inner[k] /\ g = GuardOf[k] /\ g <= n
  BY Sizes
<1>2. x \in 0 .. n + 2 * g - 1
  BY <1>1, Sizes
<1>3. CASE stage = 0
  BY <1>1, <1>2, <1>3
     DEF Has, Added, CopiedFromRight, CopiedFromLeft, Reached, Target, Side, Source
<1>4. CASE stage = 1
  BY <1>1, <1>2, <1>4
     DEF Has, Added, CopiedFromRight, CopiedFromLeft, Reached, Target, Side, Source
<1> QED BY <1>3, <1>4

\* A value that comes is copied.
LEMMA AxisCopy ==
  ASSUME NEW k \in Axis, NEW stage \in 2 .. 3, NEW i \in Nat, NEW x \in 0 .. Dims(k) - 1,
         NEW j, NEW y, Reached(k, stage, x), Beside(k, i, Side(stage))
  PROVE  Has(k, stage + 1, i, x, j, y) <=>
           Has(k, stage, Coordinate(k, i, Side(stage)), Source(k, stage, x), j, y)
<1>1. PICK n \in Nat, g \in Nat : n = Inner[k] /\ g = GuardOf[k] /\ g <= n
  BY Sizes
<1>2. x \in 0 .. n + 2 * g - 1
  BY <1>1, Sizes
<1>3. CASE stage = 2
  BY <1>1, <1>2, <1>3
     DEF Has, Added, CopiedFromRight, CopiedFromLeft, Reached, Target, Side, Source
<1>4. CASE stage = 3
  BY <1>1, <1>2, <1>4
     DEF Has, Added, CopiedFromRight, CopiedFromLeft, Reached, Target, Side, Source
<1> QED BY <1>3, <1>4

\* Values that are about different deposits add up to a value.
LEMMA Union ==
  ASSUME NEW A, NEW B, \A p \in A : p \notin B
  PROVE  SetToBag(A) (+) SetToBag(B) = SetToBag(A \cup B)
<1>1. SetToBag(A) (+) SetToBag(B) =
        [e \in A \cup B |-> (IF e \in A THEN 1 ELSE 0) + (IF e \in B THEN 1 ELSE 0)]
  BY DEF SetToBag, (+)
<1>2. \A e \in A \cup B : (IF e \in A THEN 1 ELSE 0) + (IF e \in B THEN 1 ELSE 0) = 1
  OBVIOUS
<1>3. SetToBag(A \cup B) = [e \in A \cup B |-> 1]
  BY DEF SetToBag
<1> QED BY <1>1, <1>2, <1>3

LEMMA OpPlaces ==
  ASSUME NEW a \in Calls
  PROVE  LET o == Plan[a]
             stage == StageOf(o)
         IN  /\ o.axis \in Axis /\ o.dir \in {-1, 1} /\ -o.dir \in {-1, 1}
             /\ stage \in 0 .. 3 /\ Side(stage) = -o.dir
             /\ RecvAt(o) = Target(o.axis, stage)
             /\ \A x \in Int : x - RecvAt(o) + SendFrom(o) = Source(o.axis, stage, x)
             /\ o.add = TRUE \/ o.add = FALSE
             /\ o.add = TRUE => stage \in 0 .. 1
             /\ o.add = FALSE => stage \in 2 .. 3
<1> DEFINE o == Plan[a]
<1>1. PICK k \in Axis : k = o.axis
  BY PlanType DEF Calls
<1>2. o.dir \in {-1, 1} /\ -o.dir \in {-1, 1} /\ o.add \in BOOLEAN
  BY PlanType DEF Calls
<1>3. PICK n \in Nat, g \in Nat : n = Inner[k] /\ g = GuardOf[k] /\ g <= n /\ Dims(k) = n + 2 * g
  BY Sizes
<1> HIDE DEF o
<1>4. CASE o.add = TRUE /\ o.dir = -1
  BY <1>1, <1>2, <1>3, <1>4 DEF StageOf, Side, RecvAt, SendFrom, Target, Source, o
<1>5. CASE o.add = TRUE /\ o.dir = 1
  BY <1>1, <1>2, <1>3, <1>5 DEF StageOf, Side, RecvAt, SendFrom, Target, Source, o
<1>6. CASE o.add = FALSE /\ o.dir = -1
  BY <1>1, <1>2, <1>3, <1>6 DEF StageOf, Side, RecvAt, SendFrom, Target, Source, o
<1>7. CASE o.add = FALSE /\ o.dir = 1
  BY <1>1, <1>2, <1>3, <1>7 DEF StageOf, Side, RecvAt, SendFrom, Target, Source, o
<1> QED BY <1>2, <1>4, <1>5, <1>6, <1>7

\* The cell a value comes from.
From(o, c) == [c EXCEPT ![o.axis] = Source(o.axis, StageOf(o), @)]

LEMMA ReceivedCell ==
  ASSUME NEW a \in Calls, NEW f, NEW g, NEW c \in Local
  PROVE  LET o == Plan[a]
             got == Incoming(o, f, Outgoing(o, g))[c]
         IN  /\ Reached(o.axis, StageOf(o), c[o.axis]) =>
                  From(o, c) \in Local /\ got = Combined(o, f[c], g[From(o, c)])
             /\ ~Reached(o.axis, StageOf(o), c[o.axis]) => got = f[c]
<1>1. PICK o : o = Plan[a]
  OBVIOUS
<1>2. PICK k \in Axis : k = o.axis
  BY <1>1, OpPlaces
<1>3. PICK n \in Nat, m \in Nat : n = Inner[k] /\ m = GuardOf[k] /\ m <= n /\ Dims(k) = n + 2 * m
  BY Sizes
<1>4. PICK stage \in 0 .. 3 : stage = StageOf(o)
  BY <1>1, OpPlaces
<1>5. PICK t \in Nat : t = RecvAt(o) /\ t = Target(k, stage)
  <2>1. Target(k, stage) \in Nat
    BY <1>3, <1>4 DEF Target
  <2> QED BY <1>1, <1>2, <1>4, <2>1, OpPlaces
<1>6. \A x \in Int : x - t + SendFrom(o) = Source(k, stage, x)
  BY <1>1, <1>2, <1>4, <1>5, OpPlaces
<1>7. c \in [Axis -> Nat] /\ \A l \in Axis : c[l] < Dims(l) /\ Dims(l) \in Nat
  BY Locals
<1>8. PICK x \in Nat : x = c[k] /\ x < n + 2 * m
  BY <1>3, <1>7
<1>9. PICK d : d = [c EXCEPT ![k] = x - t]
  OBVIOUS
<1>10. d[k] = x - t /\ [d EXCEPT ![k] = @ + SendFrom(o)] = [c EXCEPT ![k] = Source(k, stage, x)]
  <2>1. x - t + SendFrom(o) = Source(k, stage, x)
    BY <1>6
  <2> QED BY <1>7, <1>9, <2>1
<1>11. d \in Slab[k] <=> Reached(k, stage, x)
  <2>1. Slab[k] = {b \in Local : b[k] < m}
    BY <1>3 DEF Slab
  <2>2. d \in Local /\ d[k] < m => Reached(k, stage, x)
    <3>1. d \in Local => d[k] \in Nat
      BY Locals
    <3>2. x - t \in Nat /\ x - t < m => t <= x /\ x < t + m
      OBVIOUS
    <3> QED BY <1>3, <1>5, <1>10, <3>1, <3>2 DEF Reached
  <2>3. Reached(k, stage, x) => d \in Local /\ d[k] < m
    <3> SUFFICES ASSUME Reached(k, stage, x) PROVE d \in Local /\ d[k] < m
      OBVIOUS
    <3>1. x - t \in Nat /\ x - t < m /\ x - t < n + 2 * m
      BY <1>3, <1>5 DEF Reached
    <3>2. d \in [Axis -> Nat] /\ \A l \in Axis : d[l] < Dims(l)
      BY <1>3, <1>7, <1>9, <3>1
    <3> QED BY <1>10, <3>1, <3>2, Locals
  <2> QED BY <2>1, <2>2, <2>3
<1>12. Reached(k, stage, x) => [c EXCEPT ![k] = Source(k, stage, x)] \in Local
  <2> SUFFICES ASSUME Reached(k, stage, x)
               PROVE  [c EXCEPT ![k] = Source(k, stage, x)] \in Local
    OBVIOUS
  <2>1. Source(k, stage, x) \in Nat /\ Source(k, stage, x) < Dims(k)
    BY <1>3, <1>4 DEF Source, Reached, Target
  <2>2. PICK b : b = [c EXCEPT ![k] = Source(k, stage, x)]
    OBVIOUS
  <2>3. b \in [Axis -> Nat] /\ \A l \in Axis : b[l] < Dims(l)
    BY <1>7, <2>1, <2>2
  <2> QED BY <2>2, <2>3, Locals
<1>13. From(o, c) = [c EXCEPT ![k] = Source(k, stage, x)]
  BY <1>2, <1>4, <1>8 DEF From
<1>14. PICK data : data = Outgoing(o, g)
  OBVIOUS
<1>15. DOMAIN data = Slab[k] /\ (d \in Slab[k] => data[d] = g[From(o, c)])
  BY <1>2, <1>10, <1>13, <1>14 DEF Outgoing
<1>16. Incoming(o, f, data)[c] = IF d \in DOMAIN data THEN Combined(o, f[c], data[d]) ELSE f[c]
  <2>1. [c EXCEPT ![o.axis] = @ - RecvAt(o)] = d
    BY <1>2, <1>5, <1>8, <1>9
  <2> QED BY <2>1 DEF Incoming
<1> QED BY <1>1, <1>2, <1>4, <1>8, <1>11, <1>12, <1>13, <1>14, <1>15, <1>16

\* A step along one axis leaves the others as they are.
LEMMA OneAxis ==
  ASSUME NEW k \in Axis, NEW r, NEW s, NEW a, NEW b, NEW c, NEW d, NEW p,
         \A l \in Axis \ {k} : Stage(a, l) = Stage(b, l) /\ r[l] = s[l] /\ c[l] = d[l]
  PROVE  \E others \in BOOLEAN :
           /\ Holds(r, a, c, p) <=>
                others /\ Has(k, Stage(a, k), r[k], c[k], p[1][k], p[2][k])
           /\ Holds(s, b, d, p) <=>
                others /\ Has(k, Stage(b, k), s[k], d[k], p[1][k], p[2][k])
<1> DEFINE O == \A l \in Axis \ {k} : Has(l, Stage(a, l), r[l], c[l], p[1][l], p[2][l])
<1>1. O \in BOOLEAN
  OBVIOUS
<1>2. Holds(r, a, c, p) <=> O /\ Has(k, Stage(a, k), r[k], c[k], p[1][k], p[2][k])
  BY DEF Holds
<1>3. Holds(s, b, d, p) <=> O /\ Has(k, Stage(b, k), s[k], d[k], p[1][k], p[2][k])
  BY DEF Holds
<1> QED BY <1>1, <1>2, <1>3

\* A rank with the right values that receives the right values has the right values.
LEMMA ReceiveExpected ==
  ASSUME NEW r \in Rank, NEW s \in Rank, NEW a \in Calls,
         Neighbour(r, Plan[a].axis, -Plan[a].dir) = s
  PROVE  Incoming(Plan[a], Expected(r, a), Outgoing(Plan[a], Expected(s, a)))
           = Expected(r, a + 1)
<1>1. PICK o : o = Plan[a]
  OBVIOUS
<1>2. PICK k \in Axis, stage \in 0 .. 3 : k = o.axis /\ stage = StageOf(o)
  BY <1>1, OpPlaces
<1>3. /\ Stage(a, k) = stage /\ Stage(a + 1, k) = stage + 1
      /\ \A l \in Axis \ {k} : Stage(a + 1, l) = Stage(a, l)
  BY <1>1, <1>2, StageStep DEF Calls
<1>4. PICK i \in Nat : i = r[k]
  BY Ranks
<1>5. /\ Beside(k, i, Side(stage)) /\ s[k] = Coordinate(k, i, Side(stage))
      /\ \A l \in Axis \ {k} : s[l] = r[l]
  <2>1. -o.dir \in {-1, 1} /\ Side(stage) = -o.dir
    BY <1>1, <1>2, OpPlaces
  <2>2. Neighbour(r, k, Side(stage)) = s /\ s # Null
    BY <1>1, <1>2, <2>1, NullIsNoRank
  <2> QED BY <1>4, <2>1, <2>2, NeighbourIs
<1>6. ASSUME NEW c \in Local
      PROVE  Incoming(o, Expected(r, a), Outgoing(o, Expected(s, a)))[c] = Expected(r, a + 1)[c]
  <2> DEFINE Old == {p \in Deposit : Holds(r, a, c, p)}
             Sent == {p \in Deposit : Holds(s, a, From(o, c), p)}
             New == {p \in Deposit : Holds(r, a + 1, c, p)}
             got == Incoming(o, Expected(r, a), Outgoing(o, Expected(s, a)))[c]
  <2>1. PICK x \in 0 .. Dims(k) - 1 : x = c[k]
    BY Locals
  <2>2. c \in [Axis -> Nat]
    BY Locals
  <2>3. Expected(r, a)[c] = SetToBag(Old) /\ Expected(r, a + 1)[c] = SetToBag(New)
    BY DEF Expected
  <2>4. CASE ~Reached(k, stage, x)
    <3>0. got = Expected(r, a)[c]
      <4>1. ~Reached(o.axis, StageOf(o), c[o.axis])
        BY <1>2, <2>1, <2>4
      <4>2. PICK f, g : f = Expected(r, a) /\ g = Expected(s, a)
        OBVIOUS
      <4>3. Incoming(o, f, Outgoing(o, g))[c] = f[c]
        BY <1>1, <4>1, ReceivedCell
      <4> QED BY SMTT(30), <4>2, <4>3
    <3>1. got = SetToBag(Old)
      BY <2>3, <3>0
    <3>2. ASSUME NEW p \in Deposit
          PROVE  Holds(r, a + 1, c, p) <=> Holds(r, a, c, p)
      <4>1. Has(k, stage + 1, i, x, p[1][k], p[2][k]) <=> Has(k, stage, i, x, p[1][k], p[2][k])
        BY <2>4, AxisQuiet
      <4> QED BY <1>3, <1>4, <2>1, <4>1, OneAxis
    <3> QED BY <2>3, <3>1, <3>2
  <2>5. CASE Reached(k, stage, x)
    <3>1. /\ From(o, c) \in Local
          /\ got = Combined(o, Expected(r, a)[c], Expected(s, a)[From(o, c)])
      BY <1>1, <1>2, <2>1, <2>5, ReceivedCell
    <3>2. Expected(s, a)[From(o, c)] = SetToBag(Sent)
      BY <3>1 DEF Expected
    <3>3. got = Combined(o, SetToBag(Old), SetToBag(Sent))
      BY <2>3, <3>1, <3>2
    <3>4. /\ From(o, c)[k] = Source(k, stage, x)
          /\ \A l \in Axis \ {k} : From(o, c)[l] = c[l]
      BY <1>2, <2>1, <2>2 DEF From
    <3> HIDE DEF got
    <3>5. ASSUME NEW p \in Deposit
          PROVE  \E others \in BOOLEAN :
                   /\ Holds(r, a, c, p) <=>
                        others /\ Has(k, stage, i, x, p[1][k], p[2][k])
                   /\ Holds(s, a, From(o, c), p) <=>
                        others /\ Has(k, stage, s[k], Source(k, stage, x), p[1][k], p[2][k])
                   /\ Holds(r, a + 1, c, p) <=>
                        others /\ Has(k, stage + 1, i, x, p[1][k], p[2][k])
      <4> DEFINE O == \A l \in Axis \ {k} : Has(l, Stage(a, l), r[l], c[l], p[1][l], p[2][l])
      <4>1. Holds(r, a, c, p) <=> O /\ Has(k, stage, i, x, p[1][k], p[2][k])
        BY <1>3, <1>4, <2>1 DEF Holds
      <4>2. Holds(r, a + 1, c, p) <=> O /\ Has(k, stage + 1, i, x, p[1][k], p[2][k])
        BY <1>3, <1>4, <2>1 DEF Holds
      <4>3. Holds(s, a, From(o, c), p) <=>
              O /\ Has(k, stage, s[k], Source(k, stage, x), p[1][k], p[2][k])
        BY <1>3, <1>5, <3>4 DEF Holds
      <4>4. O \in BOOLEAN
        OBVIOUS
      <4> HIDE DEF O
      <4> QED BY <4>1, <4>2, <4>3, <4>4
    <3>6. CASE o.add = TRUE
      <4>1. stage \in 0 .. 1
        BY <1>1, <1>2, <3>6, OpPlaces
      <4>2. ASSUME NEW p \in Deposit
            PROVE  /\ Holds(r, a + 1, c, p) <=> Holds(r, a, c, p) \/ Holds(s, a, From(o, c), p)
                   /\ ~(Holds(r, a, c, p) /\ Holds(s, a, From(o, c), p))
        <5>1. /\ Has(k, stage + 1, i, x, p[1][k], p[2][k]) <=>
                   \/ Has(k, stage, i, x, p[1][k], p[2][k])
                   \/ Has(k, stage, s[k], Source(k, stage, x), p[1][k], p[2][k])
              /\ ~(/\ Has(k, stage, i, x, p[1][k], p[2][k])
                   /\ Has(k, stage, s[k], Source(k, stage, x), p[1][k], p[2][k]))
          BY <1>5, <2>5, <4>1, AxisAdd
        <5> QED BY <3>5, <5>1
      <4>3. SetToBag(Old) (+) SetToBag(Sent) = SetToBag(Old \cup Sent)
        <5>1. \A p \in Old : p \notin Sent
          BY <4>2
        <5> HIDE DEF Old, Sent
        <5> QED BY <5>1, Union
      <4>4. New = Old \cup Sent
        BY <4>2
      <4>5. got = SetToBag(Old) (+) SetToBag(Sent)
        <5> HIDE DEF Old, Sent
        <5> QED BY <3>3, <3>6 DEF Combined
      <4> QED BY <2>3, <4>3, <4>4, <4>5 DEF got
    <3>7. CASE o.add = FALSE
      <4>1. stage \in 2 .. 3
        BY <1>1, <1>2, <3>7, OpPlaces
      <4>2. ASSUME NEW p \in Deposit
            PROVE  Holds(r, a + 1, c, p) <=> Holds(s, a, From(o, c), p)
        <5>1. Has(k, stage + 1, i, x, p[1][k], p[2][k]) <=>
                Has(k, stage, s[k], Source(k, stage, x), p[1][k], p[2][k])
          BY <1>5, <2>5, <4>1, AxisCopy
        <5> QED BY <3>5, <5>1
      <4>3. New = Sent
        BY <4>2
      <4>4. got = SetToBag(Sent)
        <5> HIDE DEF Old, Sent
        <5> QED BY <3>3, <3>7 DEF Combined
      <4> QED BY <2>3, <4>3, <4>4 DEF got
    <3> QED BY <1>1, <3>6, <3>7, OpPlaces
  <2> QED BY <2>4, <2>5
<1> QED BY <1>1, <1>6 DEF Incoming, Expected

LEMMA NothingComes ==
  ASSUME NEW r \in Rank, NEW a \in Calls, Neighbour(r, Plan[a].axis, -Plan[a].dir) = Null
  PROVE  Expected(r, a) = Expected(r, a + 1)
<1>1. PICK o : o = Plan[a]
  OBVIOUS
<1>2. PICK k \in Axis, stage \in 0 .. 3 : k = o.axis /\ stage = StageOf(o)
  BY <1>1, OpPlaces
<1>3. /\ Stage(a, k) = stage /\ Stage(a + 1, k) = stage + 1
      /\ \A l \in Axis \ {k} : Stage(a + 1, l) = Stage(a, l)
  BY <1>1, <1>2, StageStep DEF Calls
<1>4. PICK i \in Nat : i = r[k]
  BY Ranks
<1>5. ~Beside(k, i, Side(stage))
  <2>1. -o.dir \in {-1, 1} /\ Side(stage) = -o.dir
    BY <1>1, <1>2, OpPlaces
  <2>2. Neighbour(r, k, Side(stage)) = Null
    BY <1>1, <1>2, <2>1
  <2> QED BY <1>4, <2>1, <2>2, NeighbourIs
<1>6. ASSUME NEW c \in Local
      PROVE  {p \in Deposit : Holds(r, a, c, p)} = {p \in Deposit : Holds(r, a + 1, c, p)}
  <2>1. PICK x \in 0 .. Dims(k) - 1 : x = c[k]
    BY Locals
  <2>2. ASSUME NEW p \in Deposit
        PROVE  Holds(r, a + 1, c, p) <=> Holds(r, a, c, p)
    <3>1. Has(k, stage + 1, i, x, p[1][k], p[2][k]) <=> Has(k, stage, i, x, p[1][k], p[2][k])
      BY <1>5, AxisQuiet
    <3> QED BY <1>3, <1>4, <2>1, <3>1, OneAxis
  <2> QED BY <2>2
<1> QED BY <1>6 DEF Expected

\* Taking a message out of a sequence of messages, in particular the first.
LEMMA TakenOut ==
  ASSUME NEW S, NEW s \in Seq(S), NEW k \in 1 .. Len(s)
  PROVE  /\ RemoveAt(s, k) \in Seq(S)
         /\ k = 1 => /\ Len(RemoveAt(s, k)) = Len(s) - 1
                     /\ \A i \in 1 .. Len(s) - 1 : RemoveAt(s, k)[i] = s[i + 1]
<1> DEFINE a == SubSeq(s, 1, k - 1)
           b == SubSeq(s, k + 1, Len(s))
<1>1. \A i \in 1 .. Len(s) : s[i] \in S
  OBVIOUS
<1>2. a \in Seq(S)
  BY <1>1, SubSeqProperties
<1>3. /\ b \in Seq(S) /\ Len(b) = IF k + 1 <= Len(s) THEN Len(s) - (k + 1) + 1 ELSE 0
      /\ \A i \in 1 .. Len(s) - (k + 1) + 1 : b[i] = s[k + 1 + i - 1]
  <2>1. \A i \in k + 1 .. Len(s) : s[i] \in S
    BY <1>1
  <2> QED BY <2>1, SubSeqProperties
<1>4. k = 1 => a = <<>>
  BY SubSeqEmpty
<1>5. RemoveAt(s, k) = a \o b
  BY DEF RemoveAt
<1>6. k = 1 => RemoveAt(s, k) = b
  <2> HIDE DEF a, b
  <2> QED BY <1>2, <1>3, <1>4, <1>5
<1>7. RemoveAt(s, k) \in Seq(S)
  <2> HIDE DEF a, b
  <2> QED BY <1>2, <1>3, <1>5
<1>8. k = 1 => /\ Len(b) = Len(s) - 1
               /\ \A i \in 1 .. Len(s) - 1 : b[i] = s[i + 1]
  <2> HIDE DEF b
  <2> SUFFICES ASSUME k = 1
               PROVE  Len(b) = Len(s) - 1 /\ \A i \in 1 .. Len(s) - 1 : b[i] = s[i + 1]
    OBVIOUS
  <2>1. Len(s) \in Nat /\ Len(s) >= 1
    OBVIOUS
  <2>2. ASSUME NEW i \in 1 .. Len(s) - 1
        PROVE  b[i] = s[i + 1]
    <3>1. i \in 1 .. Len(s) - (k + 1) + 1 /\ k + 1 + i - 1 = i + 1
      BY <2>1
    <3> QED BY <1>3, <3>1
  <2>3. Len(b) = Len(s) - 1
    <3>1. PICK n \in Nat : n = Len(s) /\ n >= 1
      BY <2>1
    <3>2. Len(b) = IF 1 + 1 <= n THEN n - (1 + 1) + 1 ELSE 0
      BY <1>3, <3>1
    <3> QED BY <3>1, <3>2
  <2> QED BY <2>2, <2>3
<1> QED BY <1>6, <1>7, <1>8

LEMMA CommTypeStep ==
  ASSUME CommType, [Next]_vars
  PROVE  CommType'
<1> USE DEF CommType
<1>1. Len(Plan) \in Nat
  BY ThePlan
<1>2. ASSUME NEW r \in Rank, InPlan(r), at' = [at EXCEPT ![r] = @ + 1],
             posted' = [posted EXCEPT ![r] = FALSE]
      PROVE  /\ at' \in [Rank -> 1 .. Len(Plan) + 1] /\ posted' \in [Rank -> BOOLEAN]
             /\ \A s \in Rank : posted'[s] => InPlan(s)' /\ ~ToSelf(s)'
  <2>1. at[r] \in 1 .. Len(Plan) /\ at[r] + 1 \in 1 .. Len(Plan) + 1
    BY <1>1, <1>2 DEF InPlan
  <2>2. at' \in [Rank -> 1 .. Len(Plan) + 1] /\ posted' \in [Rank -> BOOLEAN]
    BY <1>2, <2>1
  <2>3. ASSUME NEW s \in Rank, posted'[s]
        PROVE  InPlan(s)' /\ ~ToSelf(s)'
    <3>1. posted[s] /\ at'[s] = at[s]
      BY <1>2, <2>3
    <3> QED BY <3>1 DEF InPlan, ToSelf, Op, Dest, Origin
  <2> QED BY <2>2, <2>3
<1>3. ASSUME NEW r \in Rank, NEW x, field' = [field EXCEPT ![r] = x]
      PROVE  field' = [s \in Rank |-> field'[s]]
  BY <1>3
<1>4. ASSUME NEW r \in Rank, CopyToSelf(r)
      PROVE  CommType'
  <2>1. at' = [at EXCEPT ![r] = @ + 1] /\ UNCHANGED <<posted, chan>> /\ InPlan(r) /\ ToSelf(r)
    BY <1>4 DEF CopyToSelf, Receive
  <2>2. posted' = [posted EXCEPT ![r] = FALSE]
    BY <2>1
  <2>3. field' = [s \in Rank |-> field'[s]]
    BY <1>3, <1>4 DEF CopyToSelf, Receive
  <2> QED BY <1>2, <2>1, <2>2, <2>3
<1>5. ASSUME NEW r \in Rank, PostSend(r)
      PROVE  CommType'
  <2>0. PICK m : m = [tag |-> Op(r).tag, data |-> Outgoing(Op(r), field[r]), turn |-> at[r]]
    OBVIOUS
  <2>1. InPlan(r) /\ ~ToSelf(r) /\ posted' = [posted EXCEPT ![r] = TRUE]
        /\ UNCHANGED <<field, at>>
    BY <1>5 DEF PostSend
  <2>2. chan' = IF Dest(r) = Null THEN chan
                ELSE [chan EXCEPT ![<<r, Dest(r)>>] = Append(@, m)]
    BY <1>5, <2>0 DEF PostSend, Post
  <2>3. /\ posted' \in [Rank -> BOOLEAN]
        /\ \A s \in Rank : posted'[s] => InPlan(s)' /\ ~ToSelf(s)'
    BY <2>1 DEF InPlan, ToSelf, Op, Dest, Origin
  <2>4. CASE Dest(r) = Null
    BY <2>1, <2>2, <2>3, <2>4
  <2>5. CASE Dest(r) # Null
    <3>0. PICK p : p = <<r, Dest(r)>>
      OBVIOUS
    <3>1. p \in Rank \X Rank
      BY <2>1, <2>5, <3>0, OpType
    <3>2. PICK S : chan[p] \in Seq(S)
      BY <3>1
    <3>3. Append(chan[p], m) \in Seq(S \cup {m})
      <4>1. chan[p] \in Seq(S \cup {m})
        BY <3>2
      <4> QED BY <4>1
    <3>4. /\ chan' = [q \in Rank \X Rank |-> IF q = p THEN Append(chan[p], m) ELSE chan[q]]
      BY <2>2, <2>5, <3>0, <3>1
    <3>5. \A q \in Rank \X Rank : \E T : chan'[q] \in Seq(T)
      BY <3>3, <3>4
    <3>6. chan' = [q \in Rank \X Rank |-> chan'[q]]
      BY <3>4
    <3> QED BY <2>1, <2>3, <3>5, <3>6
  <2> QED BY <2>4, <2>5
<1>6. ASSUME NEW r \in Rank, CompleteReceive(r)
      PROVE  CommType'
  <2>1. InPlan(r) /\ at' = [at EXCEPT ![r] = @ + 1] /\ posted' = [posted EXCEPT ![r] = FALSE]
    BY <1>6 DEF CompleteReceive, Receive, MayReceive
  <2>2. field' = [s \in Rank |-> field'[s]]
    BY <1>3, <1>6 DEF CompleteReceive, Receive
  <2>3. /\ chan' = [p \in Rank \X Rank |-> chan'[p]]
        /\ \A p \in Rank \X Rank : \E S : chan'[p] \in Seq(S)
    <3>1. CASE UNCHANGED chan
      BY <3>1
    <3>2. CASE chan' # chan
      <4>1. PICK k \in Receivable(chan, Origin(r), r, Op(r).tag) :
              chan' = Taken(chan, Origin(r), r, k)
        BY <1>6, <3>2 DEF CompleteReceive
      <4>2. Origin(r) # Null
        BY <1>6, <3>2 DEF CompleteReceive
      <4>3. PICK p \in Rank \X Rank : p = <<Origin(r), r>>
        BY <2>1, <4>2, OpType
      <4>4. PICK S : chan[p] \in Seq(S)
        BY <4>3
      <4>5. k \in 1 .. Len(chan[p])
        BY <4>1, <4>3, <4>4 DEF Receivable
      <4>6. RemoveAt(chan[p], k) \in Seq(S)
        BY <4>4, <4>5, TakenOut
      <4>7. chan' = [q \in Rank \X Rank |-> IF q = p THEN RemoveAt(chan[p], k) ELSE chan[q]]
        BY <4>1, <4>3 DEF Taken
      <4> QED BY <4>6, <4>7
    <3> QED BY <3>1, <3>2
  <2> QED BY <1>2, <2>1, <2>2, <2>3
<1>7. CASE UNCHANGED vars
  BY <1>7 DEF vars, InPlan, ToSelf, Op, Dest, Origin
<1> QED BY <1>4, <1>5, <1>6, <1>7 DEF Next, Step

\* How a rank goes on from a call.
LEMMA GoesOn ==
  ASSUME CommType, NEW r \in Rank, InPlan(r), at' = [at EXCEPT ![r] = @ + 1],
         posted' = [posted EXCEPT ![r] = FALSE], NEW c \in Calls, NEW x \in Rank
  PROVE  /\ c < at'[x] <=> c < at[x] \/ (x = r /\ c = at[r])
         /\ at'[x] <= c <=> at[x] <= c /\ ~(x = r /\ c = at[r])
         /\ IsPosted(c, x)' <=> IsPosted(c, x) \/ (x = r /\ c = at[r])
<1>1. at[x] \in Nat /\ at[r] \in Nat /\ c \in Nat /\ posted[x] \in BOOLEAN
  BY ThePlan DEF CommType, Calls
<1>2. CASE x = r
  <2>1. at'[x] = at[r] + 1 /\ posted'[x] = FALSE
    BY <1>2 DEF CommType
  <2>2. c < at[r] + 1 <=> c < at[r] \/ c = at[r]
    BY <1>1
  <2>3. at[r] + 1 <= c <=> at[r] <= c /\ c # at[r]
    BY <1>1
  <2> QED BY <1>2, <2>1, <2>2, <2>3 DEF IsPosted
<1>3. CASE x # r
  <2>1. at'[x] = at[x] /\ posted'[x] = posted[x]
    BY <1>3 DEF CommType
  <2> QED BY <1>3, <2>1 DEF IsPosted
<1> QED BY <1>2, <1>3

LEMMA CopyToSelfKeeps ==
  ASSUME IInv, CommType', NEW r \in Rank, CopyToSelf(r)
  PROVE  IInv'
<1>1. /\ InPlan(r) /\ ToSelf(r) /\ at' = [at EXCEPT ![r] = @ + 1] /\ UNCHANGED <<posted, chan>>
      /\ field' = [field EXCEPT ![r] = Incoming(Op(r), @, Outgoing(Op(r), field[r]))]
  BY DEF CopyToSelf, Receive
<1>2. CommType /\ FieldInv /\ ~posted[r]
  BY <1>1 DEF IInv, CommType
<1>3. posted' = [posted EXCEPT ![r] = FALSE]
  BY <1>1, <1>2 DEF CommType
<1>4. FieldInv'
  <2> SUFFICES ASSUME NEW x \in Rank
               PROVE  field'[x] = Expected(x, at'[x])
    BY DEF FieldInv, Expected, Holds
  <2>1. field[x] = Expected(x, at[x]) /\ field[r] = Expected(r, at[r])
    BY <1>2 DEF FieldInv
  <2>2. CASE x = r
    <3>1. at'[r] = at[r] + 1 /\ field'[r] = Incoming(Op(r), field[r], Outgoing(Op(r), field[r]))
      BY <1>1, <1>2 DEF CommType
    <3>2. at[r] \in Calls /\ Op(r) = Plan[at[r]] /\ Origin(r) = r
      BY <1>1, OpType DEF ToSelf
    <3>3. Neighbour(r, Plan[at[r]].axis, -Plan[at[r]].dir) = r
      BY <3>2 DEF Origin
    <3> QED BY <2>1, <2>2, <3>1, <3>2, <3>3, ReceiveExpected
  <2>3. CASE x # r
    <3>1. at'[x] = at[x] /\ field'[x] = field[x]
      BY <1>1, <1>2, <2>3 DEF CommType
    <3> QED BY <2>1, <3>1
  <2> QED BY <2>2, <2>3
<1>5. ASSUME NEW s \in Rank, NEW d \in Rank
      PROVE  ChannelInv(s, d)'
  <2>1. ASSUME NEW c \in Calls, Goes(c, s, d)
        PROVE  c # at[r] \/ (r # s /\ r # d)
    <3> SUFFICES ASSUME c = at[r], r = s \/ r = d PROVE FALSE
      OBVIOUS
    <3>1. /\ Neighbour(r, Plan[c].axis, Plan[c].dir) = r
          /\ Neighbour(r, Plan[c].axis, -Plan[c].dir) = r
      BY <1>1 DEF ToSelf, Dest, Origin, Op
    <3>2. Neighbour(s, Plan[c].axis, Plan[c].dir) = d /\ s # d
      BY <2>1 DEF Goes
    <3>3. Neighbour(d, Plan[c].axis, -Plan[c].dir) = s
      BY <2>1, GoesBack
    <3> QED BY <3>1, <3>2, <3>3
  <2>2. \A c \in Calls : Goes(c, s, d) =>
           /\ IsPosted(c, s)' <=> IsPosted(c, s)
           /\ at'[d] <= c <=> at[d] <= c
           /\ c < at'[d] <=> c < at[d]
    BY ZenonT(40), <1>1, <1>2, <1>3, <2>1, GoesOn
  <2>3. ChannelInv(s, d) /\ chan'[<<s, d>>] = chan[<<s, d>>]
    BY <1>1 DEF IInv
  <2> QED BY <2>2, <2>3, QuietChannel
<1> QED BY <1>4, <1>5 DEF IInv

\* The message r sends becomes the last of its channel.
LEMMA PostSendKeeps ==
  ASSUME IInv, CommType', NEW r \in Rank, PostSend(r)
  PROVE  IInv'
<1>0. PICK m : m = [tag |-> Op(r).tag, data |-> Outgoing(Op(r), field[r]), turn |-> at[r]]
  OBVIOUS
<1>1. /\ InPlan(r) /\ ~ToSelf(r) /\ ~posted[r] /\ posted' = [posted EXCEPT ![r] = TRUE]
      /\ UNCHANGED <<field, at>>
      /\ chan' = IF Dest(r) = Null THEN chan ELSE [chan EXCEPT ![<<r, Dest(r)>>] = Append(@, m)]
  BY <1>0 DEF PostSend, Post
<1>2. posted \in [Rank -> BOOLEAN] /\ CommType /\ FieldInv
  BY DEF IInv, CommType
<1>3. FieldInv'
  BY <1>1, <1>2 DEF FieldInv, Expected, Holds
<1> SUFFICES ASSUME NEW s \in Rank, NEW d \in Rank
             PROVE  ChannelInv(s, d)'
  BY <1>3 DEF IInv
<1>4. ChannelInv(s, d)
  BY DEF IInv
<1>5. PICK c0 \in Calls : c0 = at[r] /\ Op(r) = Plan[c0]
  BY <1>1, OpType
<1>6. /\ \A c \in Calls, x \in Rank : IsPosted(c, x)' <=> IsPosted(c, x) \/ (x = r /\ c = c0)
      /\ \A x \in Rank : at'[x] = at[x] /\ at[x] \in Nat
      /\ Calls \subseteq Nat
  BY <1>1, <1>2, <1>5, ThePlan DEF IsPosted, CommType, Calls
<1>7. CASE s = r /\ d = Dest(r)
  <2>0. PICK q : q = chan[<<r, d>>]
    OBVIOUS
  <2>1. PICK S : q \in Seq(S)
    BY <1>2, <2>0 DEF CommType
  <2>2. chan'[<<s, d>>] = Append(q, m)
    <3>1. Dest(r) # Null
      BY <1>7, NullIsNoRank
    <3>2. <<r, d>> \in DOMAIN chan
      BY <1>2 DEF CommType
    <3> QED BY <1>1, <1>7, <2>0, <3>1, <3>2
  <2>3. /\ Len(chan'[<<s, d>>]) = Len(q) + 1 /\ Len(q) \in Nat
        /\ \A k \in 1 .. Len(q) : chan'[<<s, d>>][k] = q[k]
        /\ chan'[<<s, d>>][Len(q) + 1] = m
    <3>1. q \in Seq(S \cup {m}) /\ m \in S \cup {m}
      BY <2>1
    <3> QED BY <2>2, <3>1, AppendProperties
  <2>4. Goes(c0, r, d)
    <3>1. Neighbour(r, Op(r).axis, Op(r).dir) = d
      BY <1>7 DEF Dest
    <3>2. r # d
      BY <1>1, <1>7, BothSides DEF ToSelf
    <3> QED BY <1>5, <3>1, <3>2 DEF Goes
  <2>5. ~IsPosted(c0, r)
    BY <1>1, <1>5, <1>6 DEF IsPosted
  <2>6. at[d] <= c0
    BY <1>4, <1>5, <1>6, <1>7, <2>4, <2>5 DEF ChannelInv
  <2>7. MessageInv(m, r, d)'
    <3>1. m.turn = c0 /\ m.tag = Plan[c0].tag /\ m.data = Outgoing(Plan[c0], Expected(r, c0))
      BY <1>0, <1>2, <1>5 DEF FieldInv
    <3>2. IsPosted(c0, r)' /\ at'[d] <= c0
      BY <1>5, <1>6, <2>6
    <3> QED BY <1>5, <2>4, <3>1, <3>2 DEF MessageInv, Goes
  <2>8. \A k \in 1 .. Len(q) : MessageInv(q[k], r, d) /\ MessageInv(q[k], r, d)'
    <3> SUFFICES ASSUME NEW k \in 1 .. Len(q)
                 PROVE  MessageInv(q[k], r, d) /\ MessageInv(q[k], r, d)'
      OBVIOUS
    <3>1. MessageInv(q[k], r, d)
      BY <1>4, <1>7, <2>0 DEF ChannelInv
    <3> QED BY <1>6, <3>1 DEF MessageInv, Goes
  <2>9. \A k \in 1 .. Len(q) : q[k].turn < c0
    <3> SUFFICES ASSUME NEW k \in 1 .. Len(q) PROVE q[k].turn < c0
      OBVIOUS
    <3>1. IsPosted(q[k].turn, r)
      BY <2>8 DEF MessageInv
    <3> QED BY <1>1, <1>5, <3>1 DEF IsPosted
  <2>10. PICK u : u = chan'[<<s, d>>]
    OBVIOUS
  <2> DEFINE n == Len(q) + 1
  <2>11. /\ Len(u) = n /\ n \in Nat /\ u[n] = m /\ m.turn = c0
         /\ \A k \in 1 .. Len(u) : k = n \/ (k \in 1 .. Len(q) /\ u[k] = q[k])
         /\ \A k \in 1 .. Len(q) : k \in 1 .. Len(u) /\ u[k] = q[k]
    <3>1. m.turn = c0
      BY <1>0, <1>5
    <3>2. \A k \in 1 .. Len(q) + 1 : k = Len(q) + 1 \/ k \in 1 .. Len(q)
      BY <2>3
    <3>3. \A k \in 1 .. Len(q) : k \in 1 .. Len(q) + 1
      BY <2>3
    <3> QED BY <2>3, <2>10, <3>1, <3>2, <3>3
  <2> HIDE DEF n
  <2>12. \A k \in 1 .. Len(u) : MessageInv(u[k], r, d)'
    BY <2>7, <2>8, <2>11
  <2>13. \A k, l \in 1 .. Len(u) : k < l => u[k].turn < u[l].turn
    <3> SUFFICES ASSUME NEW k \in 1 .. Len(u), NEW l \in 1 .. Len(u), k < l
                 PROVE  u[k].turn < u[l].turn
      OBVIOUS
    <3>1. k \in 1 .. Len(q) /\ u[k] = q[k]
      BY <2>11 DEF n
    <3>2. CASE l = n
      BY <2>9, <2>11, <3>1, <3>2
    <3>3. CASE l # n
      BY <1>4, <1>7, <2>0, <2>11, <3>1, <3>3 DEF ChannelInv
    <3> QED BY <3>2, <3>3
  <2>14. ASSUME NEW c \in Calls, Goes(c, r, d), IsPosted(c, r)', at'[d] <= c
         PROVE  \E k \in 1 .. Len(u) : u[k].turn = c
    <3>1. CASE c = c0
      BY <2>11, <3>1 DEF n
    <3>2. CASE c # c0
      <4>1. IsPosted(c, r) /\ at[d] <= c
        BY <1>6, <2>14, <3>2
      <4>2. \E k \in 1 .. Len(q) : q[k].turn = c
        BY <1>4, <1>7, <2>0, <2>14, <4>1 DEF ChannelInv
      <4> QED BY <2>11, <4>2
    <3> QED BY <3>1, <3>2
  <2>15. \A c \in Calls : Goes(c, r, d) /\ c < at'[d] => IsPosted(c, r)'
    BY <1>4, <1>6, <1>7 DEF ChannelInv
  <2>16. u = chan[<<s, d>>]'
    BY <2>10
  <2> QED BY <1>7, <2>12, <2>13, <2>14, <2>15, <2>16 DEF ChannelInv, Goes
<1>8. CASE ~(s = r /\ d = Dest(r))
  <2>1. chan'[<<s, d>>] = chan[<<s, d>>]
    BY <1>1, <1>2, <1>8 DEF CommType
  <2>2. Goes(c0, r, d) => d = Dest(r)
    BY <1>5 DEF Goes, Dest
  <2>3. \A c \in Calls : Goes(c, s, d) =>
           /\ IsPosted(c, s)' <=> IsPosted(c, s)
           /\ at'[d] <= c <=> at[d] <= c
           /\ c < at'[d] <=> c < at[d]
    BY <1>6, <1>8, <2>2
  <2> QED BY <1>4, <2>1, <2>3, QuietChannel
<1> QED BY <1>7, <1>8

\* The message r can receive is the first of the channel, and of r's own call: its source
\* can have sent later ones only after this one, which nobody but r takes.
LEMMA FirstOne ==
  ASSUME IInv, NEW r \in Rank, InPlan(r), posted[r], Origin(r) # Null,
         NEW k \in DOMAIN chan[<<Origin(r), r>>]
  PROVE  /\ Receivable(chan, Origin(r), r, Op(r).tag) = {1}
         /\ 1 \in DOMAIN chan[<<Origin(r), r>>]
         /\ 1 \in 1 .. Len(chan[<<Origin(r), r>>])
         /\ chan[<<Origin(r), r>>][1].turn = at[r]
<1>0. PICK s \in Rank : s = Origin(r) /\ Goes(at[r], s, r)
  BY SourceSends DEF IInv, CommType
<1>1. CommType /\ ChannelInv(s, r)
  BY DEF IInv
<1>2. PICK c0 \in Calls : c0 = at[r] /\ Op(r) = Plan[c0]
  BY OpType
<1>3. PICK q : q = chan[<<s, r>>]
  OBVIOUS
<1>4. DOMAIN q = 1 .. Len(q) /\ Len(q) \in Nat
  <2>1. PICK S : q \in Seq(S)
    BY <1>1, <1>3 DEF CommType
  <2> QED BY <2>1
<1>5. k \in 1 .. Len(q)
  BY <1>0, <1>3, <1>4
<1>6. \A l \in 1 .. Len(q) : MessageInv(q[l], s, r)
  BY <1>1, <1>3 DEF ChannelInv
<1>7. Calls \subseteq Nat /\ at[s] \in Nat /\ at[r] \in Nat
  BY <1>1, ThePlan DEF CommType, Calls
<1>8. IsPosted(c0, s)
  <2>1. q[k].turn \in Calls /\ IsPosted(q[k].turn, s) /\ c0 <= q[k].turn
    BY <1>2, <1>5, <1>6 DEF MessageInv
  <2>2. CASE q[k].turn = c0
    BY <2>1, <2>2
  <2>3. CASE q[k].turn # c0
    <3>1. PICK t \in Nat : t = q[k].turn
      BY <1>7, <2>1
    <3>2. c0 \in Nat /\ at[s] \in Nat
      BY <1>7
    <3>3. t <= at[s] /\ c0 < t
      <4>1. t < at[s] \/ t = at[s]
        BY <2>1, <3>1 DEF IsPosted
      <4>2. c0 <= t /\ c0 # t
        BY <2>1, <2>3, <3>1
      <4> QED BY <3>2, <4>1, <4>2
    <3>4. c0 < at[s]
      BY <3>2, <3>3
    <3> QED BY <3>4 DEF IsPosted
  <2> QED BY <2>2, <2>3
<1>9. PICK j \in 1 .. Len(q) : q[j].turn = c0
  BY <1>0, <1>1, <1>2, <1>3, <1>7, <1>8 DEF ChannelInv
<1>10. j = 1
  <2> SUFFICES ASSUME j # 1 PROVE FALSE
    OBVIOUS
  <2>1. 1 \in 1 .. Len(q) /\ 1 < j
    BY <1>4, <1>9
  <2>2. q[1].turn < c0
    BY <1>1, <1>3, <1>9, <2>1 DEF ChannelInv
  <2>3. q[1].turn \in Calls /\ c0 <= q[1].turn
    BY <1>2, <1>6, <2>1 DEF MessageInv
  <2>4. q[1].turn \in Nat /\ c0 \in Nat
    BY <1>7, <2>3
  <2> QED BY <2>2, <2>3, <2>4
<1>11. 1 \in 1 .. Len(q) /\ q[1].turn = c0 /\ q[1].tag = Op(r).tag
  BY <1>2, <1>6, <1>9, <1>10 DEF MessageInv
<1>12. Receivable(chan, s, r, Op(r).tag) = {1}
  <2>1. ASSUME NEW l \in Receivable(chan, s, r, Op(r).tag)
        PROVE  l = 1
    <3>1. l \in 1 .. Len(q) /\ \A i \in 1 .. l - 1 : q[i].tag # Op(r).tag
      BY <1>3, <1>4, <2>1 DEF Receivable
    <3>2. ~(1 \in 1 .. l - 1)
      BY <1>11, <3>1
    <3> QED BY <3>1, <3>2
  <2>2. 1 \in Receivable(chan, s, r, Op(r).tag)
    <3>1. \A i \in 1 .. 1 - 1 : FALSE
      OBVIOUS
    <3> QED BY <1>3, <1>4, <1>11, <3>1 DEF Receivable
  <2> QED BY <2>1, <2>2
<1> QED BY <1>0, <1>2, <1>3, <1>4, <1>11, <1>12

\* The message r receives leaves the front of its channel, and r the call it is for.
LEMMA CompleteReceiveKeeps ==
  ASSUME IInv, CommType', NEW r \in Rank, CompleteReceive(r)
  PROVE  IInv'
<1>1. /\ InPlan(r) /\ posted[r] /\ posted' = [posted EXCEPT ![r] = FALSE]
      /\ at' = [at EXCEPT ![r] = @ + 1]
  BY DEF CompleteReceive, MayReceive, Receive
<1>2. CommType /\ FieldInv /\ ~ToSelf(r)
  BY <1>1 DEF IInv, CommType
<1>3. PICK c0 \in Calls : c0 = at[r] /\ Op(r) = Plan[c0]
  BY <1>1, OpType
<1>4. Calls \subseteq Nat /\ \A x \in Rank : at[x] \in Nat
  BY <1>2, ThePlan DEF CommType, Calls
<1>5. FieldInv'
  <2> SUFFICES ASSUME NEW x \in Rank
               PROVE  field'[x] = Expected(x, at'[x])
    BY DEF FieldInv, Expected, Holds
  <2>1. field[x] = Expected(x, at[x]) /\ field[r] = Expected(r, at[r])
    BY <1>2 DEF FieldInv
  <2>2. CASE x # r
    <3>1. at'[x] = at[x] /\ field'[x] = field[x]
      BY <1>1, <1>2, <2>2 DEF CommType, CompleteReceive, Receive
    <3> QED BY <2>1, <3>1
  <2>3. CASE x = r /\ Origin(r) = Null
    <3>1. at'[r] = at[r] + 1 /\ UNCHANGED field
      BY <1>1, <1>2, <2>3 DEF CommType, CompleteReceive
    <3>2. Neighbour(r, Plan[c0].axis, -Plan[c0].dir) = Null
      BY <1>3, <2>3 DEF Origin
    <3> QED BY <1>3, <2>1, <2>3, <3>1, <3>2, NothingComes
  <2>4. CASE x = r /\ Origin(r) # Null
    <3>1. PICK k \in Receivable(chan, Origin(r), r, Op(r).tag) :
             field' = [field EXCEPT ![r] =
                         Incoming(Op(r), @, chan[<<Origin(r), r>>][k].data)]
      BY <2>4 DEF CompleteReceive, Receive
    <3>2. PICK s \in Rank : s = Origin(r)
      BY <1>1, <1>2, <2>4, SourceSends
    <3>3. k = 1 /\ 1 \in 1 .. Len(chan[<<s, r>>]) /\ chan[<<s, r>>][1].turn = c0
      <4>1. k \in DOMAIN chan[<<Origin(r), r>>]
        BY <3>1 DEF Receivable
      <4> QED BY <1>1, <1>3, <2>4, <3>1, <3>2, <4>1, FirstOne
    <3>4. MessageInv(chan[<<s, r>>][1], s, r)
      BY <3>3 DEF IInv, ChannelInv
    <3>5. chan[<<s, r>>][1].data = Outgoing(Plan[c0], Expected(s, c0))
      BY <3>3, <3>4 DEF MessageInv
    <3>6. Neighbour(r, Plan[c0].axis, -Plan[c0].dir) = s
      BY <1>3, <3>2 DEF Origin
    <3>7. field'[r] = Incoming(Plan[c0], field[r], Outgoing(Plan[c0], Expected(s, c0)))
      BY <1>2, <1>3, <3>1, <3>2, <3>3, <3>5 DEF CommType
    <3>8. at'[r] = c0 + 1
      BY <1>1, <1>2, <1>3 DEF CommType
    <3> QED BY <1>3, <2>1, <2>4, <3>6, <3>7, <3>8, ReceiveExpected
  <2> QED BY <2>2, <2>3, <2>4
<1> SUFFICES ASSUME NEW s \in Rank, NEW d \in Rank
             PROVE  ChannelInv(s, d)'
  BY <1>5 DEF IInv
<1>6. ChannelInv(s, d)
  BY DEF IInv
<1>7. \A c \in Calls, x \in Rank :
        /\ IsPosted(c, x)' <=> IsPosted(c, x)
        /\ c < at'[x] <=> c < at[x] \/ (x = r /\ c = c0)
        /\ at'[x] <= c <=> at[x] <= c /\ ~(x = r /\ c = c0)
  <2> SUFFICES ASSUME NEW c \in Calls, NEW x \in Rank
               PROVE  /\ IsPosted(c, x)' <=> IsPosted(c, x)
                      /\ c < at'[x] <=> c < at[x] \/ (x = r /\ c = c0)
                      /\ at'[x] <= c <=> at[x] <= c /\ ~(x = r /\ c = c0)
    OBVIOUS
  <2>1. c = at[r] => IsPosted(c, r)
    BY <1>1 DEF IsPosted
  <2>2. /\ c < at'[x] <=> c < at[x] \/ (x = r /\ c = at[r])
        /\ at'[x] <= c <=> at[x] <= c /\ ~(x = r /\ c = at[r])
        /\ IsPosted(c, x)' <=> IsPosted(c, x) \/ (x = r /\ c = at[r])
    BY <1>1, <1>2, GoesOn
  <2> QED BY <1>3, <2>1, <2>2
<1>8. \A x \in Rank : Goes(c0, x, r) => x = Origin(r)
  <2> SUFFICES ASSUME NEW x \in Rank, Goes(c0, x, r) PROVE x = Origin(r)
    OBVIOUS
  <2>1. Neighbour(r, Plan[c0].axis, -Plan[c0].dir) = x
    BY GoesBack
  <2> QED BY <1>3, <2>1 DEF Origin
<1>9. CASE s = Origin(r) /\ d = r
  <2>0. PICK q : q = chan[<<s, d>>]
    OBVIOUS
  <2>1. PICK S : q \in Seq(S)
    BY <1>2, <2>0 DEF CommType
  <2>2. Origin(r) # Null
    BY <1>9, NullIsNoRank
  <2>3. PICK k \in Receivable(chan, Origin(r), r, Op(r).tag) : chan' = Taken(chan, Origin(r), r, k)
    BY <2>2 DEF CompleteReceive
  <2>4. k \in DOMAIN chan[<<Origin(r), r>>]
    BY <2>3 DEF Receivable
  <2>5. k = 1 /\ 1 \in 1 .. Len(q) /\ q[1].turn = c0
    BY <1>1, <1>3, <1>9, <2>0, <2>2, <2>3, <2>4, FirstOne
  <2>6. PICK u : u = RemoveAt(q, 1)
    OBVIOUS
  <2>7. chan'[<<s, d>>] = u
    <3>1. <<s, d>> \in DOMAIN chan
      BY <1>2 DEF CommType
    <3> QED BY <1>9, <2>0, <2>3, <2>5, <2>6, <3>1 DEF Taken
  <2>8. PICK n \in Nat : n = Len(q) /\ 1 \in 1 .. n
    BY <2>1, <2>5
  <2>9. u \in Seq(S) /\ Len(u) = n - 1 /\ \A i \in 1 .. n - 1 : u[i] = q[i + 1]
    BY <2>1, <2>6, <2>8, TakenOut
  <2>10. /\ \A i \in 1 .. n : MessageInv(q[i], s, d)
         /\ \A i, l \in 1 .. n : i < l => q[i].turn < q[l].turn
    BY <1>6, <2>0, <2>8 DEF ChannelInv
  <2>11. \A i \in 1 .. Len(u) : i + 1 \in 1 .. n /\ u[i] = q[i + 1] /\ c0 < u[i].turn
    <3> SUFFICES ASSUME NEW i \in 1 .. Len(u)
                 PROVE  i + 1 \in 1 .. n /\ u[i] = q[i + 1] /\ c0 < u[i].turn
      OBVIOUS
    <3>1. i + 1 \in 1 .. n /\ u[i] = q[i + 1] /\ 1 < i + 1
      BY <2>8, <2>9
    <3> QED BY <2>5, <2>8, <2>10, <3>1
  <2>12. \A i \in 1 .. Len(u) : MessageInv(u[i], s, d)'
    <3> SUFFICES ASSUME NEW i \in 1 .. Len(u) PROVE MessageInv(u[i], s, d)'
      OBVIOUS
    <3>1. MessageInv(u[i], s, d) /\ c0 < u[i].turn
      BY <2>10, <2>11
    <3>2. u[i].turn \in Calls /\ u[i].turn # c0
      BY <1>4, <3>1 DEF MessageInv
    <3> QED BY <1>7, <3>1, <3>2 DEF MessageInv, Goes
  <2>13. \A i, l \in 1 .. Len(u) : i < l => u[i].turn < u[l].turn
    <3> SUFFICES ASSUME NEW i \in 1 .. Len(u), NEW l \in 1 .. Len(u), i < l
                 PROVE  u[i].turn < u[l].turn
      OBVIOUS
    <3>1. i + 1 < l + 1 /\ i + 1 \in 1 .. n /\ l + 1 \in 1 .. n
      BY <2>11
    <3> QED BY <2>10, <2>11, <3>1
  <2>14. ASSUME NEW c \in Calls, Goes(c, s, d), IsPosted(c, s)', at'[d] <= c
         PROVE  \E i \in 1 .. Len(u) : u[i].turn = c
    <3>1. IsPosted(c, s) /\ at[d] <= c /\ c # c0
      BY <1>7, <1>9, <2>14
    <3>2. PICK l \in 1 .. n : q[l].turn = c
      BY <1>6, <2>0, <2>8, <2>14, <3>1 DEF ChannelInv
    <3>3. l # 1
      BY <2>5, <3>1, <3>2
    <3>4. l - 1 \in 1 .. n - 1 /\ l - 1 + 1 = l
      BY <2>8, <3>3
    <3>5. u[l - 1].turn = c /\ l - 1 \in 1 .. Len(u)
      BY <2>9, <3>2, <3>4
    <3> QED BY <3>5
  <2>15. \A c \in Calls : Goes(c, s, d) /\ c < at'[d] => IsPosted(c, s)'
    <3>1. IsPosted(c0, s)
      <4>1. MessageInv(q[1], s, d)
        BY <2>8, <2>10
      <4> QED BY <2>5, <4>1 DEF MessageInv
    <3> QED BY <1>6, <1>7, <1>9, <3>1 DEF ChannelInv
  <2>16. u = chan[<<s, d>>]'
    BY <2>7
  <2> QED BY <2>12, <2>13, <2>14, <2>15, <2>16 DEF ChannelInv, Goes
<1>10. CASE ~(s = Origin(r) /\ d = r)
  <2>1. chan'[<<s, d>>] = chan[<<s, d>>]
    <3>1. CASE UNCHANGED chan
      BY <3>1
    <3>2. CASE chan' # chan
      <4>1. PICK k : chan' = Taken(chan, Origin(r), r, k)
        BY <3>2 DEF CompleteReceive
      <4> QED BY <1>2, <1>10, <4>1 DEF Taken, CommType
    <3> QED BY <3>1, <3>2
  <2>2. \A c \in Calls : Goes(c, s, d) =>
           /\ IsPosted(c, s)' <=> IsPosted(c, s)
           /\ at'[d] <= c <=> at[d] <= c
           /\ c < at'[d] <=> c < at[d]
    BY <1>7, <1>8, <1>10
  <2> QED BY <1>6, <2>1, <2>2, QuietChannel
<1> QED BY <1>9, <1>10

LEMMA InitIInv ==
  ASSUME Init
  PROVE  IInv
<1>1. /\ at = [r \in Rank |-> 1] /\ posted = [r \in Rank |-> FALSE]
      /\ chan = [p \in Rank \X Rank |-> <<>>]
      /\ field = [r \in Rank |-> [c \in Local |-> SetToBag({<<r, c>>})]]
  BY DEF Init, NoMessages
<1>2. CommType
  <2>1. \A p \in Rank \X Rank : chan[p] \in Seq({})
    BY <1>1
  <2>2. 1 \in 1 .. Len(Plan) + 1
    BY ThePlan
  <2> QED BY <1>1, <2>1, <2>2 DEF CommType
<1>3. ASSUME NEW r \in Rank
      PROVE  field[r] = Expected(r, 1)
  <2>1. \A k \in Axis : Stage(1, k) = 0
    BY DimAssumption DEF Stage, Clip, Axis
  <2>2. ASSUME NEW c \in Local
        PROVE  {p \in Deposit : Holds(r, 1, c, p)} = {<<r, c>>}
    <3>1. r \in [Axis -> Nat] /\ c \in [Axis -> Nat]
      BY Ranks, Locals
    <3>2. ASSUME NEW s \in Rank, NEW d \in Local
          PROVE  Holds(r, 1, c, <<s, d>>) <=> s = r /\ d = c
      <4>1. s \in [Axis -> Nat] /\ d \in [Axis -> Nat]
        BY Ranks, Locals
      <4>2. \A k \in Axis : Has(k, 0, r[k], c[k], s[k], d[k]) <=> s[k] = r[k] /\ d[k] = c[k]
        BY DEF Has, Added, CopiedFromLeft, CopiedFromRight
      <4>3. Holds(r, 1, c, <<s, d>>) <=> \A k \in Axis : s[k] = r[k] /\ d[k] = c[k]
        BY <2>1, <4>2 DEF Holds
      <4> QED BY <3>1, <4>1, <4>3
    <3>3. <<r, c>> \in Deposit
      BY DEF Deposit
    <3> QED BY <3>2, <3>3 DEF Deposit
  <2> QED BY <1>1, <2>2 DEF Expected
<1>4. \A c \in Calls, s \in Rank : ~IsPosted(c, s) /\ ~(c < at[s])
  BY <1>1, ThePlan DEF IsPosted, Calls
<1>5. \A s, d \in Rank : Len(chan[<<s, d>>]) = 0
  BY <1>1
<1>6. FieldInv
  BY <1>1, <1>3 DEF FieldInv
<1>7. ASSUME NEW s \in Rank, NEW d \in Rank
      PROVE  ChannelInv(s, d)
  BY <1>4, <1>5 DEF ChannelInv
<1> QED BY <1>2, <1>6, <1>7 DEF IInv

LEMMA NextIInv ==
  ASSUME IInv, [Next]_vars
  PROVE  IInv'
<1>1. CommType'
  BY CommTypeStep DEF IInv
<1>2. CASE UNCHANGED vars
  <2>1. UNCHANGED <<field, at, posted, chan>>
    BY <1>2 DEF vars
  <2>2. FieldInv'
    BY <2>1 DEF IInv, FieldInv, Expected, Holds
  <2>3. ASSUME NEW s \in Rank, NEW d \in Rank
        PROVE  ChannelInv(s, d)'
    <3>1. ChannelInv(s, d)
      BY DEF IInv
    <3> QED BY <2>1, <3>1, QuietChannel DEF IsPosted
  <2> QED BY <1>1, <2>2, <2>3 DEF IInv
<1> QED BY <1>1, <1>2, CopyToSelfKeeps, PostSendKeeps, CompleteReceiveKeeps DEF Next, Step

\* At every moment the values of every rank and the messages under way are those that
\* belong to the calls the ranks are at.
THEOREM AsExpected == Spec => []IInv
<1> QED BY InitIInv, NextIInv, PTL DEF Spec

\* No cell ever has a deposit in it twice.
THEOREM TypeCorrect == Spec => []TypeOK
<1>1. ASSUME IInv
      PROVE  TypeOK
  <2>1. ASSUME NEW r \in Rank, NEW c \in Local
        PROVE  DOMAIN field[r][c] \subseteq Deposit /\ Range(field[r][c]) \subseteq {1}
    <3>1. PICK D \in SUBSET Deposit : field[r][c] = SetToBag(D)
      <4>1. field[r][c] = SetToBag({p \in Deposit : Holds(r, at[r], c, p)})
        BY <1>1 DEF IInv, FieldInv, Expected
      <4> QED BY <4>1
    <3>2. field[r][c] = [e \in D |-> 1]
      BY <3>1 DEF SetToBag
    <3> QED BY <3>2 DEF Range
  <2> QED BY <1>1, <2>1 DEF TypeOK, IInv, CommType
<1> QED BY <1>1, AsExpected, PTL

--------------------------------------------------------------------------------
\* What has come to a cell is what was deposited in copies of it.  First along an axis
\* without end, then on one of e ranks with n cells each.
LEMMA Multiples ==
  ASSUME NEW n \in Nat \ {0}, NEW q \in Int, -2 * n < q * n, q * n < 2 * n
  PROVE  q \in -1 .. 1
<1>1. ASSUME q >= 2 PROVE FALSE
  <2>1. PICK m \in Nat : q = m + 2
    <3>1. q - 2 \in Nat /\ q = q - 2 + 2
      BY <1>1
    <3> QED BY <3>1
  <2>2. m * n \in Nat
    OBVIOUS
  <2>3. (m + 2) * n = m * n + 2 * n
    OBVIOUS
  <2> QED BY <2>1, <2>2, <2>3
<1>2. ASSUME q <= -2 PROVE FALSE
  <2>1. PICK m \in Nat : q = -m - 2
    <3>1. -q - 2 \in Nat /\ q = -(-q - 2) - 2
      BY <1>2
    <3> QED BY <3>1
  <2>2. m * n \in Nat
    OBVIOUS
  <2>3. (-m - 2) * n = -(m * n) - 2 * n
    OBVIOUS
  <2> QED BY <2>1, <2>2, <2>3
<1> QED BY <1>1, <1>2

LEMMA SameAlong ==
  ASSUME NEW n \in Nat \ {0}, NEW g \in 0 .. n, NEW i \in Int, NEW j \in Int,
         NEW x \in g .. n + g - 1, NEW y \in 0 .. n + 2 * g - 1
  PROVE  j * n + y - g = i * n + x - g <=>
           \/ j = i /\ y = x
           \/ j = i + 1 /\ y = x - n
           \/ j = i - 1 /\ y = x + n
<1>1. (i + 1) * n = i * n + n /\ (i - 1) * n = i * n - n /\ i * n \in Int /\ j * n \in Int
  OBVIOUS
<1>2. ASSUME j * n + y - g = i * n + x - g
      PROVE  \/ j = i /\ y = x
             \/ j = i + 1 /\ y = x - n
             \/ j = i - 1 /\ y = x + n
  <2>1. (j - i) * n = j * n - i * n /\ j - i \in Int
    OBVIOUS
  <2>2. (j - i) * n = x - y /\ -2 * n < x - y /\ x - y < 2 * n
    BY <1>1, <1>2, <2>1
  <2>3. j - i \in -1 .. 1
    BY <2>1, <2>2, Multiples
  <2>4. j = i \/ j = i + 1 \/ j = i - 1
    BY <2>3
  <2> QED BY <1>1, <1>2, <2>4
<1> QED BY <1>1, <1>2

OnceAround(z, m, v) == z = v \/ z + m = v \/ z - m = v
LEMMA Unrolled ==
  ASSUME NEW m \in Nat \ {0}, NEW z \in -m .. 2 * m - 1, NEW v \in 0 .. m - 1
  PROVE  z % m = v <=> OnceAround(z, m, v)
<1>1. CASE z \in 0 .. m - 1
  BY <1>1 DEF OnceAround
<1>2. CASE z < 0
  <2>1. PICK w \in 0 .. m - 1 : w = z + m
    BY <1>2
  <2>2. z = w + (-1) * m
    BY <2>1
  <2>3. z % m = w
    BY <2>1, <2>2
  <2> QED BY <2>1, <2>3 DEF OnceAround
<1>3. CASE z >= m
  <2>1. PICK w \in 0 .. m - 1 : w = z - m
    BY <1>3
  <2>2. z % m = w
    BY <2>1
  <2> QED BY <2>1, <2>2 DEF OnceAround
<1> QED BY <1>1, <1>2, <1>3


\* The coordinate along axis k of the cell of the whole domain that cell x of a rank with
\* coordinate i is a copy of.
GlobalOf(k, i, x) ==
  LET z == i * Inner[k] + x - GuardOf[k]
  IN  IF Periodic[k] THEN z % (Extent[k] * Inner[k]) ELSE z

\* When everything along an axis has been added, a cell of a rank's own has what was
\* deposited in the copies of it, also if two of them are of the same rank, or if the
\* ranks to the left and to the right are the same.
LEMMA SameCell ==
  ASSUME NEW k \in Axis, NEW i \in 0 .. Extent[k] - 1, NEW j \in 0 .. Extent[k] - 1,
         NEW x \in GuardOf[k] .. Inner[k] + GuardOf[k] - 1, NEW y \in 0 .. Dims(k) - 1
  PROVE  Added(k, 2, i, x, j, y) <=> GlobalOf(k, j, y) = GlobalOf(k, i, x)
<1>1. PICK n \in Nat, g \in Nat : n = Inner[k] /\ g = GuardOf[k] /\ g <= n /\ Dims(k) = n + 2 * g
  BY Sizes
<1>2. PICK e \in Nat \ {0} : e = Extent[k]
  BY GridOfRanks
<1>3. /\ i \in 0 .. e - 1 /\ j \in 0 .. e - 1 /\ x \in g .. n + g - 1 /\ y \in 0 .. n + 2 * g - 1
      /\ n \in Nat \ {0} /\ g \in 0 .. n
  BY <1>1, <1>2
<1>4. /\ Added(k, 2, i, x, j, y) <=>
           \/ j = i /\ y = x
           \/ /\ Beside(k, i, 1) /\ j = Coordinate(k, i, 1) /\ y = x - n
           \/ /\ Beside(k, i, -1) /\ j = Coordinate(k, i, -1) /\ y = x + n
  BY <1>1, <1>3 DEF Added
<1>5. CASE ~Periodic[k]
  <2>1. GlobalOf(k, j, y) = j * n + y - g /\ GlobalOf(k, i, x) = i * n + x - g
    BY <1>1, <1>5 DEF GlobalOf
  <2>2. /\ Beside(k, i, 1) /\ j = Coordinate(k, i, 1) <=> j = i + 1
        /\ Beside(k, i, -1) /\ j = Coordinate(k, i, -1) <=> j = i - 1
    BY <1>2, <1>3, <1>5 DEF Beside, Coordinate
  <2>3. j * n + y - g = i * n + x - g <=>
          \/ j = i /\ y = x
          \/ j = i + 1 /\ y = x - n
          \/ j = i - 1 /\ y = x + n
    BY <1>3, SameAlong
  <2> QED BY <1>4, <2>1, <2>2, <2>3
<1>6. CASE Periodic[k]
  <2>1. PICK m \in Nat \ {0} : m = e * n /\ n <= m
    <3>1. PICK d \in Nat : e = d + 1
      <4>1. e - 1 \in Nat /\ e = e - 1 + 1
        OBVIOUS
      <4> QED BY <4>1
    <3>2. e * n = d * n + n /\ d * n \in Nat
      BY <3>1
    <3> QED BY <1>3, <3>2
  <2>2. \A a \in 0 .. e - 1 : a * n \in Nat /\ a * n + n <= m
    <3> SUFFICES ASSUME NEW a \in 0 .. e - 1 PROVE a * n \in Nat /\ a * n + n <= m
      OBVIOUS
    <3>1. PICK d \in Nat : e = a + 1 + d
      <4>1. e - a - 1 \in Nat /\ e = a + 1 + (e - a - 1)
        OBVIOUS
      <4> QED BY <4>1
    <3>2. e * n = a * n + n + d * n /\ d * n \in Nat /\ a * n \in Nat
      BY <3>1
    <3> QED BY <2>1, <3>2
  <2>3. PICK z \in -m .. 2 * m - 1 : z = j * n + y - g
    BY <1>3, <2>1, <2>2
  <2>4. PICK v \in 0 .. m - 1 : v = i * n + x - g
    BY <1>3, <2>1, <2>2
  <2>5. GlobalOf(k, j, y) = z % m /\ GlobalOf(k, i, x) = v % m
    BY <1>1, <1>2, <1>6, <2>1, <2>3, <2>4 DEF GlobalOf
  <2>6. GlobalOf(k, j, y) = GlobalOf(k, i, x) <=> z = v \/ z + m = v \/ z - m = v
    <3>1. z % m = v <=> OnceAround(z, m, v)
      BY Unrolled, Zenon
    <3>2. v % m = v
      OBVIOUS
    <3> QED BY <2>5, <3>1, <3>2 DEF OnceAround
  <2>7. z + m = (j + e) * n + y - g /\ z - m = (j - e) * n + y - g
    <3>1. (j + e) * n = j * n + e * n /\ (j - e) * n = j * n - e * n
      OBVIOUS
    <3> QED BY <2>1, <2>3, <3>1
  <2>8. \A a \in {j, j + e, j - e} :
          a * n + y - g = v <=> \/ a = i /\ y = x
                                \/ a = i + 1 /\ y = x - n
                                \/ a = i - 1 /\ y = x + n
    <3>1. ASSUME NEW a \in Int
          PROVE  a * n + y - g = i * n + x - g <=> \/ a = i /\ y = x
                                                   \/ a = i + 1 /\ y = x - n
                                                   \/ a = i - 1 /\ y = x + n
      BY <1>3, SameAlong
    <3> QED BY <2>4, <3>1
  <2>9. GlobalOf(k, j, y) = GlobalOf(k, i, x) <=>
          \E a \in {j, j + e, j - e} : \/ a = i /\ y = x
                                       \/ a = i + 1 /\ y = x - n
                                       \/ a = i - 1 /\ y = x + n
    BY <2>3, <2>6, <2>7, <2>8
  <2>10. ASSUME NEW dir \in {-1, 1}
         PROVE  /\ Beside(k, i, dir)
                /\ j = Coordinate(k, i, dir) <=> \E a \in {j, j + e, j - e} : a = i + dir
    <3>1. PICK t \in -e .. 2 * e - 1 : t = i + dir
      BY <1>3
    <3>2. j \in 0 .. e - 1
      BY <1>3
    <3>3. t % e = j <=> OnceAround(t, e, j)
      BY <3>2, Unrolled, Zenon
    <3>4. /\ t + e = j <=> j - e = t
          /\ t - e = j <=> j + e = t
      BY <3>2
    <3>5. t % e = j <=> \E a \in {j, j + e, j - e} : a = t
      BY <3>3, <3>4 DEF OnceAround
    <3>6. Beside(k, i, dir) /\ Coordinate(k, i, dir) = t % e
      BY <1>2, <1>6, <3>1 DEF Beside, Coordinate
    <3> QED BY <3>1, <3>5, <3>6
  <2>11. \A a \in {j, j + e, j - e} : a = i => j = i
    BY <1>3
  <2>12. /\ Beside(k, i, 1) /\ (j = Coordinate(k, i, 1) <=> \E a \in {j, j + e, j - e} : a = i + 1)
         /\ Beside(k, i, -1)
         /\ j = Coordinate(k, i, -1) <=> \E a \in {j, j + e, j - e} : a = i - 1
    <3>1. i + (-1) = i - 1
      OBVIOUS
    <3> QED BY <2>10, <3>1
  <2> QED BY <1>4, <2>9, <2>11, <2>12
<1> QED BY <1>5, <1>6

\* Guard cells are copied from the cell they are copies of, if there is one.
LEMMA Copied ==
  ASSUME NEW k \in Axis, NEW i \in 0 .. Extent[k] - 1, NEW j \in 0 .. Extent[k] - 1,
         NEW x \in 0 .. Dims(k) - 1, NEW y \in 0 .. Dims(k) - 1,
         GlobalOf(k, i, x) \in 0 .. Extent[k] * Inner[k] - 1
  PROVE  Has(k, 4, i, x, j, y) <=> GlobalOf(k, j, y) = GlobalOf(k, i, x)
<1>1. PICK n \in Nat, g \in Nat : n = Inner[k] /\ g = GuardOf[k] /\ g <= n /\ Dims(k) = n + 2 * g
  BY Sizes
<1>2. PICK e \in Nat \ {0} : e = Extent[k]
  BY GridOfRanks
<1>3. i \in 0 .. e - 1 /\ x \in 0 .. n + 2 * g - 1
  BY <1>1, <1>2
<1>4. CASE g <= x /\ x < n + g
  <2>1. Has(k, 4, i, x, j, y) <=> Added(k, 2, i, x, j, y)
    BY <1>1, <1>3, <1>4 DEF Has, Added, CopiedFromRight, CopiedFromLeft
  <2>2. x \in g .. n + g - 1
    BY <1>3, <1>4
  <2> QED BY <1>1, <2>1, <2>2, SameCell
<1>5. CASE x >= n + g
  <2>1. Beside(k, i, 1)
    <3>1. CASE ~Periodic[k]
      <4>1. i * n + x - g < e * n
        <5>1. GlobalOf(k, i, x) = i * n + x - g
          BY <1>1, <3>1 DEF GlobalOf
        <5>2. i * n \in Int /\ e * n \in Int
          OBVIOUS
        <5> QED BY <1>1, <1>2, <1>3, <5>1, <5>2
      <4>2. (e - 1) * n = e * n - n /\ e * n \in Int
        OBVIOUS
      <4>3. i # e - 1
        BY <1>3, <1>5, <4>1, <4>2
      <4>4. i + 1 \in 0 .. e - 1
        BY <1>3, <4>3
      <4> QED BY <1>2, <4>4 DEF Beside
    <3> QED BY <3>1 DEF Beside
  <2>2. PICK s \in 0 .. Extent[k] - 1 :
           s = Coordinate(k, i, 1) /\ Beside(k, s, -1) /\ Coordinate(k, s, -1) = i
    BY <2>1, CoordinateType
  <2>3. PICK w \in g .. n + g - 1 : w = x - n /\ g <= w /\ w < 2 * g /\ x = w + n
    <3>1. /\ x - n \in g .. n + g - 1 /\ g <= x - n /\ x - n < 2 * g /\ x = x - n + n
      BY <1>1, <1>3, <1>5
    <3> QED BY <3>1
  <2>4. Has(k, 4, i, x, j, y) <=> Added(k, 2, s, w, j, y)
    BY <1>1, <1>3, <1>5, <2>1, <2>2, <2>3 DEF Has, CopiedFromRight, CopiedFromLeft
  <2>5. Added(k, 2, s, w, i, x)
    BY <1>1, <2>2, <2>3 DEF Added
  <2>6. GlobalOf(k, i, x) = GlobalOf(k, s, w)
    BY <1>1, <2>5, SameCell
  <2> QED BY <1>1, <2>4, <2>6, SameCell
<1>6. CASE x < g
  <2>1. Beside(k, i, -1)
    <3>1. CASE ~Periodic[k]
      <4>1. GlobalOf(k, i, x) = i * n + x - g
        BY <1>1, <3>1 DEF GlobalOf
      <4>2. i * n + x - g >= 0
        BY <4>1
      <4>3. 0 * n = 0
        OBVIOUS
      <4>4. i # 0
        BY <1>3, <1>6, <4>2, <4>3
      <4>5. i + (-1) \in 0 .. e - 1
        BY <1>3, <4>4
      <4> QED BY <1>2, <4>5 DEF Beside
    <3> QED BY <3>1 DEF Beside
  <2>2. PICK s \in 0 .. Extent[k] - 1 :
           s = Coordinate(k, i, -1) /\ Beside(k, s, 1) /\ Coordinate(k, s, 1) = i
    <3>1. \A t \in {-1, 1} : -(-t) = t
      OBVIOUS
    <3>2. -(-1) = 1 /\ -1 \in {-1, 1}
      BY <3>1
    <3> QED BY <2>1, <3>2, CoordinateType
  <2>3. PICK w \in g .. n + g - 1 : w = x + n /\ n <= w /\ w < n + g /\ x = w - n
    BY <1>1, <1>3, <1>6
  <2>4. Has(k, 4, i, x, j, y) <=> Added(k, 2, s, w, j, y)
    BY <1>1, <1>3, <1>6, <2>1, <2>2, <2>3 DEF Has, CopiedFromRight, CopiedFromLeft
  <2>5. Added(k, 2, s, w, i, x)
    BY <1>1, <2>2, <2>3 DEF Added
  <2>6. GlobalOf(k, i, x) = GlobalOf(k, s, w)
    BY <1>1, <2>5, SameCell
  <2> QED BY <1>1, <2>4, <2>6, SameCell
<1> QED BY <1>3, <1>4, <1>5, <1>6


LEMMA OnTheGrid ==
  ASSUME NEW r \in Rank, NEW c \in Local, NEW k \in Axis
  PROVE  /\ r[k] \in 0 .. Extent[k] - 1 /\ c[k] \in 0 .. Dims(k) - 1
         /\ Global[<<r, c>>] = [l \in Axis |-> GlobalOf(l, r[l], c[l])]
<1>1. r[k] \in 0 .. Extent[k] - 1 /\ c[k] \in 0 .. Dims(k) - 1
  BY Ranks, Locals, GridOfRanks
<1>2. <<r, c>> \in Rank \X Local
  OBVIOUS
<1> QED BY <1>1, <1>2 DEF Global, GlobalOf

\* A cell has the sum of what was deposited in it if, along each axis, it has what was
\* deposited in its copies.
LEMMA SumIs ==
  ASSUME NEW r \in Rank, NEW c \in Local, NEW a,
         \A k \in Axis : \A j \in 0 .. Extent[k] - 1 : \A y \in 0 .. Dims(k) - 1 :
           Has(k, Stage(a, k), r[k], c[k], j, y) <=> GlobalOf(k, j, y) = GlobalOf(k, r[k], c[k])
  PROVE  Expected(r, a)[c] = Sum[Global[r, c]]
<1>1. ASSUME NEW p \in Deposit
      PROVE  Holds(r, a, c, p) <=> Global[p] = Global[r, c]
  <2>1. PICK s \in Rank, d \in Local : p = <<s, d>>
    BY DEF Deposit
  <2>2. ASSUME NEW k \in Axis
        PROVE  Has(k, Stage(a, k), r[k], c[k], s[k], d[k]) <=>
                 GlobalOf(k, s[k], d[k]) = GlobalOf(k, r[k], c[k])
    <3>1. s[k] \in 0 .. Extent[k] - 1 /\ d[k] \in 0 .. Dims(k) - 1
      BY OnTheGrid
    <3> QED BY <3>1
  <2>3. 1 \in Axis
    BY DimAssumption DEF Axis
  <2>4. /\ Global[<<s, d>>] = [l \in Axis |-> GlobalOf(l, s[l], d[l])]
        /\ Global[<<r, c>>] = [l \in Axis |-> GlobalOf(l, r[l], c[l])]
    BY <2>3, OnTheGrid
  <2>5. Global[<<s, d>>] = Global[<<r, c>>] <=>
          \A k \in Axis : GlobalOf(k, s[k], d[k]) = GlobalOf(k, r[k], c[k])
    BY <2>4
  <2>6. Holds(r, a, c, p) <=> \A k \in Axis : Has(k, Stage(a, k), r[k], c[k], s[k], d[k])
    BY <2>1 DEF Holds
  <2> QED BY <2>1, <2>2, <2>5, <2>6
<1>2. Expected(r, a)[c] = SetToBag({p \in Deposit : Holds(r, a, c, p)})
  BY DEF Expected
<1>3. {p \in Deposit : Holds(r, a, c, p)} = {p \in Deposit : Global[p] = Global[r, c]}
  BY <1>1
<1>4. Global[r, c] \in Range(Global)
  <2>1. <<r, c>> \in Rank \X Local /\ DOMAIN Global = Rank \X Local
    BY DEF Global
  <2> QED BY <2>1 DEF Range
<1>5. Sum[Global[r, c]] = SetToBag({p \in Deposit : Global[p] = Global[r, c]})
  BY <1>4 DEF Sum
<1> QED BY <1>2, <1>3, <1>5

LEMMA Through ==
  ASSUME NEW a \in 1 .. Len(Plan) + 1, NEW k \in Axis
  PROVE  /\ a > 2 * Dim => Stage(a, k) \in 2 .. 4
         /\ a > 4 * Dim => Stage(a, k) = 4
<1>1. a \in 1 .. 4 * Dim + 1 /\ Dim \in 1 .. 3 /\ k \in 1 .. Dim
  BY ThePlan, DimAssumption DEF Axis
<1> QED BY <1>1 DEF Stage, Clip

\* As soon as a rank is through send_add_guard_cells, and from then on, its own cells
\* have all that was deposited in them by any rank, whatever the other ranks are doing.
THEOREM SumsComplete == Spec => []SumComplete
<1>1. ASSUME IInv
      PROVE  SumComplete
  <2> SUFFICES ASSUME NEW r \in Rank, at[r] > 2 * Dim, NEW c \in Local, Interior(c)
               PROVE  field[r][c] = Sum[Global[r, c]]
    BY DEF SumComplete
  <2>1. field[r] = Expected(r, at[r]) /\ at[r] \in 1 .. Len(Plan) + 1
    BY <1>1 DEF IInv, FieldInv, CommType
  <2>2. ASSUME NEW k \in Axis, NEW j \in 0 .. Extent[k] - 1, NEW y \in 0 .. Dims(k) - 1
        PROVE  Has(k, Stage(at[r], k), r[k], c[k], j, y) <=>
                 GlobalOf(k, j, y) = GlobalOf(k, r[k], c[k])
    <3>1. PICK n \in Nat, g \in Nat :
             n = Inner[k] /\ g = GuardOf[k] /\ g <= n /\ Dims(k) = n + 2 * g
      BY Sizes
    <3>2. r[k] \in 0 .. Extent[k] - 1 /\ c[k] \in g .. n + g - 1
      <4>1. r[k] \in 0 .. Extent[k] - 1
        BY OnTheGrid
      <4>2. c[k] \in GuardOf[k] .. Dims(k) - GuardOf[k] - 1
        BY DEF Interior
      <4>3. n + 2 * g - g - 1 = n + g - 1
        OBVIOUS
      <4> QED BY SMTT(30), <3>1, <4>1, <4>2, <4>3
    <3>3. Stage(at[r], k) \in 2 .. 4
      BY <2>1, Through
    <3>4. Has(k, Stage(at[r], k), r[k], c[k], j, y) <=> Added(k, 2, r[k], c[k], j, y)
      BY <3>1, <3>2, <3>3 DEF Has, Added, CopiedFromRight, CopiedFromLeft
    <3> QED BY <3>1, <3>2, <3>4, SameCell
  <2>3. Expected(r, at[r])[c] = Sum[Global[r, c]]
    BY <2>2, SumIs
  <2> QED BY <2>1, <2>3
<1> QED BY <1>1, AsExpected, PTL

\* When a rank is through send_guard_cells, its guard cells have the sums too, those at
\* the edges and corners included: all ranks that are through agree where they overlap.
THEOREM RanksAgree == Spec => []Agree
<1>1. ASSUME IInv
      PROVE  Agree
  <2> SUFFICES ASSUME NEW r \in Rank, at[r] > 4 * Dim, NEW c \in Local, InDomain(Global[r, c])
               PROVE  field[r][c] = Sum[Global[r, c]]
    BY DEF Agree
  <2>1. field[r] = Expected(r, at[r]) /\ at[r] \in 1 .. Len(Plan) + 1
    BY <1>1 DEF IInv, FieldInv, CommType
  <2>2. ASSUME NEW k \in Axis, NEW j \in 0 .. Extent[k] - 1, NEW y \in 0 .. Dims(k) - 1
        PROVE  Has(k, Stage(at[r], k), r[k], c[k], j, y) <=>
                 GlobalOf(k, j, y) = GlobalOf(k, r[k], c[k])
    <3>1. /\ r[k] \in 0 .. Extent[k] - 1 /\ c[k] \in 0 .. Dims(k) - 1
          /\ Global[<<r, c>>] = [l \in Axis |-> GlobalOf(l, r[l], c[l])]
      BY OnTheGrid
    <3>2. GlobalOf(k, r[k], c[k]) \in 0 .. Extent[k] * Inner[k] - 1
      BY <3>1 DEF InDomain
    <3>3. Stage(at[r], k) = 4
      BY <2>1, Through
    <3>4. PICK i \in 0 .. Extent[k] - 1, x \in 0 .. Dims(k) - 1 : i = r[k] /\ x = c[k]
      BY <3>1
    <3>5. Has(k, 4, i, x, j, y) <=> GlobalOf(k, j, y) = GlobalOf(k, i, x)
      BY <3>2, <3>4, Copied, Zenon
    <3> QED BY <3>3, <3>4, <3>5
  <2>3. Expected(r, at[r])[c] = Sum[Global[r, c]]
    BY <2>2, SumIs
  <2> QED BY <2>1, <2>3
<1> QED BY <1>1, AsExpected, PTL

--------------------------------------------------------------------------------
\* The guards of Step(r): what they ask for besides values that a step gives to variables.
CanGoOn(r) ==
  /\ InPlan(r)
  /\ \/ ~posted[r] /\ SendsDone(chan, r)
     \/ posted[r] /\ (Origin(r) = Null \/ Receivable(chan, Origin(r), r, Op(r).tag) # {})
NeverAllWait == (\A r \in Rank : at[r] > Len(Plan)) \/ \E r \in Rank : CanGoOn(r)

\* A rank that has not posted and is not ahead of anybody has had all it sent received.
LEMMA NothingUnderWay ==
  ASSUME IInv, NEW r \in Rank, ~posted[r], \A s \in Rank : at[r] <= at[s]
  PROVE  SendsDone(chan, r)
<1> SUFFICES ASSUME NEW d \in Rank PROVE chan[<<r, d>>] = <<>>
  BY DEF SendsDone
<1>1. CommType /\ ChannelInv(r, d)
  BY DEF IInv
<1>2. PICK q : q = chan[<<r, d>>]
  OBVIOUS
<1>3. PICK S : q \in Seq(S)
  BY <1>1, <1>2 DEF CommType
<1>4. ASSUME NEW k \in 1 .. Len(q)
      PROVE  FALSE
  <2>1. MessageInv(q[k], r, d)
    BY <1>1, <1>2, <1>4 DEF ChannelInv
  <2>2. q[k].turn \in Calls /\ q[k].turn < at[r] /\ at[d] <= q[k].turn
    BY <2>1 DEF MessageInv, IsPosted
  <2>3. PICK t \in Nat : t = q[k].turn
    BY <2>2, ThePlan DEF Calls
  <2>4. at[r] \in Nat /\ at[d] \in Nat /\ at[r] <= at[d]
    BY <1>1, ThePlan DEF CommType
  <2> QED BY <2>2, <2>3, <2>4
<1>5. Len(q) = 0
  <2>1. Len(q) \in Nat
    BY <1>3
  <2>2. ~(1 \in 1 .. Len(q))
    BY <1>4
  <2> QED BY <2>1, <2>2
<1> QED BY <1>2, <1>3, <1>5, EmptySeq

LEMMA SomeRankGoesOn ==
  ASSUME IInv
  PROVE  NeverAllWait
<1>1. CommType /\ Len(Plan) \in Nat
  BY ThePlan DEF IInv
<1>2. \A s \in Rank : at[s] \in 1 .. Len(Plan) + 1 /\ at[s] \in Nat
  BY <1>1 DEF CommType
<1>3. PICK r \in Rank : \A s \in Rank : at[r] <= at[s]
  <2> DEFINE T == {at[s] : s \in Rank}
  <2>1. [k \in Axis |-> 0] \in Rank
    BY Ranks, GridOfRanks
  <2>2. T \in SUBSET Nat /\ T # {}
    BY <1>2, <2>1
  <2> HIDE DEF T
  <2>3. PICK x \in T : \A y \in T : x <= y
    BY <2>2, LeastNumber
  <2> QED BY <2>3 DEF T
<1>4. ASSUME NEW s \in Rank, InPlan(s), ~posted[s], at[s] = at[r]
      PROVE  CanGoOn(s)
  BY <1>3, <1>4, NothingUnderWay DEF CanGoOn
<1>5. CASE ~InPlan(r)
  <2>1. at[r] = Len(Plan) + 1
    BY <1>1, <1>2, <1>5 DEF InPlan
  <2>2. \A s \in Rank : at[s] > Len(Plan)
    BY <1>1, <1>2, <1>3, <2>1
  <2> QED BY <2>2 DEF NeverAllWait
<1>6. CASE InPlan(r) /\ ~posted[r]
  BY <1>4, <1>6 DEF NeverAllWait
<1>7. CASE InPlan(r) /\ posted[r]
  <2>1. ~ToSelf(r)
    BY <1>1, <1>7 DEF CommType
  <2>2. CASE Origin(r) = Null
    BY <1>7, <2>2 DEF NeverAllWait, CanGoOn
  <2>3. CASE Origin(r) # Null
    <3>1. PICK s \in Rank : s = Origin(r) /\ Goes(at[r], s, r)
      BY <1>7, <2>1, <2>3, SourceSends
    <3>2. at[r] \in Calls /\ at[r] <= at[s] /\ at[r] \in Nat /\ at[s] \in Nat
      BY <1>2, <1>3, <1>7, OpType
    <3>3. CASE IsPosted(at[r], s)
      <4>1. ChannelInv(s, r) /\ at[r] <= at[r]
        BY <3>2 DEF IInv
      <4>2. PICK k \in 1 .. Len(chan[<<s, r>>]) : TRUE
        BY <3>1, <3>2, <3>3, <4>1 DEF ChannelInv
      <4>3. k \in DOMAIN chan[<<Origin(r), r>>]
        <5>1. PICK S : chan[<<s, r>>] \in Seq(S)
          BY <1>1 DEF CommType
        <5> QED BY <3>1, <4>2, <5>1
      <4>4. Receivable(chan, Origin(r), r, Op(r).tag) = {1}
        BY <1>7, <2>3, <4>3, FirstOne
      <4> QED BY <1>7, <4>4 DEF NeverAllWait, CanGoOn
    <3>4. CASE ~IsPosted(at[r], s)
      <4>1. at[s] = at[r] /\ ~posted[s]
        BY <3>2, <3>4 DEF IsPosted
      <4>2. InPlan(s)
        BY <1>7, <4>1 DEF InPlan
      <4> QED BY <1>4, <4>1, <4>2 DEF NeverAllWait
    <3> QED BY <3>3, <3>4
  <2> QED BY <2>2, <2>3
<1> QED BY <1>5, <1>6, <1>7

\* The ranks never all wait for one another in the two functions, also when MPI lets every
\* sender wait for its receiver.
THEOREM NeverAllWaitHolds == Spec => []NeverAllWait
<1> QED BY SomeRankGoesOn, AsExpected, PTL
================================================================================
