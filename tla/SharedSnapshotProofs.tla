--------------------------- MODULE SharedSnapshotProofs -------------------------
(***************************************************************************)
(* Proofs about the files all ranks write together, for every grid of      *)
(* ranks, every size of the grid and of the guard cells, and all numbers   *)
(* of particles.  Where a rank writes is a question of one axis at a time  *)
(* (FileCovered, FileCell, BlockCell), and of the sums MPI_Scan makes      *)
(* (Numbering, PlacesOf); that the cells a rank does not read come from    *)
(* its neighbours is again a fact about one axis (NeighbourCell), carried  *)
(* from axis to axis (AlongRight).  The inductive invariant IInv says what *)
(* each rank has in memory at the place it has reached, and what the files *)
(* have of every rank that has written; from it follow that the files have *)
(* everything (SnapshotSound, OutputSound) and that it comes back          *)
(* (FieldsBack, ParticlesBack).                                            *)
(***************************************************************************)
EXTENDS SharedSnapshot, CountingLemmas

--------------------------------------------------------------------------------
LEMMA Sizes ==
  ASSUME NEW k \in Axis
  PROVE  /\ Inner[k] \in Nat /\ GuardOf[k] \in Nat /\ GuardOf[k] <= Inner[k]
         /\ Extent[k] \in Nat \ {0} /\ Dims(k) = Inner[k] + 2 * GuardOf[k]
         /\ Periodic[k] \in BOOLEAN
BY GridAssumption, GridOfRanks DEF Dims

LEMMA Largest ==
  ASSUME NEW B \in [Axis -> Nat]
  PROVE  LET E == {B[k] : k \in Axis} IN Max(E) \in E /\ \A k \in Axis : B[k] <= Max(E)
<1> DEFINE E == {B[k] : k \in Axis}
<1>1. \E x \in E : \A y \in E : x >= y
  <2>1. \A k \in Axis : B[k] \in Nat
    OBVIOUS
  <2>2. CASE Dim = 1
    BY <2>1, <2>2 DEF Axis
  <2>3. CASE Dim = 2
    BY <2>1, <2>3 DEF Axis
  <2>4. CASE Dim = 3
    <3>1. B[1] \in Nat /\ B[2] \in Nat /\ B[3] \in Nat
      BY <2>1, <2>4 DEF Axis
    <3>2. \A y \in E : y = B[1] \/ y = B[2] \/ y = B[3]
      BY <2>4 DEF Axis
    <3>3. B[1] \in E /\ B[2] \in E /\ B[3] \in E
      BY <2>4 DEF Axis
    <3>4. CASE B[1] >= B[2] /\ B[1] >= B[3]
      BY <3>1, <3>2, <3>3, <3>4
    <3>5. CASE B[2] >= B[1] /\ B[2] >= B[3]
      BY <3>1, <3>2, <3>3, <3>5
    <3>6. CASE B[3] >= B[1] /\ B[3] >= B[2]
      BY <3>1, <3>2, <3>3, <3>6
    <3> QED BY <3>1, <3>4, <3>5, <3>6
  <2> QED BY <2>2, <2>3, <2>4, DimAssumption
<1> QED BY <1>1 DEF Max

\* A box has the cells below its size along every axis.
LEMMA Boxes ==
  ASSUME NEW B \in [Axis -> Nat]
  PROVE  Cells(B) = {c \in [Axis -> Nat] : \A k \in Axis : c[k] < B[k]}
<1> DEFINE E == {B[k] : k \in Axis}
<1>1. Max(E) \in E /\ \A k \in Axis : B[k] <= Max(E)
  BY Largest
<1>2. PICK m \in Nat : m = Max(E)
  BY <1>1
<1>3. ASSUME NEW c \in [Axis -> Nat], \A k \in Axis : c[k] < B[k]
      PROVE  c \in [Axis -> 0 .. m - 1]
  <2>1. \A k \in Axis : c[k] \in 0 .. m - 1
    BY <1>1, <1>2, <1>3
  <2> QED BY <2>1
<1>4. [Axis -> 0 .. m - 1] \subseteq [Axis -> Nat]
  OBVIOUS
<1> QED BY <1>2, <1>3, <1>4 DEF Cells

LEMMA Ranks == Rank = {c \in [Axis -> Nat] : \A k \in Axis : c[k] < Extent[k]}
<1>1. Extent \in [Axis -> Nat]
  BY GridOfRanks
<1>2. Rank = Cells(Extent)
  BY DEF Rank, Cells
<1> QED BY <1>1, <1>2, Boxes

LEMMA Locals == Local = {c \in [Axis -> Nat] : \A k \in Axis : c[k] < Dims(k)}
<1> DEFINE B == [k \in Axis |-> Dims(k)]
<1>1. \A k \in Axis : Dims(k) \in Nat
  BY GridAssumption DEF Dims
<1>2. B \in [Axis -> Nat] /\ \A k \in Axis : B[k] = Dims(k)
  BY <1>1
<1>3. {B[k] : k \in Axis} = {Dims(k) : k \in Axis}
  BY <1>2
<1> HIDE DEF B
<1>4. Local = Cells(B)
  BY <1>2, <1>3 DEF Local, Cells
<1>5. Cells(B) = {c \in [Axis -> Nat] : \A k \in Axis : c[k] < B[k]}
  BY <1>2, Boxes
<1> QED BY <1>2, <1>4, <1>5

LEMMA OnTheGrid ==
  ASSUME NEW k \in Axis
  PROVE  /\ \A r \in Rank : r[k] \in 0 .. Extent[k] - 1
         /\ \A c \in Local : c[k] \in 0 .. Dims(k) - 1
BY Ranks, Locals, Sizes

\* Remainders of numbers that are off by at most the modulus.
OnceAround(z, m, v) == z = v \/ z + m = v \/ z - m = v
LEMMA Unrolled ==
  ASSUME NEW m \in Nat \ {0}, NEW z \in -m .. 2 * m - 1, NEW v \in 0 .. m - 1
  PROVE  z % m = v <=> OnceAround(z, m, v)
<1>1. CASE z \in 0 .. m - 1
  BY <1>1 DEF OnceAround
<1>2. CASE z < 0
  <2>1. PICK w \in 0 .. m - 1 : w = z + m
    BY <1>2
  <2>2. z = w + (-1) * m
    BY <2>1
  <2>3. z % m = w
    BY <2>1, <2>2
  <2> QED BY <2>1, <2>3 DEF OnceAround
<1>3. CASE z >= m
  <2>1. PICK w \in 0 .. m - 1 : w = z - m
    <3>1. z - m \in 0 .. m - 1
      BY <1>3
    <3> QED BY <3>1
  <2>2. z % m = w
    BY <2>1
  <2> QED BY <2>1, <2>2 DEF OnceAround
<1> QED BY <1>1, <1>2, <1>3

\* Numbers below e * n are blocks of n.
LEMMA Blocks ==
  ASSUME NEW e \in Nat, NEW n \in Nat, NEW y \in 0 .. e * n - 1
  PROVE  \E i \in 0 .. e - 1, p \in 0 .. n - 1 : y = i * n + p
<1> DEFINE T == {i \in Nat : y < (i + 1) * n}
<1>0. y \in Nat /\ y < e * n /\ e * n \in Nat
  OBVIOUS
<1>1. e # 0 /\ n # 0
  <2>1. 0 * n = 0 /\ e * 0 = 0
    OBVIOUS
  <2> QED BY <1>0, <2>1
<1>2. e - 1 \in T
  <2>1. e - 1 \in Nat /\ e - 1 + 1 = e
    BY <1>1
  <2> QED BY <1>0, <2>1
<1>3. PICK i \in T : \A j \in T : i <= j
  <2>1. T \in SUBSET Nat /\ T # {}
    BY <1>2
  <2> HIDE DEF T
  <2> QED BY <2>1, LeastNumber
<1>4. i \in 0 .. e - 1
  BY <1>2, <1>3
<1>5. i * n <= y
  <2>1. CASE i = 0
    <3>1. 0 * n = 0
      OBVIOUS
    <3> QED BY <1>0, <2>1, <3>1
  <2>2. CASE i # 0
    <3>1. i - 1 \in Nat /\ i - 1 + 1 = i
      BY <1>4, <2>2
    <3>2. i - 1 \notin T
      BY <1>3, <3>1
    <3>3. i * n \in Nat
      BY <3>1
    <3> QED BY <1>0, <3>1, <3>2, <3>3
  <2> QED BY <2>1, <2>2
<1>6. (i + 1) * n = i * n + n /\ i * n \in Nat
  BY <1>4
<1>7. y < i * n + n
  BY <1>3, <1>6
<1>8. y - i * n \in 0 .. n - 1 /\ y = i * n + (y - i * n)
  BY <1>0, <1>5, <1>6, <1>7
<1> QED BY <1>4, <1>8

\* A block of one rank of e is within all of them.
LEMMA BlockOf ==
  ASSUME NEW e \in Nat, NEW n \in Nat, NEW i \in 0 .. e - 1
  PROVE  i * n \in Nat /\ e * n \in Nat /\ i * n + n <= e * n
<1>1. PICK d \in Nat : e = i + 1 + d
  <2>1. e - i - 1 \in Nat /\ e = i + 1 + (e - i - 1)
    OBVIOUS
  <2> QED BY <2>1
<1>2. e * n = i * n + n + d * n /\ d * n \in Nat /\ i * n \in Nat
  BY <1>1
<1> QED BY <1>2

--------------------------------------------------------------------------------
\* One axis: the coordinate in the domain of the cell that cell x of a rank with
\* coordinate i is a copy of, and of the one that cell y of the file belongs to.
GlobalOf(k, i, x) ==
  LET z == i * Inner[k] + x - GuardOf[k]
  IN  IF Periodic[k] THEN z % (Extent[k] * Inner[k]) ELSE z
FileOf(k, y) ==
  LET z == y - GuardOf[k]
  IN  IF Periodic[k] THEN z % (Extent[k] * Inner[k]) ELSE z

\* Where the part of a rank that is in the file begins in its memory, and how long it is.
Lower(k, i) == IF i * Inner[k] > 0 THEN GuardOf[k] ELSE 0
Width(k, i) == Inner[k] + (IF i = 0 THEN GuardOf[k] ELSE 0)
                        + (IF i = Extent[k] - 1 THEN GuardOf[k] ELSE 0)
InPart(k, i, x) == Lower(k, i) <= x /\ x < Lower(k, i) + Width(k, i)

LEMMA PartIs ==
  ASSUME NEW k \in Axis, NEW i \in 0 .. Extent[k] - 1
  PROVE  /\ Lower(k, i) = IF i = 0 THEN 0 ELSE GuardOf[k]
         /\ Width(k, i) = Inner[k] + (IF i = 0 THEN GuardOf[k] ELSE 0)
                                   + (IF i = Extent[k] - 1 THEN GuardOf[k] ELSE 0)
         /\ Lower(k, i) \in Nat /\ Width(k, i) \in Nat
<1>1. PICK n \in Nat, g \in Nat, e \in Nat \ {0} :
        n = Inner[k] /\ g = GuardOf[k] /\ e = Extent[k] /\ g <= n
  BY Sizes
<1>2. i \in Nat /\ i * n \in Nat
  BY <1>1
<1>3. Lower(k, i) = IF i * n > 0 THEN g ELSE 0
  BY <1>1 DEF Lower
<1>4. i * n > 0 <=> i # 0 /\ n # 0
  <2>1. CASE i = 0
    <3>1. 0 * n = 0
      OBVIOUS
    <3> QED BY <2>1, <3>1
  <2>2. CASE i # 0
    <3>1. PICK d \in Nat : i = d + 1
      <4>1. i - 1 \in Nat /\ i = i - 1 + 1
        BY <1>2, <2>2
      <4> QED BY <4>1
    <3>2. (d + 1) * n = d * n + n /\ d * n \in Nat
      OBVIOUS
    <3>3. n = 0 => d * n = 0
      OBVIOUS
    <3> QED BY <1>2, <2>2, <3>1, <3>2, <3>3
  <2> QED BY <2>1, <2>2
<1>5. Lower(k, i) = IF i = 0 THEN 0 ELSE g
  BY <1>1, <1>3, <1>4
<1>6. Width(k, i) = Inner[k] + (IF i = 0 THEN GuardOf[k] ELSE 0)
                             + (IF i = Extent[k] - 1 THEN GuardOf[k] ELSE 0)
  BY DEF Width
<1>7. Width(k, i) = n + (IF i = 0 THEN g ELSE 0) + (IF i = e - 1 THEN g ELSE 0)
  BY <1>1, <1>6
<1>8. Width(k, i) \in Nat
  BY <1>2, <1>7
<1> QED BY <1>1, <1>5, <1>6, <1>8

\* A cell of the file lies in the part of some rank.
LEMMA FileCovered ==
  ASSUME NEW k \in Axis, NEW y \in 0 .. Extent[k] * Inner[k] + 2 * GuardOf[k] - 1
  PROVE  \E i \in 0 .. Extent[k] - 1 : InPart(k, i, y - i * Inner[k])
<1>1. PICK n \in Nat, g \in Nat, e \in Nat : n = Inner[k] /\ g = GuardOf[k] /\ e = Extent[k]
  BY Sizes
<1>2. PICK m \in Nat : m = e * n /\ y \in 0 .. m + 2 * g - 1
  <2>1. e * n \in Nat
    OBVIOUS
  <2> QED BY <1>1, <2>1
<1>3. e \in Nat \ {0} /\ g <= n
  BY <1>1, Sizes
<1>4. 0 * n = 0 /\ (e - 1) * n = e * n - n
  OBVIOUS
<1>5. \A i \in 0 .. e - 1 :
        InPart(k, i, y - i * n) <=>
          /\ (IF i = 0 THEN 0 ELSE g) <= y - i * n
          /\ y - i * n < (IF i = 0 THEN 0 ELSE g) + n + (IF i = 0 THEN g ELSE 0)
                                                      + (IF i = e - 1 THEN g ELSE 0)
  <2> SUFFICES ASSUME NEW i \in 0 .. e - 1
               PROVE  InPart(k, i, y - i * n) <=>
                        /\ (IF i = 0 THEN 0 ELSE g) <= y - i * n
                        /\ y - i * n < (IF i = 0 THEN 0 ELSE g) + n + (IF i = 0 THEN g ELSE 0)
                                                                    + (IF i = e - 1 THEN g ELSE 0)
    OBVIOUS
  <2>1. /\ Lower(k, i) = IF i = 0 THEN 0 ELSE g
        /\ Width(k, i) = n + (IF i = 0 THEN g ELSE 0) + (IF i = e - 1 THEN g ELSE 0)
    BY <1>1, PartIs
  <2>2. PICK z \in Int : z = y - i * n
    OBVIOUS
  <2> QED BY <2>1, <2>2 DEF InPart
<1>6. CASE y < g
  <2>1. InPart(k, 0, y - 0 * n)
    BY <1>2, <1>3, <1>4, <1>5, <1>6
  <2> QED BY <1>1, <1>3, <2>1
<1>7. CASE y >= m + g
  <2>1. e - 1 \in 0 .. e - 1 /\ y - (e - 1) * n = y - m + n
    BY <1>2, <1>3, <1>4
  <2>2. InPart(k, e - 1, y - (e - 1) * n)
    <3>1. CASE e = 1
      BY <1>2, <1>3, <1>4, <1>5, <1>7, <2>1, <3>1
    <3>2. CASE e # 1
      BY <1>2, <1>3, <1>4, <1>5, <1>7, <2>1, <3>2
    <3> QED BY <3>1, <3>2
  <2> QED BY <1>1, <2>1, <2>2
<1>8. CASE g <= y /\ y < m + g
  <2>1. PICK z \in 0 .. e * n - 1 : z = y - g
    <3>1. y - g \in 0 .. e * n - 1
      BY <1>2, <1>8
    <3> QED BY <3>1
  <2>2. PICK i \in 0 .. e - 1, p \in 0 .. n - 1 : z = i * n + p
    BY Blocks
  <2>3. PICK w \in Nat : w = i * n
    <3>1. i * n \in Nat
      OBVIOUS
    <3> QED BY <3>1
  <2>4. y - i * n = p + g
    BY <2>1, <2>2, <2>3
  <2>5. InPart(k, i, y - i * n)
    BY <1>3, <1>5, <2>4
  <2> QED BY <1>1, <2>5
<1> QED BY <1>2, <1>6, <1>7, <1>8

\* What is in the part of a rank is in the file, and the value of that cell.
LEMMA FileCell ==
  ASSUME NEW k \in Axis, NEW i \in 0 .. Extent[k] - 1, NEW x \in Int, InPart(k, i, x)
  PROVE  /\ x \in 0 .. Dims(k) - 1
         /\ x + i * Inner[k] \in 0 .. Extent[k] * Inner[k] + 2 * GuardOf[k] - 1
         /\ FileOf(k, x + i * Inner[k]) = GlobalOf(k, i, x)
<1>1. PICK n \in Nat, g \in Nat, e \in Nat : n = Inner[k] /\ g = GuardOf[k] /\ e = Extent[k]
  BY Sizes
<1>2. /\ i \in 0 .. e - 1 /\ e \in Nat \ {0} /\ g <= n /\ Dims(k) = n + 2 * g
      /\ Lower(k, i) = IF i = 0 THEN 0 ELSE g
      /\ Width(k, i) = n + (IF i = 0 THEN g ELSE 0) + (IF i = e - 1 THEN g ELSE 0)
  BY <1>1, PartIs, Sizes
<1>3. x \in 0 .. n + 2 * g - 1
  BY <1>2 DEF InPart
<1>4. PICK w \in Nat, m \in Nat : w = i * n /\ m = e * n /\ w + n <= m
  <2>1. i * n \in Nat /\ e * n \in Nat /\ i * n + n <= e * n
    BY <1>2, BlockOf
  <2> QED BY <2>1
<1>5. x + w \in 0 .. m + 2 * g - 1
  BY <1>2, <1>3, <1>4
<1>6. x + w - g = w + x - g
  BY <1>4
<1>7. FileOf(k, x + w) = IF Periodic[k] THEN (x + w - g) % m ELSE x + w - g
  BY <1>1, <1>4 DEF FileOf
<1>8. GlobalOf(k, i, x) = IF Periodic[k] THEN (w + x - g) % m ELSE w + x - g
  BY <1>1, <1>4 DEF GlobalOf
<1>9. FileOf(k, x + w) = GlobalOf(k, i, x)
  BY <1>6, <1>7, <1>8
<1>10. x \in 0 .. Dims(k) - 1
  BY <1>2, <1>3
<1> QED BY <1>1, <1>4, <1>5, <1>9, <1>10

--------------------------------------------------------------------------------
\* The boxes of the ranks, axis by axis.
LEMMA Parts ==
  ASSUME NEW r \in Rank
  PROVE  /\ \A k \in Axis : /\ r[k] \in 0 .. Extent[k] - 1 /\ r[k] * Inner[k] \in Nat
                            /\ Ext(r)[k] = Width(k, r[k]) /\ Width(k, r[k]) \in Nat
                            /\ PosArray(r)[k] = Lower(k, r[k]) /\ Lower(k, r[k]) \in Nat
                            /\ PosFile(r)[k] = r[k] * Inner[k] + Lower(k, r[k])
         /\ \A c \in [Axis -> Int] :
              /\ InBox(c, PosArray(r), Ext(r)) <=> \A k \in Axis : InPart(k, r[k], c[k])
              /\ InBox(c, PosFile(r), Ext(r)) <=>
                   \A k \in Axis : InPart(k, r[k], c[k] - r[k] * Inner[k])
              /\ Shift(c, PosFile(r), PosArray(r)) = [k \in Axis |-> c[k] - r[k] * Inner[k]]
              /\ Shift(c, PosArray(r), PosFile(r)) = [k \in Axis |-> c[k] + r[k] * Inner[k]]
<1>1. ASSUME NEW k \in Axis
      PROVE  /\ r[k] \in 0 .. Extent[k] - 1 /\ r[k] * Inner[k] \in Nat
             /\ Ext(r)[k] = Width(k, r[k]) /\ Width(k, r[k]) \in Nat
             /\ PosArray(r)[k] = Lower(k, r[k]) /\ Lower(k, r[k]) \in Nat
             /\ PosFile(r)[k] = r[k] * Inner[k] + Lower(k, r[k])
  <2>1. r[k] \in 0 .. Extent[k] - 1 /\ Inner[k] \in Nat /\ Extent[k] \in Nat
    BY OnTheGrid, Sizes
  <2>2. r[k] * Inner[k] \in Nat
    BY <2>1
  <2>3. Ext(r)[k] = Width(k, r[k])
    BY DEF Ext, Width
  <2>4. PosArray(r)[k] = Lower(k, r[k])
    BY DEF PosArray, Lower, Offset
  <2>5. PosFile(r)[k] = r[k] * Inner[k] + Lower(k, r[k])
    BY <2>4 DEF PosFile, Offset
  <2> QED BY <2>1, <2>2, <2>3, <2>4, <2>5, PartIs
<1>2. ASSUME NEW c \in [Axis -> Int], NEW k \in Axis
      PROVE  /\ PosArray(r)[k] <= c[k] /\ c[k] < PosArray(r)[k] + Ext(r)[k] <=>
                  InPart(k, r[k], c[k])
             /\ PosFile(r)[k] <= c[k] /\ c[k] < PosFile(r)[k] + Ext(r)[k] <=>
                  InPart(k, r[k], c[k] - r[k] * Inner[k])
             /\ c[k] - PosFile(r)[k] + PosArray(r)[k] = c[k] - r[k] * Inner[k]
             /\ c[k] - PosArray(r)[k] + PosFile(r)[k] = c[k] + r[k] * Inner[k]
  <2>1. PICK l \in Nat, w \in Nat, o \in Nat :
          l = Lower(k, r[k]) /\ w = Width(k, r[k]) /\ o = r[k] * Inner[k]
    BY <1>1
  <2>2. PICK x \in Int : x = c[k]
    OBVIOUS
  <2>3. PosArray(r)[k] = l /\ PosFile(r)[k] = o + l /\ Ext(r)[k] = w
    BY <1>1, <2>1
  <2> QED BY <2>1, <2>2, <2>3 DEF InPart
<1>3. ASSUME NEW c \in [Axis -> Int]
      PROVE  /\ InBox(c, PosArray(r), Ext(r)) <=> \A k \in Axis : InPart(k, r[k], c[k])
             /\ InBox(c, PosFile(r), Ext(r)) <=>
                  \A k \in Axis : InPart(k, r[k], c[k] - r[k] * Inner[k])
  BY <1>2 DEF InBox
<1>4. ASSUME NEW c \in [Axis -> Int]
      PROVE  /\ Shift(c, PosFile(r), PosArray(r)) = [k \in Axis |-> c[k] - r[k] * Inner[k]]
             /\ Shift(c, PosArray(r), PosFile(r)) = [k \in Axis |-> c[k] + r[k] * Inner[k]]
  BY <1>2 DEF Shift
<1> QED BY <1>1, <1>3, <1>4

\* Coordinates chosen axis by axis are those of a rank.
LEMMA SomeRank ==
  ASSUME NEW S, \A k \in Axis : \E i \in 0 .. Extent[k] - 1 : i \in S[k]
  PROVE  \E r \in Rank : \A k \in Axis : r[k] \in S[k]
<1> DEFINE r == [k \in Axis |-> CHOOSE i \in 0 .. Extent[k] - 1 : i \in S[k]]
<1>1. \A k \in Axis : r[k] \in 0 .. Extent[k] - 1 /\ r[k] \in S[k]
  OBVIOUS
<1>2. r \in [Axis -> Nat] /\ \A k \in Axis : r[k] < Extent[k]
  <2>1. \A k \in Axis : Extent[k] \in Nat
    BY Sizes
  <2>2. \A k \in Axis : r[k] \in Nat /\ r[k] < Extent[k]
    BY <1>1, <2>1
  <2> QED BY <2>2
<1>3. r \in Rank
  BY <1>2, Ranks
<1> QED BY <1>1, <1>3

LEMMA FileSize ==
  /\ ExtTotal \in [Axis -> Nat]
  /\ Cells(ExtTotal) = {c \in [Axis -> Nat] : \A k \in Axis : c[k] < ExtTotal[k]}
  /\ \A k \in Axis : ExtTotal[k] = Extent[k] * Inner[k] + 2 * GuardOf[k]
<1>1. \A k \in Axis : Extent[k] * Inner[k] + 2 * GuardOf[k] \in Nat
  BY Sizes
<1>2. ExtTotal \in [Axis -> Nat]
  BY <1>1 DEF ExtTotal
<1> QED BY <1>2, Boxes DEF ExtTotal

\* The value that belongs at a cell of the file.
Right(c) == [run |-> 1, cell |-> [k \in Axis |-> FileOf(k, c[k])]]

LEMMA OwnFieldIs ==
  ASSUME NEW r \in Rank, NEW c \in Local
  PROVE  OwnField(r)[c] = [run |-> 1, cell |-> [k \in Axis |-> GlobalOf(k, r[k], c[k])]]
BY Zenon DEF OwnField, Global, GlobalOf

\* Every cell of the file is in the part of a rank.
LEMMA FileFull ==
  ASSUME NEW c \in Cells(ExtTotal)
  PROVE  \E r \in Rank : InBox(c, PosFile(r), Ext(r))
<1> DEFINE S == [k \in Axis |-> {i \in 0 .. Extent[k] - 1 : InPart(k, i, c[k] - i * Inner[k])}]
<1>1. ASSUME NEW k \in Axis
      PROVE  \E i \in 0 .. Extent[k] - 1 : i \in S[k]
  <2>1. c[k] \in 0 .. Extent[k] * Inner[k] + 2 * GuardOf[k] - 1
    <3>1. c[k] \in Nat /\ ExtTotal[k] \in Nat /\ c[k] < ExtTotal[k]
      BY FileSize
    <3>2. ExtTotal[k] = Extent[k] * Inner[k] + 2 * GuardOf[k]
      BY FileSize
    <3> HIDE DEF S
    <3>3. PICK m \in Nat : m = Extent[k] * Inner[k] + 2 * GuardOf[k]
      BY <3>1, <3>2
    <3>4. c[k] \in 0 .. m - 1
      BY <3>1, <3>2, <3>3
    <3> QED BY <3>3, <3>4, Sizes
  <2> QED BY <2>1, FileCovered
<1>2. PICK r \in Rank : \A k \in Axis : r[k] \in S[k]
  <2> HIDE DEF S
  <2> QED BY <1>1, SomeRank
<1>3. c \in [Axis -> Int]
  BY FileSize
<1>4. \A k \in Axis : InPart(k, r[k], c[k] - r[k] * Inner[k])
  BY <1>2
<1> QED BY <1>3, <1>4, Parts

\* What a rank writes there is what belongs there, and what it reads is what it had.
LEMMA RightPlace ==
  ASSUME NEW r \in Rank
  PROVE  /\ \A c \in Cells(ExtTotal) : InBox(c, PosFile(r), Ext(r)) =>
              /\ Shift(c, PosFile(r), PosArray(r)) \in Local
              /\ OwnField(r)[Shift(c, PosFile(r), PosArray(r))] = Right(c)
         /\ \A c \in Local : InBox(c, PosArray(r), Ext(r)) =>
              /\ Shift(c, PosArray(r), PosFile(r)) \in Cells(ExtTotal)
              /\ InBox(Shift(c, PosArray(r), PosFile(r)), PosFile(r), Ext(r))
              /\ Right(Shift(c, PosArray(r), PosFile(r))) = OwnField(r)[c]
<1>1. ASSUME NEW c \in Cells(ExtTotal), InBox(c, PosFile(r), Ext(r))
      PROVE  /\ Shift(c, PosFile(r), PosArray(r)) \in Local
             /\ OwnField(r)[Shift(c, PosFile(r), PosArray(r))] = Right(c)
  <2> DEFINE d == [k \in Axis |-> c[k] - r[k] * Inner[k]]
  <2>1. c \in [Axis -> Int] /\ Shift(c, PosFile(r), PosArray(r)) = d
    BY FileSize, Parts
  <2>2. ASSUME NEW k \in Axis
        PROVE  /\ d[k] \in Nat /\ d[k] < Dims(k)
               /\ FileOf(k, c[k]) = GlobalOf(k, r[k], d[k])
    <3>1. PICK o \in Nat : o = r[k] * Inner[k] /\ r[k] \in 0 .. Extent[k] - 1
      BY Parts
    <3>2. PICK x \in Int : x = c[k] - o /\ c[k] = x + o
      BY <2>1
    <3>3. InPart(k, r[k], x)
      BY <1>1, <2>1, <3>1, <3>2, Parts
    <3>4. x \in 0 .. Dims(k) - 1 /\ FileOf(k, x + o) = GlobalOf(k, r[k], x)
      BY <3>1, <3>3, FileCell
    <3>5. Dims(k) \in Nat
      BY Sizes
    <3>6. d[k] = x /\ c[k] = x + o
      BY <3>1, <3>2
    <3> HIDE DEF d
    <3> QED BY <3>4, <3>5, <3>6
  <2>3. d \in [Axis -> Nat] /\ \A k \in Axis : d[k] < Dims(k)
    BY <2>2
  <2> HIDE DEF d
  <2>4. d \in Local
    BY <2>3, Locals
  <2>5. OwnField(r)[d] = [run |-> 1, cell |-> [k \in Axis |-> GlobalOf(k, r[k], d[k])]]
    BY <2>4, OwnFieldIs
  <2>6. [k \in Axis |-> GlobalOf(k, r[k], d[k])] = [k \in Axis |-> FileOf(k, c[k])]
    BY <2>2
  <2> QED BY <2>1, <2>4, <2>5, <2>6 DEF Right
<1>2. ASSUME NEW c \in Local, InBox(c, PosArray(r), Ext(r))
      PROVE  /\ Shift(c, PosArray(r), PosFile(r)) \in Cells(ExtTotal)
             /\ InBox(Shift(c, PosArray(r), PosFile(r)), PosFile(r), Ext(r))
             /\ Right(Shift(c, PosArray(r), PosFile(r))) = OwnField(r)[c]
  <2> DEFINE d == [k \in Axis |-> c[k] + r[k] * Inner[k]]
  <2>1. c \in [Axis -> Int] /\ Shift(c, PosArray(r), PosFile(r)) = d
    BY Locals, Parts
  <2>2. ASSUME NEW k \in Axis
        PROVE  /\ d[k] \in Nat /\ d[k] < ExtTotal[k]
               /\ FileOf(k, d[k]) = GlobalOf(k, r[k], c[k])
               /\ InPart(k, r[k], d[k] - r[k] * Inner[k])
    <3>1. PICK o \in Nat : o = r[k] * Inner[k] /\ r[k] \in 0 .. Extent[k] - 1
      BY Parts
    <3>2. PICK x \in Int : x = c[k] /\ d[k] = x + o /\ d[k] - o = x
      BY <2>1, <3>1
    <3>3. InPart(k, r[k], x)
      BY <1>2, <2>1, <3>1, <3>2, Parts
    <3>4. /\ FileOf(k, x + o) = GlobalOf(k, r[k], x)
          /\ x + o \in 0 .. ExtTotal[k] - 1
      <4>1. /\ FileOf(k, x + o) = GlobalOf(k, r[k], x)
            /\ x + o \in 0 .. Extent[k] * Inner[k] + 2 * GuardOf[k] - 1
        BY <3>1, <3>3, FileCell
      <4>2. ExtTotal[k] = Extent[k] * Inner[k] + 2 * GuardOf[k]
        BY FileSize
      <4>3. PICK m \in Nat : m = Extent[k] * Inner[k] + 2 * GuardOf[k]
        BY <4>2, FileSize
      <4>4. x + o \in 0 .. m - 1
        BY <4>1, <4>3, Sizes
      <4> QED BY <4>1, <4>2, <4>3, <4>4
    <3>5. ExtTotal[k] \in Nat
      BY FileSize
    <3>6. d[k] \in Nat /\ d[k] < ExtTotal[k]
      <4> HIDE DEF d
      <4> QED BY <3>2, <3>4, <3>5
    <3> HIDE DEF d
    <3> QED BY <3>1, <3>2, <3>3, <3>4, <3>6
  <2>3. d \in [Axis -> Nat] /\ \A k \in Axis : d[k] < ExtTotal[k]
    BY <2>2
  <2> HIDE DEF d
  <2>4. d \in Cells(ExtTotal) /\ d \in [Axis -> Int]
    BY <2>3, FileSize
  <2>5. InBox(d, PosFile(r), Ext(r))
    BY <2>2, <2>4, Parts
  <2>6. [k \in Axis |-> FileOf(k, d[k])] = [k \in Axis |-> GlobalOf(k, r[k], c[k])]
    BY <2>2
  <2>7. Right(d) = OwnField(r)[c]
    BY <2>6, OwnFieldIs DEF Right
  <2> QED BY <2>1, <2>4, <2>5, <2>7
<1> QED BY <1>1, <1>2

--------------------------------------------------------------------------------
\* Downsampling, along one axis: a rank has whole blocks of cells.
LEMMA Blocked ==
  ASSUME NEW k \in Axis
  PROVE  \E q \in Nat : /\ Inner[k] = q * Down /\ Inner[k] \div Down = q
                        /\ \A i \in Nat : (i * Inner[k]) \div Down = i * q
<1>1. PICK n \in Nat, d \in Nat \ {0} : n = Inner[k] /\ d = Down /\ n % d = 0
  BY Sizes, DownAssumption
<1>2. n = (n \div d) * d + (n % d) /\ n \div d \in Nat
  OBVIOUS
<1>3. PICK q \in Nat : q = n \div d
  BY <1>2
<1>4. n = q * d
  BY <1>1, <1>2, <1>3
<1>5. ASSUME NEW i \in Nat
      PROVE  (i * n) \div d = i * q
  <2>1. i * n = (i * q) * d
    BY <1>4
  <2>2. PICK j \in Nat : j = i * q
    <3>1. i * q \in Nat
      OBVIOUS
    <3> QED BY <3>1
  <2>3. (j * d) \div d = j
    OBVIOUS
  <2> QED BY <2>1, <2>2, <2>3
<1> QED BY <1>1, <1>3, <1>4, <1>5

LEMMA BlockCell ==
  ASSUME NEW k \in Axis, NEW q \in Nat, Inner[k] = q * Down,
         NEW i \in 0 .. Extent[k] - 1, NEW p \in 0 .. q - 1
  PROVE  /\ p * Down + GuardOf[k] \in 0 .. Dims(k) - 1
         /\ GlobalOf(k, i, p * Down + GuardOf[k]) = (i * q + p) * Down
         /\ (i * q + p) * Down \in 0 .. Extent[k] * Inner[k] - 1
<1>1. PICK n \in Nat, g \in Nat, e \in Nat, d \in Nat \ {0} :
        /\ n = Inner[k] /\ g = GuardOf[k] /\ e = Extent[k] /\ d = Down
        /\ n = q * d /\ Dims(k) = n + 2 * g
  BY Sizes, DownAssumption
<1>2. PICK x \in Nat : x = p * d /\ x + d <= n
  <2>1. p * d \in Nat /\ p * d + d <= q * d
    BY BlockOf
  <2> QED BY <1>1, <2>1
<1>3. PICK w \in Nat, m \in Nat : w = i * n /\ m = e * n /\ w + n <= m
  <2>1. i * n \in Nat /\ e * n \in Nat /\ i * n + n <= e * n
    BY <1>1, BlockOf
  <2> QED BY <2>1
<1>4. x + g \in 0 .. Dims(k) - 1 /\ w + x \in 0 .. m - 1
  BY <1>1, <1>2, <1>3
<1>5. w + (x + g) - g = w + x /\ (w + x) % m = w + x
  BY <1>4
<1>6. GlobalOf(k, i, x + g) = IF Periodic[k] THEN (w + (x + g) - g) % m ELSE w + (x + g) - g
  BY <1>1, <1>3 DEF GlobalOf
<1>7. GlobalOf(k, i, x + g) = w + x
  BY <1>5, <1>6
<1>8. (i * q + p) * d = w + x
  <2>1. (i * q + p) * d = i * (q * d) + p * d
    OBVIOUS
  <2> QED BY <1>1, <1>2, <1>3, <2>1
<1> QED BY <1>1, <1>2, <1>3, <1>4, <1>7, <1>8

LEMMA OutputSize ==
  /\ OutExt \in [Axis -> Nat] /\ OutTotal \in [Axis -> Nat]
  /\ Cells(OutExt) = {p \in [Axis -> Nat] : \A k \in Axis : p[k] < OutExt[k]}
  /\ Cells(OutTotal) = {c \in [Axis -> Nat] : \A k \in Axis : c[k] < OutTotal[k]}
  /\ \A k \in Axis : /\ Inner[k] = OutExt[k] * Down
                     /\ OutTotal[k] = Extent[k] * OutExt[k]
                     /\ \A r \in Rank : OutOffset(r)[k] = r[k] * OutExt[k]
<1>1. ASSUME NEW k \in Axis
      PROVE  /\ OutExt[k] \in Nat /\ OutTotal[k] \in Nat
             /\ Inner[k] = OutExt[k] * Down /\ OutTotal[k] = Extent[k] * OutExt[k]
             /\ \A r \in Rank : OutOffset(r)[k] = r[k] * OutExt[k]
  <2>1. PICK q \in Nat : /\ Inner[k] = q * Down /\ Inner[k] \div Down = q
                         /\ \A i \in Nat : (i * Inner[k]) \div Down = i * q
    BY Blocked
  <2>2. OutExt[k] = q
    BY <2>1 DEF OutExt
  <2>3. Extent[k] \in Nat /\ \A r \in Rank : r[k] \in Nat
    BY Sizes, OnTheGrid
  <2>4. OutTotal[k] = Extent[k] * q
    BY <2>1, <2>3 DEF OutTotal
  <2>5. Extent[k] * q \in Nat
    BY <2>3
  <2>6. \A r \in Rank : OutOffset(r)[k] = r[k] * q
    BY <2>1, <2>3 DEF OutOffset, Offset
  <2> QED BY <2>1, <2>2, <2>4, <2>5, <2>6
<1>2. OutExt = [k \in Axis |-> OutExt[k]] /\ OutTotal = [k \in Axis |-> OutTotal[k]]
  BY DEF OutExt, OutTotal
<1>3. OutExt \in [Axis -> Nat] /\ OutTotal \in [Axis -> Nat]
  BY <1>1, <1>2
<1> QED BY <1>1, <1>3, Boxes

\* The value that belongs at a cell of the output.
Block(c) == [run |-> 1, cell |-> [k \in Axis |-> c[k] * Down]]

LEMMA OutputFull ==
  ASSUME NEW c \in Cells(OutTotal)
  PROVE  \E r \in Rank : InBox(c, OutOffset(r), OutExt)
<1> DEFINE S == [k \in Axis |-> {i \in 0 .. Extent[k] - 1 :
                                   /\ i * OutExt[k] <= c[k]
                                   /\ c[k] < i * OutExt[k] + OutExt[k]}]
<1>1. ASSUME NEW k \in Axis
      PROVE  \E i \in 0 .. Extent[k] - 1 : i \in S[k]
  <2>1. PICK q \in Nat, e \in Nat, y \in Nat : /\ q = OutExt[k] /\ e = Extent[k] /\ y = c[k]
                                               /\ y < e * q
    BY OutputSize, Sizes
  <2>2. y \in 0 .. e * q - 1
    <3>1. e * q \in Nat
      OBVIOUS
    <3> QED BY <2>1, <3>1
  <2>3. PICK i \in 0 .. e - 1, p \in 0 .. q - 1 : y = i * q + p
    BY <2>2, Blocks
  <2>4. i * q <= y /\ y < i * q + q
    <3>1. i * q \in Nat
      OBVIOUS
    <3> QED BY <2>3, <3>1
  <2> QED BY <2>1, <2>4
<1>2. PICK r \in Rank : \A k \in Axis : r[k] \in S[k]
  <2> HIDE DEF S
  <2> QED BY <1>1, SomeRank
<1>3. \A k \in Axis : OutOffset(r)[k] = r[k] * OutExt[k]
  BY OutputSize
<1> QED BY <1>2, <1>3 DEF InBox

LEMMA RightBlock ==
  ASSUME NEW r \in Rank, NEW c \in Cells(OutTotal), InBox(c, OutOffset(r), OutExt)
  PROVE  LET p == Shift(c, OutOffset(r), Zero)
             b == [k \in Axis |-> p[k] * Down + GuardOf[k]]
         IN  p \in Cells(OutExt) /\ b \in Local /\ OwnField(r)[b] = Block(c)
<1> DEFINE p == Shift(c, OutOffset(r), Zero)
           b == [k \in Axis |-> p[k] * Down + GuardOf[k]]
<1>1. ASSUME NEW k \in Axis
      PROVE  /\ p[k] \in Nat /\ p[k] < OutExt[k]
             /\ b[k] \in 0 .. Dims(k) - 1 /\ GlobalOf(k, r[k], b[k]) = c[k] * Down
  <2>1. PICK q \in Nat, y \in Nat : q = OutExt[k] /\ y = c[k] /\ Inner[k] = q * Down
    BY OutputSize
  <2>2. r[k] \in 0 .. Extent[k] - 1 /\ OutOffset(r)[k] = r[k] * q
    BY <2>1, OutputSize, OnTheGrid
  <2>3. PICK o \in Nat : o = r[k] * q
    <3>1. r[k] \in Nat
      BY <2>2, Sizes
    <3>2. r[k] * q \in Nat
      BY <3>1
    <3> QED BY <3>2
  <2>4. o <= y /\ y < o + q
    BY <2>1, <2>2, <2>3 DEF InBox
  <2>5. p[k] = y - o
    <3>1. p[k] = c[k] - OutOffset(r)[k] + 0
      BY DEF Shift, Zero
    <3> QED BY <2>1, <2>2, <2>3, <3>1
  <2>6. PICK z \in 0 .. q - 1 : z = p[k] /\ y = r[k] * q + z
    <3>1. y - o \in 0 .. q - 1 /\ y = o + (y - o)
      BY <2>4
    <3> QED BY <2>3, <2>5, <3>1
  <2>7. /\ z * Down + GuardOf[k] \in 0 .. Dims(k) - 1
        /\ GlobalOf(k, r[k], z * Down + GuardOf[k]) = (r[k] * q + z) * Down
    BY <2>1, <2>2, BlockCell
  <2>8. b[k] = z * Down + GuardOf[k]
    BY <2>6
  <2> HIDE DEF b, p
  <2>9. GlobalOf(k, r[k], b[k]) = c[k] * Down
    BY <2>1, <2>6, <2>7, <2>8
  <2> QED BY <2>1, <2>6, <2>7, <2>8, <2>9
<1>2. p = [k \in Axis |-> p[k]]
  BY DEF Shift
<1>3. b = [k \in Axis |-> b[k]]
  OBVIOUS
<1> HIDE DEF p, b
<1>4. p \in Cells(OutExt)
  <2>1. p \in [Axis -> Nat]
    BY <1>1, <1>2
  <2> QED BY <1>1, <2>1, OutputSize
<1>5. b \in Local
  <2>1. \A k \in Axis : b[k] \in Nat /\ b[k] < Dims(k)
    BY <1>1, Sizes
  <2>2. b \in [Axis -> Nat]
    BY <1>3, <2>1
  <2> QED BY <2>1, <2>2, Locals
<1>6. OwnField(r)[b] = Block(c)
  <2>1. [k \in Axis |-> GlobalOf(k, r[k], b[k])] = [k \in Axis |-> c[k] * Down]
    BY <1>1
  <2> QED BY <1>5, <2>1, OwnFieldIs DEF Block
<1> QED BY <1>4, <1>5, <1>6 DEF p, b

--------------------------------------------------------------------------------
\* Guard cells, along one axis.  A cell that is not in a rank's part of the file is a
\* guard cell next to a neighbour, and in the neighbour's part there.
Toward(k, x) == IF x < GuardOf[k] THEN -1 ELSE IF x >= Dims(k) - GuardOf[k] THEN 1 ELSE 0
HasBeside(k, i, dir) == Periodic[k] \/ i + dir \in 0 .. Extent[k] - 1
Beside(k, i, dir) == IF Periodic[k] THEN (i + dir) % Extent[k] ELSE i + dir

LEMMA InPartIs ==
  ASSUME NEW k \in Axis, NEW i \in 0 .. Extent[k] - 1, NEW x \in 0 .. Dims(k) - 1
  PROVE  /\ (i = 0 \/ GuardOf[k] <= x) /\ (i = Extent[k] - 1 \/ x < Inner[k] + GuardOf[k])
              => InPart(k, i, x)
         /\ Toward(k, x) \in {-1, 0, 1}
         /\ Toward(k, x) = -1 => x < GuardOf[k]
         /\ Toward(k, x) = 1 => x >= Inner[k] + GuardOf[k]
         /\ Toward(k, x) = 0 => GuardOf[k] <= x /\ x < Inner[k] + GuardOf[k]
<1>1. PICK n \in Nat, g \in Nat, e \in Nat \ {0} :
        n = Inner[k] /\ g = GuardOf[k] /\ e = Extent[k] /\ Dims(k) = n + 2 * g
  BY Sizes
<1>2. /\ Lower(k, i) = IF i = 0 THEN 0 ELSE g
      /\ Width(k, i) = n + (IF i = 0 THEN g ELSE 0) + (IF i = e - 1 THEN g ELSE 0)
  BY <1>1, PartIs
<1>3. Toward(k, x) = IF x < g THEN -1 ELSE IF x >= n + g THEN 1 ELSE 0
  <2>1. Dims(k) - g = n + g
    BY <1>1
  <2> QED BY <1>1, <2>1 DEF Toward
<1>4. x \in 0 .. n + 2 * g - 1 /\ i \in 0 .. e - 1
  BY <1>1
<1>5. (i = 0 \/ g <= x) /\ (i = e - 1 \/ x < n + g) => InPart(k, i, x)
  BY <1>1, <1>2, <1>4 DEF InPart
<1> QED BY <1>1, <1>3, <1>4, <1>5

LEMMA NoneBeside ==
  ASSUME NEW k \in Axis, NEW i \in 0 .. Extent[k] - 1, NEW x \in 0 .. Dims(k) - 1,
         Toward(k, x) = 0 \/ ~HasBeside(k, i, Toward(k, x))
  PROVE  InPart(k, i, x)
<1>1. PICK n \in Nat, g \in Nat, e \in Nat \ {0} :
        n = Inner[k] /\ g = GuardOf[k] /\ e = Extent[k] /\ i \in 0 .. e - 1
  BY Sizes
<1>2. x \in Nat
  BY Sizes
<1>3. CASE Toward(k, x) = 0
  BY <1>3, InPartIs
<1>4. CASE Toward(k, x) = -1
  <2>1. i = 0
    BY <1>1, <1>4 DEF HasBeside
  <2>2. x < n + g
    BY <1>1, <1>2, <1>4, InPartIs
  <2> QED BY <1>1, <2>1, <2>2, InPartIs
<1>5. CASE Toward(k, x) = 1
  <2>1. i = e - 1
    BY <1>1, <1>5 DEF HasBeside
  <2>2. g <= x
    BY <1>1, <1>2, <1>5, InPartIs
  <2> QED BY <1>1, <2>1, <2>2, InPartIs
<1> QED BY <1>3, <1>4, <1>5, InPartIs

LEMMA BesideIs ==
  ASSUME NEW k \in Axis, NEW i \in 0 .. Extent[k] - 1, NEW dir \in {-1, 1},
         HasBeside(k, i, dir)
  PROVE  /\ Beside(k, i, dir) \in 0 .. Extent[k] - 1
         /\ \/ Beside(k, i, dir) = i + dir
            \/ Beside(k, i, dir) = i + dir - Extent[k]
            \/ Beside(k, i, dir) = i + dir + Extent[k]
         /\ ~Periodic[k] => Beside(k, i, dir) = i + dir
<1>1. PICK e \in Nat \ {0} : e = Extent[k] /\ i \in 0 .. e - 1
  BY Sizes
<1>2. CASE ~Periodic[k]
  BY <1>2 DEF HasBeside, Beside
<1>3. CASE Periodic[k]
  <2>1. PICK v \in 0 .. e - 1 : v = (i + dir) % e
    <3>1. (i + dir) % e \in 0 .. e - 1
      OBVIOUS
    <3> QED BY <3>1
  <2>2. i + dir \in -e .. 2 * e - 1
    BY <1>1
  <2>3. OnceAround(i + dir, e, v)
    BY <2>1, <2>2, Unrolled
  <2>4. v = i + dir \/ v = i + dir - e \/ v = i + dir + e
    BY <1>1, <2>3 DEF OnceAround
  <2> QED BY <1>1, <1>3, <2>1, <2>4 DEF Beside
<1> QED BY <1>2, <1>3

LEMMA NeighbourCell ==
  ASSUME NEW k \in Axis, NEW i \in 0 .. Extent[k] - 1, NEW x \in 0 .. Dims(k) - 1,
         NEW dir \in {-1, 1}, dir = Toward(k, x), HasBeside(k, i, dir)
  PROVE  /\ x - dir * Inner[k] \in 0 .. Dims(k) - 1
         /\ InPart(k, Beside(k, i, dir), x - dir * Inner[k])
         /\ GlobalOf(k, Beside(k, i, dir), x - dir * Inner[k]) = GlobalOf(k, i, x)
<1>1. PICK n \in Nat, g \in Nat, e \in Nat \ {0} :
        /\ n = Inner[k] /\ g = GuardOf[k] /\ e = Extent[k] /\ g <= n /\ i \in 0 .. e - 1
        /\ Dims(k) = n + 2 * g
  BY Sizes
<1>2. PICK j \in 0 .. e - 1 :
        /\ j = Beside(k, i, dir)
        /\ j = i + dir \/ j = i + dir - e \/ j = i + dir + e
        /\ ~Periodic[k] => j = i + dir
  BY <1>1, BesideIs
<1>a. /\ x \in 0 .. n + 2 * g - 1
      /\ dir = -1 => x < g
      /\ dir = 1 => x >= n + g
  BY <1>1, InPartIs
<1>b. PICK s \in Int : s = dir * n /\ (dir = 1 => s = n) /\ (dir = -1 => s = -n)
  OBVIOUS
<1>c. (i + dir) * n = i * n + s
  <2>1. CASE dir = 1
    <3>1. (i + 1) * n = i * n + n
      OBVIOUS
    <3> QED BY <1>b, <2>1, <3>1
  <2>2. CASE dir = -1
    <3>1. (i + (-1)) * n = i * n + (-n)
      OBVIOUS
    <3> QED BY <1>b, <2>2, <3>1
  <2> QED BY <2>1, <2>2
<1>3. PICK y \in Int : y = x - dir * n /\ y = x - s /\ y \in g .. n + g - 1
  BY <1>1, <1>a, <1>b
<1>4. InPart(k, j, y)
  BY <1>1, <1>2, <1>3, InPartIs
<1>5. PICK w \in Nat, v \in Nat, m \in Nat :
        /\ w = i * n /\ v = j * n /\ m = e * n /\ w + n <= m /\ v + n <= m
  <2>1. i * n \in Nat /\ e * n \in Nat /\ i * n + n <= e * n
    BY <1>1, BlockOf
  <2>2. j * n \in Nat /\ j * n + n <= e * n
    BY <1>2, BlockOf
  <2> QED BY <2>1, <2>2
<1>6. PICK z \in Int : z = w + x - g
  OBVIOUS
<1>7. PICK u \in Int : u = v + y - g
  OBVIOUS
<1>8. (u = z \/ u = z - m \/ u = z + m) /\ (~Periodic[k] => u = z)
  <2>1. j = i + dir => u = z
    BY <1>3, <1>5, <1>6, <1>7, <1>c
  <2>2. j = i + dir - e => u = z - m
    <3>1. (i + dir - e) * n = (i + dir) * n - e * n
      OBVIOUS
    <3> QED BY <1>3, <1>5, <1>6, <1>7, <1>c, <3>1
  <2>3. j = i + dir + e => u = z + m
    <3>1. (i + dir + e) * n = (i + dir) * n + e * n
      OBVIOUS
    <3> QED BY <1>3, <1>5, <1>6, <1>7, <1>c, <3>1
  <2> QED BY <1>2, <2>1, <2>2, <2>3
<1>9. /\ GlobalOf(k, i, x) = IF Periodic[k] THEN z % m ELSE z
      /\ GlobalOf(k, j, y) = IF Periodic[k] THEN u % m ELSE u
  BY <1>1, <1>5, <1>6, <1>7 DEF GlobalOf
<1>10. GlobalOf(k, j, y) = GlobalOf(k, i, x)
  <2>1. CASE ~Periodic[k]
    BY <1>8, <1>9, <2>1
  <2>2. CASE Periodic[k]
    <3>1. z \in -m .. 2 * m - 1 /\ u \in -m .. 2 * m - 1 /\ m # 0
      BY <1>1, <1>3, <1>5, <1>6, <1>7
    <3>2. PICK q \in 0 .. m - 1 : q = z % m
      <4>1. z % m \in 0 .. m - 1
        BY <3>1
      <4> QED BY <4>1
    <3>3. OnceAround(z, m, q)
      BY <3>1, <3>2, Unrolled
    <3>4. OnceAround(u, m, q)
      BY <1>8, <3>1, <3>3 DEF OnceAround
    <3>5. u % m = q
      BY <3>1, <3>4, Unrolled
    <3> QED BY <1>9, <2>2, <3>2, <3>5
  <2> QED BY <2>1, <2>2
<1> QED BY <1>1, <1>2, <1>3, <1>4, <1>10

--------------------------------------------------------------------------------
\* Filling the guard cells along the first j axes: a cell is right if along the other
\* axes it is in the rank's part.
RightUpTo(f, j) ==
  \A r \in Rank, c \in Local :
    (\A l \in Axis : l > j => InPart(l, r[l], c[l])) => f[r][c] = OwnField(r)[c]

LEMMA NeighbourIs ==
  ASSUME NEW r \in Rank, NEW k \in Axis, NEW dir \in {-1, 1}
  PROVE  IF HasBeside(k, r[k], dir)
         THEN /\ Neighbour(r, k, dir) = [r EXCEPT ![k] = Beside(k, r[k], dir)]
              /\ Neighbour(r, k, dir) \in Rank
         ELSE Neighbour(r, k, dir) = Null
<1>1. r \in [Axis -> Nat] /\ r[k] \in 0 .. Extent[k] - 1 /\ Periodic[k] \in BOOLEAN
  BY Ranks, OnTheGrid, Sizes
<1>2. ASSUME HasBeside(k, r[k], dir)
      PROVE  [r EXCEPT ![k] = Beside(k, r[k], dir)] \in Rank
  <2> DEFINE s == [r EXCEPT ![k] = Beside(k, r[k], dir)]
  <2>1. Beside(k, r[k], dir) \in 0 .. Extent[k] - 1
    BY <1>1, <1>2, BesideIs
  <2>2. \A l \in Axis : s[l] = IF l = k THEN Beside(k, r[k], dir) ELSE r[l]
    BY <1>1
  <2>3. s = [l \in Axis |-> s[l]]
    BY <1>1
  <2> HIDE DEF s
  <2>4. \A l \in Axis : s[l] \in Nat /\ s[l] < Extent[l]
    <3>1. Extent[k] \in Nat
      BY Sizes
    <3>2. Beside(k, r[k], dir) \in Nat /\ Beside(k, r[k], dir) < Extent[k]
      BY <2>1, <3>1
    <3> QED BY <2>2, <3>2, Ranks
  <2>5. s \in [Axis -> Nat]
    BY <2>3, <2>4
  <2>6. s \in Rank
    BY <2>4, <2>5, Ranks
  <2> QED BY <2>6 DEF s
<1>3. CASE Periodic[k]
  <2>1. HasBeside(k, r[k], dir)
    BY <1>3 DEF HasBeside
  <2>2. Neighbour(r, k, dir) = [r EXCEPT ![k] = Beside(k, r[k], dir)]
    BY <1>3 DEF Neighbour, Beside
  <2> QED BY <1>2, <2>1, <2>2
<1>4. CASE ~Periodic[k]
  <2>1. HasBeside(k, r[k], dir) <=> r[k] + dir \in 0 .. Extent[k] - 1
    BY <1>4 DEF HasBeside
  <2>2. Neighbour(r, k, dir) =
          IF HasBeside(k, r[k], dir) THEN [r EXCEPT ![k] = Beside(k, r[k], dir)] ELSE Null
    BY <1>4, <2>1 DEF Neighbour, Beside
  <2> QED BY <1>2, <2>2
<1> QED BY <1>1, <1>3, <1>4

LEMMA AlongRight ==
  ASSUME NEW f, NEW k \in Axis, RightUpTo(f, k - 1)
  PROVE  RightUpTo(RefilledAlong(f, k), k)
<1> SUFFICES ASSUME NEW r \in Rank, NEW c \in Local,
                    \A l \in Axis : l > k => InPart(l, r[l], c[l])
             PROVE  RefilledAlong(f, k)[r][c] = OwnField(r)[c]
  BY DEF RightUpTo
<1>0. /\ c \in [Axis -> Nat] /\ r \in [Axis -> Nat] /\ k \in Int
      /\ r[k] \in 0 .. Extent[k] - 1 /\ c[k] \in 0 .. Dims(k) - 1
  <2>1. k \in Int
    BY DEF Axis
  <2> QED BY <2>1, Locals, Ranks, OnTheGrid
<1>1. PICK dir \in {-1, 0, 1} : dir = Toward(k, c[k])
  BY <1>0, InPartIs
<1> DEFINE nb == IF dir = 0 THEN Null ELSE Neighbour(r, k, dir)
           d == [c EXCEPT ![k] = @ - dir * Inner[k]]
<1>2. RefilledAlong(f, k)[r][c] = IF nb = Null THEN f[r][c] ELSE f[nb][d]
  BY <1>1 DEF RefilledAlong, Toward
<1>3. \A l \in Axis : l > k - 1 => l = k \/ l > k
  BY <1>0 DEF Axis
<1>4. CASE dir = 0 \/ ~HasBeside(k, r[k], dir)
  <2>1. InPart(k, r[k], c[k])
    BY <1>0, <1>1, <1>4, NoneBeside
  <2>2. f[r][c] = OwnField(r)[c]
    BY <1>3, <2>1 DEF RightUpTo
  <2>3. nb = Null
    BY <1>1, <1>4, NeighbourIs
  <2> QED BY <1>2, <2>2, <2>3
<1>5. CASE dir # 0 /\ HasBeside(k, r[k], dir)
  <2>1. dir \in {-1, 1}
    BY <1>1, <1>5
  <2>2. /\ nb = [r EXCEPT ![k] = Beside(k, r[k], dir)] /\ nb \in Rank /\ nb # Null
    BY <1>5, <2>1, NeighbourIs, NullIsNoRank
  <2>3. /\ d[k] \in 0 .. Dims(k) - 1 /\ InPart(k, nb[k], d[k])
        /\ GlobalOf(k, nb[k], d[k]) = GlobalOf(k, r[k], c[k])
    <3>1. d[k] = c[k] - dir * Inner[k]
      BY <1>0
    <3>2. nb[k] = Beside(k, r[k], dir)
      BY <1>0, <2>2
    <3> HIDE DEF d, nb
    <3> QED BY <1>0, <1>1, <1>5, <2>1, <3>1, <3>2, NeighbourCell
  <2>4. \A l \in Axis \ {k} : d[l] = c[l] /\ nb[l] = r[l]
    BY <1>0, <2>2
  <2>5. d = [l \in Axis |-> d[l]]
    BY <1>0
  <2> HIDE DEF d, nb
  <2>6. d \in Local
    <3>1. \A l \in Axis : d[l] \in Nat /\ d[l] < Dims(l)
      <4>1. d[k] \in Nat /\ d[k] < Dims(k)
        BY <2>3, Sizes
      <4> QED BY <2>4, <4>1, Locals
    <3>2. d \in [Axis -> Nat]
      BY <2>5, <3>1
    <3> QED BY <3>1, <3>2, Locals
  <2>7. \A l \in Axis : l > k - 1 => InPart(l, nb[l], d[l])
    BY <1>3, <2>3, <2>4
  <2>8. f[nb][d] = OwnField(nb)[d]
    BY <2>2, <2>6, <2>7 DEF RightUpTo
  <2>9. OwnField(nb)[d] = OwnField(r)[c]
    <3>1. \A l \in Axis : GlobalOf(l, nb[l], d[l]) = GlobalOf(l, r[l], c[l])
      BY <2>3, <2>4
    <3>2. [l \in Axis |-> GlobalOf(l, nb[l], d[l])] = [l \in Axis |-> GlobalOf(l, r[l], c[l])]
      BY <3>1
    <3>3. OwnField(nb)[d] = [run |-> 1, cell |-> [l \in Axis |-> GlobalOf(l, nb[l], d[l])]]
      BY <2>2, <2>6, OwnFieldIs
    <3>4. OwnField(r)[c] = [run |-> 1, cell |-> [l \in Axis |-> GlobalOf(l, r[l], c[l])]]
      BY OwnFieldIs
    <3> QED BY <3>2, <3>3, <3>4
  <2> QED BY <1>2, <2>2, <2>8, <2>9
<1> QED BY <1>1, <1>4, <1>5

\* After all axes every cell is right.
LEMMA RefillRight ==
  ASSUME NEW f, RightUpTo(f, 0)
  PROVE  Refilled(f) = [r \in Rank |-> OwnField(r)]
<1> DEFINE f1 == RefilledAlong(f, 1)
           f2 == RefilledAlong(f1, 2)
           f3 == RefilledAlong(f2, 3)
           v == [k \in 0 .. Dim |-> IF k = 0 THEN f ELSE IF k = 1 THEN f1
                                    ELSE IF k = 2 THEN f2 ELSE f3]
<1> HIDE DEF f1, f2, f3
<1>1. v = [k \in 0 .. Dim |-> IF k = 0 THEN f ELSE RefilledAlong(v[k - 1], k)]
  <2>1. \A k \in 0 .. Dim : k \in {0, 1, 2, 3} /\ (k # 0 => k - 1 \in 0 .. Dim)
    BY DimAssumption
  <2>2. ASSUME NEW k \in 0 .. Dim
        PROVE  v[k] = IF k = 0 THEN f ELSE RefilledAlong(v[k - 1], k)
    <3>1. CASE k = 0
      BY <3>1
    <3>2. CASE k = 1
      <4>1. v[0] = f /\ v[1] = f1
        BY <3>2, DimAssumption
      <4> QED BY <3>2, <4>1 DEF f1
    <3>3. CASE k = 2
      <4>1. v[1] = f1 /\ v[2] = f2
        BY <3>3, DimAssumption
      <4> QED BY <3>3, <4>1 DEF f2
    <3>4. CASE k = 3
      <4>1. v[2] = f2 /\ v[3] = f3
        BY <3>4, DimAssumption
      <4> QED BY <3>4, <4>1 DEF f3
    <3> QED BY <2>1, <3>1, <3>2, <3>3, <3>4
  <2>3. v = [k \in 0 .. Dim |-> v[k]]
    OBVIOUS
  <2> HIDE DEF v
  <2> QED BY <2>2, <2>3
<1> HIDE DEF v
<1>2. PICK g : /\ g = [k \in 0 .. Dim |-> IF k = 0 THEN f ELSE RefilledAlong(g[k - 1], k)]
               /\ Refilled(f) = g[Dim]
  BY <1>1 DEF Refilled
<1>3. g[0] = f /\ \A k \in Axis : g[k] = RefilledAlong(g[k - 1], k)
  BY <1>2, DimAssumption DEF Axis
<1>4. \A k \in Axis : RightUpTo(g[k - 1], k - 1) => RightUpTo(g[k], k)
  BY <1>3, AlongRight
<1>5. RightUpTo(g[1], 1)
  BY <1>3, <1>4, DimAssumption DEF Axis
<1>6. Dim \in Axis /\ RightUpTo(g[Dim], Dim)
  <2>1. CASE Dim = 1
    BY <1>5, <2>1 DEF Axis
  <2>2. CASE Dim = 2
    BY <1>4, <1>5, <2>2 DEF Axis
  <2>3. CASE Dim = 3
    <3>1. RightUpTo(g[2], 2)
      BY <1>4, <1>5, <2>3 DEF Axis
    <3> QED BY <1>4, <2>3, <3>1 DEF Axis
  <2> QED BY <2>1, <2>2, <2>3, DimAssumption
<1>7. \A r \in Rank, c \in Local : g[Dim][r][c] = OwnField(r)[c]
  <2>1. \A l \in Axis : ~(l > Dim)
    BY DimAssumption DEF Axis
  <2> QED BY <1>6, <2>1 DEF RightUpTo
<1>8. g[Dim] = [r \in Rank |-> [c \in Local |-> g[Dim][r][c]]]
  <2>1. PICK h : h = g[Dim - 1] /\ g[Dim] = RefilledAlong(h, Dim)
    BY <1>3, <1>6
  <2> QED BY <2>1 DEF RefilledAlong
<1>9. \A r \in Rank : [c \in Local |-> g[Dim][r][c]] = OwnField(r)
  <2>1. \A r \in Rank : OwnField(r) = [c \in Local |-> OwnField(r)[c]]
    BY DEF OwnField
  <2> QED BY <1>7, <2>1
<1> QED BY <1>2, <1>8, <1>9

--------------------------------------------------------------------------------
\* The numbers of the ranks.
LEMMA RankNoIs ==
  ASSUME NEW r \in Rank
  PROVE  /\ Dim = 1 => RankNo(r) = r[1]
         /\ Dim = 2 => RankNo(r) = r[1] * Extent[2] + r[2]
         /\ Dim = 3 => RankNo(r) = (r[1] * Extent[2] + r[2]) * Extent[3] + r[3]
<1> DEFINE v == [k \in 0 .. Dim |->
                   IF k = 0 THEN 0 ELSE IF k = 1 THEN r[1]
                   ELSE IF k = 2 THEN r[1] * Extent[2] + r[2]
                   ELSE (r[1] * Extent[2] + r[2]) * Extent[3] + r[3]]
<1>0. 1 \in Axis /\ r[1] \in Nat /\ Extent[1] \in Nat /\ 0 * Extent[1] + r[1] = r[1]
  <2>1. 1 \in Axis
    BY DimAssumption DEF Axis
  <2>2. r[1] \in Nat /\ Extent[1] \in Nat
    BY <2>1, Ranks, Sizes
  <2> QED BY <2>1, <2>2
<1>1. v = [k \in 0 .. Dim |-> IF k = 0 THEN 0 ELSE v[k - 1] * Extent[k] + r[k]]
  <2>1. ASSUME NEW k \in 0 .. Dim
        PROVE  v[k] = IF k = 0 THEN 0 ELSE v[k - 1] * Extent[k] + r[k]
    <3>1. CASE k = 0
      BY <3>1
    <3>2. CASE k = 1
      <4>1. v[0] = 0 /\ v[1] = r[1] /\ k - 1 = 0
        BY <3>2, DimAssumption
      <4> HIDE DEF v
      <4> QED BY <1>0, <3>2, <4>1
    <3>3. CASE k = 2
      <4>1. v[1] = r[1] /\ v[2] = r[1] * Extent[2] + r[2]
        BY <3>3, DimAssumption
      <4> QED BY <3>3, <4>1
    <3>4. CASE k = 3
      <4>1. /\ v[2] = r[1] * Extent[2] + r[2]
            /\ v[3] = (r[1] * Extent[2] + r[2]) * Extent[3] + r[3]
        BY <3>4, DimAssumption
      <4> QED BY <3>4, <4>1
    <3> QED BY <3>1, <3>2, <3>3, <3>4, DimAssumption
  <2>2. v = [k \in 0 .. Dim |-> v[k]]
    OBVIOUS
  <2> HIDE DEF v
  <2> QED BY <2>1, <2>2
<1> HIDE DEF v
<1>2. PICK n : /\ n = [k \in 0 .. Dim |-> IF k = 0 THEN 0 ELSE n[k - 1] * Extent[k] + r[k]]
               /\ RankNo(r) = n[Dim]
  BY <1>1 DEF RankNo
<1>3. n[0] = 0 /\ n[1] = n[0] * Extent[1] + r[1]
  BY <1>2, DimAssumption
<1>4. n[1] = r[1]
  BY <1>0, <1>3
<1>5. Dim = 2 \/ Dim = 3 => n[2] = n[1] * Extent[2] + r[2]
  BY <1>2
<1>6. Dim = 3 => n[3] = n[2] * Extent[3] + r[3]
  BY <1>2
<1> QED BY <1>2, <1>4, <1>5, <1>6

\* Numbers of two digits.
LEMMA Digits ==
  ASSUME NEW P \in Nat, NEW e \in Nat, NEW a \in 0 .. P - 1, NEW x \in 0 .. e - 1
  PROVE  /\ a * e + x \in 0 .. P * e - 1
         /\ \A b \in 0 .. P - 1, y \in 0 .. e - 1 : a * e + x = b * e + y => a = b /\ x = y
<1>1. a * e \in Nat /\ P * e \in Nat /\ a * e + e <= P * e
  BY BlockOf
<1>2. ASSUME NEW b \in 0 .. P - 1, NEW y \in 0 .. e - 1, a * e + x = b * e + y
      PROVE  a = b /\ x = y
  <2>1. b * e \in Nat /\ b \in Nat /\ a \in Nat
    BY BlockOf
  <2>2. CASE a < b
    <3>1. a \in 0 .. b - 1
      BY <2>1, <2>2
    <3>2. a * e + e <= b * e
      BY <2>1, <3>1, BlockOf
    <3> QED BY <1>1, <1>2, <2>1, <3>2
  <2>3. CASE b < a
    <3>1. b \in 0 .. a - 1
      BY <2>1, <2>3
    <3>2. b * e + e <= a * e
      BY <2>1, <3>1, BlockOf
    <3> QED BY <1>1, <1>2, <2>1, <3>2
  <2>4. CASE a = b
    BY <1>1, <1>2, <2>4
  <2> QED BY <2>1, <2>2, <2>3, <2>4
<1> QED BY <1>1, <1>2

LEMMA SameRank ==
  ASSUME NEW r \in Rank, NEW s \in Rank, \A k \in Axis : r[k] = s[k]
  PROVE  r = s
<1>1. r \in [Axis -> Nat] /\ s \in [Axis -> Nat]
  BY Ranks
<1> QED BY <1>1

\* Every number below P is that of one rank.
Numbered(P) ==
  /\ \A r \in Rank : RankNo(r) \in 0 .. P - 1
  /\ \A r, s \in Rank : RankNo(r) = RankNo(s) => r = s
  /\ \A n \in 0 .. P - 1 : \E r \in Rank : RankNo(r) = n

LEMMA NumberedOne ==
  ASSUME Dim = 1
  PROVE  \E P \in Nat : Numbered(P)
<1>1. PICK e \in Nat : e = Extent[1]
  BY Sizes DEF Axis
<1>2. 1 \in Axis /\ \A k \in Axis : k = 1
  BY DEF Axis
<1>3. \A r \in Rank : RankNo(r) = r[1] /\ r[1] \in 0 .. e - 1
  BY <1>1, <1>2, RankNoIs, OnTheGrid
<1>4. \A r, s \in Rank : RankNo(r) = RankNo(s) => r = s
  BY <1>2, <1>3, SameRank
<1>5. ASSUME NEW n \in 0 .. e - 1
      PROVE  \E r \in Rank : RankNo(r) = n
  <2> DEFINE S == [k \in Axis |-> {n}]
  <2>1. \A k \in Axis : \E i \in 0 .. Extent[k] - 1 : i \in S[k]
    BY <1>1, <1>2
  <2>2. PICK r \in Rank : \A k \in Axis : r[k] \in S[k]
    <3> HIDE DEF S
    <3> QED BY <2>1, SomeRank
  <2> QED BY <1>2, <1>3, <2>2
<1> QED BY <1>3, <1>4, <1>5 DEF Numbered

LEMMA NumberedTwo ==
  ASSUME Dim = 2
  PROVE  \E P \in Nat : Numbered(P)
<1>1. PICK d \in Nat, e \in Nat : d = Extent[1] /\ e = Extent[2]
  BY Sizes DEF Axis
<1>2. 1 \in Axis /\ 2 \in Axis /\ \A k \in Axis : k = 1 \/ k = 2
  BY DEF Axis
<1>3. \A r \in Rank : /\ RankNo(r) = r[1] * e + r[2]
                      /\ r[1] \in 0 .. d - 1 /\ r[2] \in 0 .. e - 1
  BY <1>1, <1>2, RankNoIs, OnTheGrid
<1>4. PICK P \in Nat : P = d * e
  <2>1. d * e \in Nat
    OBVIOUS
  <2> QED BY <2>1
<1>5. \A r \in Rank : RankNo(r) \in 0 .. P - 1
  BY <1>3, <1>4, Digits
<1>6. ASSUME NEW r \in Rank, NEW s \in Rank, RankNo(r) = RankNo(s)
      PROVE  r = s
  <2>1. r[1] = s[1] /\ r[2] = s[2]
    BY <1>3, <1>6, Digits
  <2> QED BY <1>2, <2>1, SameRank
<1>7. ASSUME NEW n \in 0 .. P - 1
      PROVE  \E r \in Rank : RankNo(r) = n
  <2>1. PICK i \in 0 .. d - 1, p \in 0 .. e - 1 : n = i * e + p
    BY <1>4, Blocks
  <2> DEFINE S == [k \in Axis |-> IF k = 1 THEN {i} ELSE {p}]
  <2>2. \A k \in Axis : \E j \in 0 .. Extent[k] - 1 : j \in S[k]
    BY <1>1, <1>2
  <2>3. S[1] = {i} /\ S[2] = {p}
    BY <1>2
  <2> HIDE DEF S
  <2>4. PICK r \in Rank : \A k \in Axis : r[k] \in S[k]
    BY <2>2, SomeRank
  <2>5. r[1] = i /\ r[2] = p
    BY <1>2, <2>3, <2>4
  <2> QED BY <1>3, <2>1, <2>5
<1> QED BY <1>5, <1>6, <1>7 DEF Numbered

LEMMA NumberedThree ==
  ASSUME Dim = 3
  PROVE  \E P \in Nat : Numbered(P)
<1>1. PICK c \in Nat, d \in Nat, e \in Nat : c = Extent[1] /\ d = Extent[2] /\ e = Extent[3]
  BY Sizes DEF Axis
<1>2. 1 \in Axis /\ 2 \in Axis /\ 3 \in Axis /\ \A k \in Axis : k = 1 \/ k = 2 \/ k = 3
  BY DEF Axis
<1>3. \A r \in Rank : /\ RankNo(r) = (r[1] * d + r[2]) * e + r[3] /\ r[1] \in 0 .. c - 1
                      /\ r[2] \in 0 .. d - 1 /\ r[3] \in 0 .. e - 1
  BY <1>1, <1>2, RankNoIs, OnTheGrid
<1>4. PICK Q \in Nat : Q = c * d
  <2>1. c * d \in Nat
    OBVIOUS
  <2> QED BY <2>1
<1>5. PICK P \in Nat : P = Q * e
  <2>1. Q * e \in Nat
    OBVIOUS
  <2> QED BY <2>1
<1>6. \A r \in Rank : r[1] * d + r[2] \in 0 .. Q - 1
  BY <1>3, <1>4, Digits
<1>7. \A r \in Rank : RankNo(r) \in 0 .. P - 1
  BY <1>3, <1>5, <1>6, Digits
<1>8. ASSUME NEW r \in Rank, NEW s \in Rank, RankNo(r) = RankNo(s)
      PROVE  r = s
  <2>1. r[1] * d + r[2] = s[1] * d + s[2] /\ r[3] = s[3]
    <3>1. PICK a \in 0 .. Q - 1, b \in 0 .. Q - 1 :
            a = r[1] * d + r[2] /\ b = s[1] * d + s[2]
      BY <1>6
    <3>2. a * e + r[3] = b * e + s[3] /\ r[3] \in 0 .. e - 1 /\ s[3] \in 0 .. e - 1
      BY <1>3, <1>8, <3>1
    <3>3. a = b /\ r[3] = s[3]
      BY <3>2, Digits
    <3> QED BY <3>1, <3>3
  <2>2. r[1] = s[1] /\ r[2] = s[2]
    BY <1>3, <2>1, Digits
  <2> QED BY <1>2, <2>1, <2>2, SameRank
<1>9. ASSUME NEW n \in 0 .. P - 1
      PROVE  \E r \in Rank : RankNo(r) = n
  <2>1. PICK m \in 0 .. Q - 1, q \in 0 .. e - 1 : n = m * e + q
    BY <1>5, Blocks
  <2>2. PICK i \in 0 .. c - 1, p \in 0 .. d - 1 : m = i * d + p
    BY <1>4, Blocks
  <2> DEFINE S == [k \in Axis |-> IF k = 1 THEN {i} ELSE IF k = 2 THEN {p} ELSE {q}]
  <2>3. \A k \in Axis : \E j \in 0 .. Extent[k] - 1 : j \in S[k]
    BY <1>1, <1>2
  <2>4. S[1] = {i} /\ S[2] = {p} /\ S[3] = {q}
    BY <1>2
  <2> HIDE DEF S
  <2>5. PICK r \in Rank : \A k \in Axis : r[k] \in S[k]
    BY <2>3, SomeRank
  <2>6. r[1] = i /\ r[2] = p /\ r[3] = q
    BY <1>2, <2>4, <2>5
  <2> QED BY <1>3, <2>1, <2>2, <2>6
<1> QED BY <1>7, <1>8, <1>9 DEF Numbered

LEMMA Numbering == Cardinality(Rank) \in Nat /\ Numbered(Cardinality(Rank))
<1>1. PICK P \in Nat : Numbered(P)
  BY NumberedOne, NumberedTwo, NumberedThree, DimAssumption
<1> DEFINE f == [r \in Rank |-> RankNo(r)]
<1>2. f \in Injection(Rank, 0 .. P - 1) /\ f \in Surjection(Rank, 0 .. P - 1)
  BY <1>1 DEF Numbered, Injection, IsInjective, Surjection
<1>3. IsFiniteSet(0 .. P - 1) /\ Cardinality(0 .. P - 1) = P
  BY AllSlots
<1> HIDE DEF f
<1>4. Cardinality(Rank) = P
  BY <1>2, <1>3, FS_Injection
<1> QED BY <1>1, <1>4

--------------------------------------------------------------------------------
\* Sums of the numbers of the first n.
IsScan(s, num, C) ==
  s = [n \in 0 .. C |-> IF n = 0 THEN 0 ELSE s[n - 1] + num[n - 1]]

LEMMA ScanExists ==
  ASSUME NEW C \in Nat, NEW num \in [0 .. C - 1 -> Nat]
  PROVE  \E s : IsScan(s, num, C) /\ s \in [0 .. C -> Nat]
<1> DEFINE Has(j) == \E s : IsScan(s, num, j) /\ s \in [0 .. j -> Nat]
           T == {j \in Nat : j <= C /\ ~Has(j)}
<1>1. Has(0)
  <2> DEFINE s == [n \in 0 .. 0 |-> 0]
  <2>1. \A n \in 0 .. 0 : n = 0
    OBVIOUS
  <2>2. s = [n \in 0 .. 0 |-> IF n = 0 THEN 0 ELSE s[n - 1] + num[n - 1]]
    BY <2>1
  <2>3. s \in [0 .. 0 -> Nat]
    OBVIOUS
  <2> HIDE DEF s
  <2>4. IsScan(s, num, 0)
    BY <2>2 DEF IsScan
  <2> QED BY <2>3, <2>4
<1>2. ASSUME NEW j \in Nat, j < C, Has(j)
      PROVE  Has(j + 1)
  <2>1. PICK s : IsScan(s, num, j) /\ s \in [0 .. j -> Nat]
    BY <1>2
  <2> DEFINE t == [n \in 0 .. j + 1 |-> IF n = j + 1 THEN s[j] + num[j] ELSE s[n]]
  <2>2. num[j] \in Nat
    BY <1>2
  <2>3. t \in [0 .. j + 1 -> Nat]
    <3>1. \A n \in 0 .. j + 1 : n # j + 1 => n \in 0 .. j
      OBVIOUS
    <3>2. s[j] + num[j] \in Nat
      BY <2>1, <2>2
    <3>3. ASSUME NEW n \in 0 .. j + 1
          PROVE  (IF n = j + 1 THEN s[j] + num[j] ELSE s[n]) \in Nat
      BY <2>1, <3>1, <3>2
    <3> QED BY <3>3
  <2>4. ASSUME NEW n \in 0 .. j + 1
        PROVE  t[n] = IF n = 0 THEN 0 ELSE t[n - 1] + num[n - 1]
    <3>1. CASE n = j + 1
      <4>1. n # 0 /\ n - 1 = j /\ j \in 0 .. j + 1 /\ j # j + 1
        BY <3>1
      <4>2. t[n] = s[j] + num[j] /\ t[j] = s[j]
        BY <3>1, <4>1
      <4> HIDE DEF t
      <4> QED BY <4>1, <4>2
    <3>2. CASE n # j + 1
      <4>1. n \in 0 .. j /\ (n # 0 => n - 1 \in 0 .. j + 1 /\ n - 1 # j + 1)
        BY <3>2
      <4>2. t[n] = s[n] /\ (n # 0 => t[n - 1] = s[n - 1])
        BY <3>2, <4>1
      <4>3. s[n] = IF n = 0 THEN 0 ELSE s[n - 1] + num[n - 1]
        BY <2>1, <4>1 DEF IsScan
      <4> HIDE DEF t
      <4> QED BY <4>2, <4>3
    <3> QED BY <3>1, <3>2
  <2>5. t = [n \in 0 .. j + 1 |-> t[n]]
    OBVIOUS
  <2> HIDE DEF t
  <2>6. IsScan(t, num, j + 1)
    BY <2>4, <2>5 DEF IsScan
  <2> QED BY <2>3, <2>6
<1> HIDE DEF Has
<1>3. CASE T # {}
  <2>1. PICK j \in T : \A i \in T : j <= i
    BY <1>3, LeastNumber
  <2>2. j # 0 /\ j - 1 \in Nat /\ j - 1 + 1 = j /\ j - 1 < C
    BY <1>1, <2>1
  <2>3. Has(j - 1)
    BY <2>1, <2>2
  <2>4. Has(j - 1 + 1)
    BY <1>2, <2>2, <2>3
  <2> QED BY <2>1, <2>2, <2>4
<1>4. CASE T = {}
  <2>1. Has(C)
    BY <1>4
  <2> QED BY <2>1 DEF Has
<1> QED BY <1>3, <1>4

LEMMA ScanIs ==
  ASSUME NEW num \in [0 .. Cardinality(Rank) - 1 -> Nat]
  PROVE  /\ Scan(num) \in [0 .. Cardinality(Rank) -> Nat] /\ Scan(num)[0] = 0
         /\ \A n \in 0 .. Cardinality(Rank) - 1 : Scan(num)[n + 1] = Scan(num)[n] + num[n]
<1>1. PICK C \in Nat : C = Cardinality(Rank)
  BY Numbering
<1>2. PICK h : IsScan(h, num, C) /\ h \in [0 .. C -> Nat]
  BY <1>1, ScanExists
<1>3. IsScan(Scan(num), num, C)
  <2>1. \E s : s = [n \in 0 .. Cardinality(Rank) |-> IF n = 0 THEN 0 ELSE s[n - 1] + num[n - 1]]
    BY <1>1, <1>2 DEF IsScan
  <2>2. Scan(num) = [n \in 0 .. Cardinality(Rank) |->
                       IF n = 0 THEN 0 ELSE Scan(num)[n - 1] + num[n - 1]]
    BY <2>1 DEF Scan
  <2> QED BY <1>1, <2>2 DEF IsScan
<1>4. PICK s : s = Scan(num) /\ IsScan(s, num, C)
  BY <1>3
<1>5. s[0] = 0 /\ \A n \in 0 .. C - 1 : s[n + 1] = s[n] + num[n]
  <2>1. s[0] = 0
    BY <1>4 DEF IsScan
  <2>2. ASSUME NEW n \in 0 .. C - 1
        PROVE  s[n + 1] = s[n] + num[n]
    <3>1. n + 1 \in 0 .. C /\ n + 1 # 0 /\ n + 1 - 1 = n
      OBVIOUS
    <3>2. \A i \in 0 .. C : s[i] = IF i = 0 THEN 0 ELSE s[i - 1] + num[i - 1]
      BY <1>4 DEF IsScan
    <3>3. s[n + 1] = IF n + 1 = 0 THEN 0 ELSE s[n + 1 - 1] + num[n + 1 - 1]
      BY <3>1, <3>2
    <3> QED BY <3>1, <3>3
  <2> QED BY <2>1, <2>2
<1>6. s \in [0 .. C -> Nat]
  <2> DEFINE T == {n \in Nat : n <= C /\ s[n] \notin Nat}
  <2>1. T = {}
    <3>1. SUFFICES ASSUME T # {} PROVE FALSE
      OBVIOUS
    <3>2. PICK n \in T : \A i \in T : n <= i
      BY <3>1, LeastNumber
    <3>3. n # 0 /\ n - 1 \in Nat /\ n - 1 + 1 = n /\ n - 1 \in 0 .. C - 1
      BY <1>5, <3>2
    <3>4. s[n - 1] \in Nat
      BY <3>2, <3>3
    <3>5. s[n] = s[n - 1] + num[n - 1] /\ num[n - 1] \in Nat
      BY <1>1, <1>5, <3>3
    <3> QED BY <3>2, <3>4, <3>5
  <2>2. \A n \in 0 .. C : s[n] \in Nat
    BY <2>1
  <2>3. s = [n \in 0 .. C |-> s[n]]
    BY <1>4 DEF IsScan
  <2> QED BY <2>2, <2>3
<1> QED BY <1>1, <1>4, <1>5, <1>6

\* The parts of an array that the sums bound do not overlap, and cover it.
LEMMA ScanParts ==
  ASSUME NEW C \in Nat, NEW num \in [0 .. C - 1 -> Nat], NEW s \in [0 .. C -> Nat], s[0] = 0,
         \A n \in 0 .. C - 1 : s[n + 1] = s[n] + num[n]
  PROVE  /\ \A m, n \in 0 .. C : m <= n => s[m] <= s[n]
         /\ \A j \in 0 .. s[C] - 1 : \E n \in 0 .. C - 1 : j \in s[n] .. s[n] + num[n] - 1
<1>1. ASSUME NEW m \in 0 .. C
      PROVE  \A n \in 0 .. C : m <= n => s[m] <= s[n]
  <2> DEFINE T == {n \in Nat : n <= C /\ m <= n /\ ~(s[m] <= s[n])}
  <2>1. T = {}
    <3>1. SUFFICES ASSUME T # {} PROVE FALSE
      OBVIOUS
    <3>2. PICK n \in T : \A i \in T : n <= i
      BY <3>1, LeastNumber
    <3>3. n # m
      <4>1. s[m] <= s[m]
        OBVIOUS
      <4> QED BY <3>2, <4>1
    <3>4. n - 1 \in Nat /\ n - 1 + 1 = n /\ n - 1 \in 0 .. C - 1 /\ m <= n - 1
      BY <3>2, <3>3
    <3>5. s[m] <= s[n - 1]
      BY <3>2, <3>4
    <3>6. s[n] = s[n - 1] + num[n - 1] /\ num[n - 1] \in Nat /\ s[n - 1] \in Nat
      BY <3>4
    <3> QED BY <3>2, <3>5, <3>6
  <2>2. ASSUME NEW n \in 0 .. C, m <= n
        PROVE  s[m] <= s[n]
    <3>1. n \in Nat /\ n <= C
      OBVIOUS
    <3>2. n \notin T
      <4> HIDE DEF T
      <4> QED BY <2>1
    <3> QED BY <2>2, <3>1, <3>2
  <2> QED BY <2>2
<1>2. ASSUME NEW j \in 0 .. s[C] - 1
      PROVE  \E n \in 0 .. C - 1 : j \in s[n] .. s[n] + num[n] - 1
  <2> DEFINE T == {n \in Nat : n <= C /\ j < s[n]}
  <2>1. C \in T
    OBVIOUS
  <2>2. PICK n \in T : \A i \in T : n <= i
    BY <2>1, LeastNumber
  <2>3. n # 0 /\ n - 1 \in Nat /\ n - 1 + 1 = n /\ n - 1 \in 0 .. C - 1
    BY <2>2
  <2>4. ~(j < s[n - 1])
    BY <2>2, <2>3
  <2>5. s[n] = s[n - 1] + num[n - 1] /\ num[n - 1] \in Nat /\ s[n - 1] \in Nat
    BY <2>3
  <2>6. j < s[n] /\ j \in Nat
    <3>1. s[C] \in Nat
      OBVIOUS
    <3> QED BY <2>2, <3>1
  <2>7. j \in s[n - 1] .. s[n - 1] + num[n - 1] - 1
    BY <2>4, <2>5, <2>6
  <2> QED BY <2>3, <2>7
<1> QED BY <1>1, <1>2

--------------------------------------------------------------------------------
(* The inductive invariant: what each rank has in memory at the place it has        *)
(* reached, and what the files have of the ranks that have written to them.         *)
AllOf(places) == \A r \in Rank : at[r] \in places
Phases ==
  \/ run = 1 /\ (AllOf({"stepping", "output"}) \/ AllOf({"output", "written"}))
  \/ run = 2 /\ (AllOf({"restarted", "read"}) \/ AllOf({"exchanged", "resumed"}))
Written(r) == at[r] \notin {"stepping", "output"}

Places == {"stepping", "output", "written", "restarted", "read", "exchanged", "resumed"}
Buffer == [host : [Local -> Value], dev : [Local -> Value]]
SlotValue == [run : {1, 2}, rank : Rank, slot : 0 .. PtcSize - 1] \cup {Empty}
Types ==
  /\ device \in BOOLEAN
  /\ field \in [Rank -> Buffer]
  /\ slot \in [Rank -> [0 .. PtcSize - 1 -> SlotValue]]
  /\ number \in [Rank -> 0 .. PtcSize]
  /\ output \in [Cells(OutTotal) -> Interiors \cup {Unset}]
  /\ at \in [Rank -> Places]
  /\ saved \in Numbers

\* The cells a rank has read are right, those it has not come from its neighbours.
PartRight(r, f) == \A c \in Local : InBox(c, PosArray(r), Ext(r)) => f[c] = OwnField(r)[c]
FieldInv ==
  \A r \in Rank :
    /\ at[r] \in {"stepping", "output", "written"} => field[r] = Both(OwnField(r))
    /\ at[r] = "restarted" => field[r] = Both([c \in Local |-> [run |-> 2, cell |-> Zero]])
    /\ at[r] = "read" => PartRight(r, InUse(field[r]))
    /\ at[r] \in {"exchanged", "resumed"} => InUse(field[r]) = OwnField(r)

Own(r, j) == [run |-> 1, rank |-> r, slot |-> j]
ParticleInv ==
  \A r \in Rank :
    /\ at[r] \in {"stepping", "output", "written"} =>
         number[r] = saved[r] /\ slot[r] = OwnSlots(r, saved[r], 1)
    /\ at[r] = "resumed" =>
         number[r] = saved[r] /\ \A j \in 0 .. saved[r] - 1 : slot[r][j] = Own(r, j)

\* The numbers of the ranks in the order MPI has them.
NumsOf(num) == [n \in RankNos |-> num[CHOOSE s \in Rank : RankNo(s) = n]]
SomeWritten == \E r \in Rank : Written(r)
OutputInv ==
  \A r \in Rank : at[r] # "stepping" =>
    \A c \in Cells(OutTotal) : InBox(c, OutOffset(r), OutExt) => output[c] = Block(c)
SnapshotInv ==
  /\ DOMAIN snapshot.field = Cells(ExtTotal)
  /\ snapshot.num \in [RankNos -> 0 .. PtcSize \cup {Unset}]
  /\ IF SomeWritten THEN DOMAIN snapshot.ptc = 1 .. Total(NumsOf(saved))
                    ELSE snapshot.ptc = <<>>
  /\ \A r \in Rank : Written(r) =>
       /\ \A c \in Cells(ExtTotal) :
            InBox(c, PosFile(r), Ext(r)) => snapshot.field[c] = Right(c)
       /\ snapshot.num[RankNo(r)] = saved[r]
       /\ \A j \in 0 .. saved[r] - 1 :
            snapshot.ptc[ScanOffset(r, NumsOf(saved)) + j + 1] = Own(r, j)

IInv == Types /\ Phases /\ FieldInv /\ ParticleInv /\ OutputInv /\ SnapshotInv

--------------------------------------------------------------------------------
\* The values a field can have.
LEMMA ValueIs ==
  /\ \A u \in {1, 2}, z \in [Axis -> Int] :
       (\A k \in Axis : -GuardOf[k] <= z[k] /\ z[k] <= Extent[k] * Inner[k] + GuardOf[k])
         => [run |-> u, cell |-> z] \in Value
<1> DEFINE W == [k \in Axis |-> Extent[k] * Inner[k] + GuardOf[k]]
<1>1. GuardOf \in [Axis -> Nat]
  BY GridAssumption
<1>2. PICK a \in Nat : a = Max({GuardOf[k] : k \in Axis}) /\ \A k \in Axis : GuardOf[k] <= a
  BY <1>1, Largest
<1>3. \A k \in Axis : Extent[k] * Inner[k] + GuardOf[k] \in Nat
  BY Sizes
<1>4. W \in [Axis -> Nat] /\ \A k \in Axis : W[k] = Extent[k] * Inner[k] + GuardOf[k]
  BY <1>3
<1>5. {W[k] : k \in Axis} = {Extent[k] * Inner[k] + GuardOf[k] : k \in Axis}
  BY <1>4
<1> HIDE DEF W
<1>6. PICK b \in Nat : /\ b = Max({Extent[k] * Inner[k] + GuardOf[k] : k \in Axis})
                       /\ \A k \in Axis : W[k] <= b
  BY <1>4, <1>5, Largest
<1>7. Value = [run : {1, 2}, cell : [Axis -> -a .. b]]
  BY <1>2, <1>6 DEF Value
<1>8. ASSUME NEW u \in {1, 2}, NEW z \in [Axis -> Int],
             \A k \in Axis : -GuardOf[k] <= z[k] /\ z[k] <= W[k]
      PROVE  [run |-> u, cell |-> z] \in Value
  <2>1. ASSUME NEW k \in Axis
        PROVE  z[k] \in -a .. b
    <3>1. PICK g \in Nat, w \in Nat : g = GuardOf[k] /\ w = W[k] /\ g <= a /\ w <= b
      BY <1>1, <1>2, <1>4, <1>6
    <3>2. -g <= z[k] /\ z[k] <= w /\ z[k] \in Int
      BY <1>8, <3>1
    <3> QED BY <3>1, <3>2
  <2>2. z \in [Axis -> -a .. b]
    BY <2>1
  <2> QED BY <1>7, <2>2
<1> QED BY <1>4, <1>8

LEMMA OwnValue ==
  ASSUME NEW r \in Rank
  PROVE  OwnField(r) \in [Local -> Value]
<1>1. ASSUME NEW c \in Local
      PROVE  OwnField(r)[c] \in Value
  <2> DEFINE z == [k \in Axis |-> GlobalOf(k, r[k], c[k])]
  <2>1. ASSUME NEW k \in Axis
        PROVE  /\ z[k] \in Int /\ -GuardOf[k] <= z[k]
               /\ z[k] <= Extent[k] * Inner[k] + GuardOf[k]
    <3>1. PICK n \in Nat, g \in Nat, e \in Nat \ {0} :
            /\ n = Inner[k] /\ g = GuardOf[k] /\ e = Extent[k] /\ g <= n
            /\ Dims(k) = n + 2 * g /\ r[k] \in 0 .. e - 1
      BY Sizes, OnTheGrid
    <3>2. PICK x \in 0 .. n + 2 * g - 1 : x = c[k]
      BY <3>1, OnTheGrid
    <3>3. PICK w \in Nat, m \in Nat : w = r[k] * n /\ m = e * n /\ w + n <= m
      <4>1. r[k] * n \in Nat /\ e * n \in Nat /\ r[k] * n + n <= e * n
        BY <3>1, BlockOf
      <4> QED BY <4>1
    <3>4. z[k] = IF Periodic[k] THEN (w + x - g) % m ELSE w + x - g
      BY <3>1, <3>2, <3>3 DEF GlobalOf
    <3>5. m # 0
      BY <3>1, <3>2, <3>3
    <3>6. (w + x - g) % m \in 0 .. m - 1
      BY <3>5
    <3>7. w + x - g \in -g .. m + g
      BY <3>1, <3>2, <3>3
    <3>8. z[k] \in -g .. m + g
      <4> HIDE DEF z
      <4>1. (w + x - g) % m \in -g .. m + g
        BY <3>6
      <4> QED BY <3>4, <3>7, <4>1
    <3> HIDE DEF z
    <3> QED BY <3>1, <3>3, <3>8
  <2>2. z = [k \in Axis |-> z[k]]
    OBVIOUS
  <2>3. OwnField(r)[c] = [run |-> 1, cell |-> z]
    BY OwnFieldIs
  <2> HIDE DEF z
  <2>4. z \in [Axis -> Int]
    BY <2>1, <2>2
  <2> QED BY <2>1, <2>3, <2>4, ValueIs
<1>2. OwnField(r) = [c \in Local |-> OwnField(r)[c]]
  BY DEF OwnField
<1> QED BY <1>1, <1>2

LEMMA OtherValue == [run |-> 2, cell |-> Zero] \in Value
<1>1. Zero \in [Axis -> Int] /\ \A k \in Axis : Zero[k] = 0
  BY DEF Zero
<1>2. \A k \in Axis : -GuardOf[k] <= 0 /\ 0 <= Extent[k] * Inner[k] + GuardOf[k]
  BY Sizes
<1> QED BY <1>1, <1>2, ValueIs

LEMMA BlockValue ==
  ASSUME NEW c \in Cells(OutTotal)
  PROVE  Block(c) \in Interiors
<1> DEFINE z == [k \in Axis |-> c[k] * Down]
<1>1. ASSUME NEW k \in Axis
      PROVE  /\ z[k] \in 0 .. Extent[k] * Inner[k] - 1
             /\ z[k] \in Int /\ -GuardOf[k] <= z[k]
             /\ z[k] <= Extent[k] * Inner[k] + GuardOf[k]
  <2>1. PICK q \in Nat, e \in Nat, n \in Nat, d \in Nat, y \in Nat, g \in Nat :
          /\ q = OutExt[k] /\ e = Extent[k] /\ n = Inner[k] /\ d = Down /\ y = c[k]
          /\ g = GuardOf[k] /\ n = q * d /\ y < e * q
    <3>1. OutExt[k] \in Nat /\ Inner[k] = OutExt[k] * Down
      BY OutputSize
    <3>2. c[k] \in Nat /\ c[k] < OutTotal[k] /\ OutTotal[k] = Extent[k] * OutExt[k]
      BY OutputSize
    <3>3. PICK q \in Nat, d \in Nat : q = OutExt[k] /\ d = Down /\ Inner[k] = q * d
      BY <3>1, DownAssumption
    <3>4. PICK e \in Nat, y \in Nat : e = Extent[k] /\ y = c[k] /\ y < e * q
      BY <3>2, <3>3, Sizes
    <3>5. Inner[k] \in Nat /\ GuardOf[k] \in Nat
      BY Sizes
    <3> QED BY <3>3, <3>4, <3>5
  <2>2. d \in Nat \ {0} /\ e * q \in Nat /\ y \in 0 .. e * q - 1
    <3>1. e * q \in Nat
      OBVIOUS
    <3> QED BY <2>1, <3>1, DownAssumption
  <2>3. PICK m \in Nat : m = e * q /\ y \in 0 .. m - 1
    BY <2>2
  <2>4. y * d \in Nat /\ m * d \in Nat /\ y * d + d <= m * d
    BY <2>2, <2>3, BlockOf
  <2>5. m * d = e * n
    <3>1. (e * q) * d = e * (q * d)
      OBVIOUS
    <3> QED BY <2>1, <2>3, <3>1
  <2>6. z[k] = y * d
    BY <2>1
  <2> HIDE DEF z
  <2>7. PICK x \in Nat, p \in Nat : x = y * d /\ p = e * n /\ x + d <= p
    BY <2>4, <2>5
  <2> QED BY <2>1, <2>2, <2>6, <2>7
<1>2. z = [k \in Axis |-> z[k]] /\ Block(c) = [run |-> 1, cell |-> z]
  BY DEF Block
<1> HIDE DEF z
<1>3. z \in [Axis -> Int]
  BY <1>1, <1>2
<1>4. Block(c) \in Value
  BY <1>1, <1>2, <1>3, ValueIs
<1> QED BY <1>1, <1>2, <1>4 DEF Interiors

\* Where the particles of the ranks are in the file.
LEMMA NumsIs ==
  ASSUME NEW num \in [Rank -> Nat]
  PROVE  /\ RankNos = 0 .. Cardinality(Rank) - 1
         /\ NumsOf(num) \in [0 .. Cardinality(Rank) - 1 -> Nat]
         /\ \A r \in Rank : NumsOf(num)[RankNo(r)] = num[r]
<1>1. RankNos = 0 .. Cardinality(Rank) - 1
  BY Numbering DEF RankNos, Numbered
<1>2. ASSUME NEW r \in Rank
      PROVE  (CHOOSE s \in Rank : RankNo(s) = RankNo(r)) = r
  BY Numbering DEF Numbered
<1>3. ASSUME NEW r \in Rank
      PROVE  NumsOf(num)[RankNo(r)] = num[r]
  <2>1. RankNo(r) \in RankNos
    BY DEF RankNos
  <2>2. NumsOf(num)[RankNo(r)] = num[CHOOSE s \in Rank : RankNo(s) = RankNo(r)]
    BY <2>1 DEF NumsOf
  <2> QED BY <1>2, <2>2
<1>4. ASSUME NEW n \in RankNos
      PROVE  NumsOf(num)[n] \in Nat
  <2>1. PICK r \in Rank : n = RankNo(r)
    BY DEF RankNos
  <2> QED BY <1>3, <2>1
<1>5. NumsOf(num) = [n \in RankNos |-> NumsOf(num)[n]]
  BY DEF NumsOf
<1>6. NumsOf(num) \in [RankNos -> Nat]
  BY <1>4, <1>5
<1> QED BY <1>1, <1>3, <1>6

LEMMA PlacesOf ==
  ASSUME NEW num \in [Rank -> Nat]
  PROVE  /\ Total(NumsOf(num)) \in Nat
         /\ \A r \in Rank : /\ ScanOffset(r, NumsOf(num)) \in Nat
                            /\ ScanOffset(r, NumsOf(num)) + num[r] <= Total(NumsOf(num))
         /\ \A r, s \in Rank : r # s =>
              \/ ScanOffset(r, NumsOf(num)) + num[r] <= ScanOffset(s, NumsOf(num))
              \/ ScanOffset(s, NumsOf(num)) + num[s] <= ScanOffset(r, NumsOf(num))
         /\ \A j \in 0 .. Total(NumsOf(num)) - 1 : \E r \in Rank :
              j \in ScanOffset(r, NumsOf(num)) .. ScanOffset(r, NumsOf(num)) + num[r] - 1
<1>1. PICK C \in Nat : C = Cardinality(Rank) /\ Numbered(C)
  BY Numbering
<1>2. PICK a \in [0 .. C - 1 -> Nat] : a = NumsOf(num) /\ \A r \in Rank : a[RankNo(r)] = num[r]
  BY <1>1, NumsIs
<1>3. PICK s \in [0 .. C -> Nat] : /\ s = Scan(a) /\ s[0] = 0
                                   /\ \A n \in 0 .. C - 1 : s[n + 1] = s[n] + a[n]
  BY <1>1, ScanIs
<1>4. /\ \A m, n \in 0 .. C : m <= n => s[m] <= s[n]
      /\ \A j \in 0 .. s[C] - 1 : \E n \in 0 .. C - 1 : j \in s[n] .. s[n] + a[n] - 1
  BY <1>3, ScanParts
<1>5. Total(a) = s[C] /\ C \in 0 .. C /\ s[C] \in Nat
  BY <1>1, <1>3 DEF Total
<1>6. ASSUME NEW r \in Rank
      PROVE  /\ RankNo(r) \in 0 .. C - 1 /\ RankNo(r) \in Nat
             /\ RankNo(r) \in 0 .. C /\ RankNo(r) + 1 \in 0 .. C
             /\ ScanOffset(r, a) = s[RankNo(r)] /\ s[RankNo(r)] \in Nat
             /\ s[RankNo(r) + 1] = s[RankNo(r)] + num[r]
  <2>1. PICK n \in 0 .. C - 1 : n = RankNo(r)
    BY <1>1 DEF Numbered
  <2>2. n \in 0 .. C /\ n + 1 \in 0 .. C /\ n \in Nat
    OBVIOUS
  <2>3. ScanOffset(r, a) = s[n]
    BY <1>3, <2>1 DEF ScanOffset
  <2>4. s[n + 1] = s[n] + num[r] /\ s[n] \in Nat
    BY <1>2, <1>3, <2>1, <2>2
  <2> QED BY <2>1, <2>2, <2>3, <2>4
<1>7. ASSUME NEW r \in Rank
      PROVE  ScanOffset(r, a) \in Nat /\ ScanOffset(r, a) + num[r] <= Total(a)
  <2>1. s[RankNo(r) + 1] <= s[C]
    <3>1. RankNo(r) + 1 <= C
      BY <1>6
    <3> QED BY <1>4, <1>5, <1>6, <3>1
  <2> QED BY <1>5, <1>6, <2>1
<1>8. ASSUME NEW r \in Rank, NEW t \in Rank, r # t
      PROVE  \/ ScanOffset(r, a) + num[r] <= ScanOffset(t, a)
             \/ ScanOffset(t, a) + num[t] <= ScanOffset(r, a)
  <2>1. RankNo(r) # RankNo(t)
    BY <1>1, <1>8 DEF Numbered
  <2>2. RankNo(r) + 1 <= RankNo(t) \/ RankNo(t) + 1 <= RankNo(r)
    BY <1>6, <2>1
  <2> QED BY <1>4, <1>6, <2>2
<1>9. ASSUME NEW j \in 0 .. Total(a) - 1
      PROVE  \E r \in Rank : j \in ScanOffset(r, a) .. ScanOffset(r, a) + num[r] - 1
  <2>1. PICK n \in 0 .. C - 1 : j \in s[n] .. s[n] + a[n] - 1
    BY <1>4, <1>5
  <2>2. PICK r \in Rank : RankNo(r) = n
    BY <1>1 DEF Numbered
  <2>3. a[n] = num[r] /\ ScanOffset(r, a) = s[n]
    BY <1>2, <1>6, <2>2
  <2> QED BY <2>1, <2>3
<1> QED BY <1>2, <1>5, <1>7, <1>8, <1>9

--------------------------------------------------------------------------------
LEMMA SlotsType ==
  ASSUME NEW r \in Rank, NEW n, NEW i \in {1, 2}
  PROVE  OwnSlots(r, n, i) \in [0 .. PtcSize - 1 -> SlotValue]
BY DEF OwnSlots, SlotValue

LEMMA BothType ==
  ASSUME NEW x \in [Local -> Value]
  PROVE  /\ Both(x) \in Buffer /\ InUse(Both(x)) = x /\ CopyToHost(Both(x)) = Both(x)
         /\ Both(x).host = x /\ Both(x).dev = x
BY DEF Both, Buffer, InUse, CopyToHost

LEMMA SavedIs ==
  ASSUME Types
  PROVE  /\ saved \in [Rank -> 0 .. PtcSize] /\ saved \in [Rank -> Nat]
         /\ PtcSize \in Nat /\ \A r \in Rank : saved[r] \in 0 .. PtcSize
<1>1. PtcSize \in Nat /\ saved \in [Rank -> 0 .. PtcSize]
  BY SizeAssumption DEF Types
<1>2. 0 .. PtcSize \subseteq Nat
  BY <1>1
<1>3. saved \in [Rank -> Nat]
  BY <1>1, <1>2
<1> QED BY <1>1, <1>3

LEMMA Moved ==
  ASSUME NEW r \in Rank, NEW from, NEW to \in Places, Types, Moves(r, from, to)
  PROVE  /\ at[r] = from /\ at'[r] = to /\ at' \in [Rank -> Places]
         /\ \A q \in Rank : q # r => at'[q] = at[q]
BY DEF Types, Moves

LEMMA InitIInv == Init => IInv
<1> SUFFICES ASSUME Init PROVE IInv
  OBVIOUS
<1>1. \A r \in Rank : at[r] = "stepping"
  BY DEF Init
<1>2. Types
  <2>1. field \in [Rank -> Buffer]
    BY OwnValue, BothType DEF Init
  <2>2. slot \in [Rank -> [0 .. PtcSize - 1 -> SlotValue]]
    BY SlotsType DEF Init
  <2>3. number \in [Rank -> 0 .. PtcSize]
    BY SizeAssumption DEF Init
  <2>4. output \in [Cells(OutTotal) -> Interiors \cup {Unset}]
    BY DEF Init
  <2>5. at \in [Rank -> Places]
    BY DEF Init, Places
  <2> QED BY <2>1, <2>2, <2>3, <2>4, <2>5 DEF Init, Types
<1>3. Phases
  BY <1>1 DEF Init, Phases, AllOf
<1>4. FieldInv
  BY <1>1 DEF Init, FieldInv
<1>5. ParticleInv
  BY <1>1 DEF Init, ParticleInv
<1>6. OutputInv
  BY <1>1 DEF OutputInv
<1>7. SnapshotInv
  <2>1. /\ snapshot.field = [c \in Cells(ExtTotal) |-> Unset]
        /\ snapshot.num = [n \in RankNos |-> Unset] /\ snapshot.ptc = <<>>
    BY DEF Init, NoSnapshot
  <2>2. \A r \in Rank : ~Written(r)
    BY <1>1 DEF Written
  <2> QED BY <2>1, <2>2 DEF SnapshotInv, SomeWritten
<1> QED BY <1>2, <1>3, <1>4, <1>5, <1>6, <1>7 DEF IInv

\* What a rank writes to the output is what belongs there.
LEMMA OutputWritten ==
  ASSUME IInv, NEW r \in Rank, WriteOutput(r)
  PROVE  /\ output' \in [Cells(OutTotal) -> Interiors \cup {Unset}]
         /\ \A c \in Cells(OutTotal) :
              output'[c] = IF InBox(c, OutOffset(r), OutExt) THEN Block(c) ELSE output[c]
<1>0. Types /\ FieldInv /\ at[r] = "stepping"
  BY DEF IInv, WriteOutput, Moves
<1>1. InUse(field[r]) = OwnField(r)
  BY <1>0, OwnValue, BothType DEF FieldInv
<1>2. output \in [Cells(OutTotal) -> Interiors \cup {Unset}]
  BY <1>0 DEF Types
<1>3. output' = [c \in Cells(OutTotal) |->
                   IF InBox(c, OutOffset(r), OutExt)
                   THEN Resampled(r)[Shift(c, OutOffset(r), Zero)] ELSE output[c]]
  BY <1>2 DEF WriteOutput, WriteBox
<1>4. ASSUME NEW c \in Cells(OutTotal), InBox(c, OutOffset(r), OutExt)
      PROVE  Resampled(r)[Shift(c, OutOffset(r), Zero)] = Block(c)
  <2> DEFINE p == Shift(c, OutOffset(r), Zero)
             b == [k \in Axis |-> p[k] * Down + GuardOf[k]]
  <2>1. p \in Cells(OutExt) /\ OwnField(r)[b] = Block(c)
    BY <1>4, RightBlock
  <2>2. Resampled(r)[p] = InUse(field[r])[b]
    BY <2>1 DEF Resampled
  <2> QED BY <1>1, <2>1, <2>2
<1>5. \A c \in Cells(OutTotal) :
        output'[c] = IF InBox(c, OutOffset(r), OutExt) THEN Block(c) ELSE output[c]
  BY <1>3, <1>4
<1>6. \A c \in Cells(OutTotal) : output'[c] \in Interiors \cup {Unset}
  BY <1>2, <1>5, BlockValue
<1> QED BY <1>3, <1>5, <1>6

LEMMA WriteOutputKeeps ==
  ASSUME IInv, NEW r \in Rank, WriteOutput(r)
  PROVE  IInv'
<1>0. /\ Types /\ Phases /\ FieldInv /\ ParticleInv /\ OutputInv /\ SnapshotInv
      /\ UNCHANGED <<device, run, field, slot, number, rng, snapshot, saved>>
  BY DEF IInv, WriteOutput
<1>1. /\ at[r] = "stepping" /\ at'[r] = "output" /\ at' \in [Rank -> Places]
      /\ \A q \in Rank : q # r => at'[q] = at[q]
  BY <1>0, Moved DEF WriteOutput, Places
<1>2. Types'
  BY <1>0, <1>1, OutputWritten DEF Types
<1>3. AllOf({"stepping", "output"}) /\ run = 1
  BY <1>0, <1>1 DEF Phases, AllOf
<1>4. Phases'
  BY <1>0, <1>1, <1>3 DEF Phases, AllOf
<1>5. FieldInv'
  <2> SUFFICES ASSUME NEW q \in Rank
               PROVE  /\ at'[q] \in {"stepping", "output"} 
                      /\ field'[q] = Both(OwnField(q))
    BY DEF FieldInv
  <2> QED BY <1>0, <1>1, <1>3 DEF FieldInv, AllOf
<1>6. ParticleInv'
  <2> SUFFICES ASSUME NEW q \in Rank
               PROVE  /\ at'[q] \in {"stepping", "output"}
                      /\ number'[q] = saved'[q] /\ slot'[q] = OwnSlots(q, saved'[q], 1)
    BY DEF ParticleInv
  <2> QED BY <1>0, <1>1, <1>3 DEF ParticleInv, AllOf
<1>7. OutputInv'
  <2> SUFFICES ASSUME NEW q \in Rank, at'[q] # "stepping",
                      NEW c \in Cells(OutTotal), InBox(c, OutOffset(q), OutExt)
               PROVE  output'[c] = Block(c)
    BY DEF OutputInv
  <2>1. CASE q = r
    BY <2>1, OutputWritten
  <2>2. CASE q # r
    <3>1. output[c] = Block(c)
      BY <1>0, <1>1, <2>2 DEF OutputInv
    <3> QED BY <3>1, OutputWritten
  <2> QED BY <2>1, <2>2
<1>8. SnapshotInv'
  <2>1. \A q \in Rank : ~Written(q) /\ ~Written(q)'
    BY <1>1, <1>3 DEF Written, AllOf
  <2> QED BY <1>0, <2>1 DEF SnapshotInv, SomeWritten
<1> QED BY <1>2, <1>4, <1>5, <1>6, <1>7, <1>8 DEF IInv

\* What a rank writes to the snapshot, and that it leaves what others have written.
LEMMA SnapshotWritten ==
  ASSUME IInv, NEW r \in Rank, WriteSnapshot(r)
  PROVE  /\ run = 1 /\ AllOf({"output", "written"}) /\ field' = field
         /\ DOMAIN snapshot'.field = Cells(ExtTotal)
         /\ \A c \in Cells(ExtTotal) :
              snapshot'.field[c] = IF InBox(c, PosFile(r), Ext(r)) THEN Right(c)
                                                                  ELSE snapshot.field[c]
         /\ snapshot'.num = [snapshot.num EXCEPT ![RankNo(r)] = saved[r]]
         /\ DOMAIN snapshot'.ptc = 1 .. Total(NumsOf(saved))
         /\ \A j \in 0 .. saved[r] - 1 :
              snapshot'.ptc[ScanOffset(r, NumsOf(saved)) + j + 1] = Own(r, j)
         /\ \A q \in Rank : q # r /\ Written(q) =>
              \A j \in 0 .. saved[q] - 1 :
                snapshot'.ptc[ScanOffset(q, NumsOf(saved)) + j + 1] =
                  snapshot.ptc[ScanOffset(q, NumsOf(saved)) + j + 1]
<1>0. Types /\ Phases /\ FieldInv /\ ParticleInv /\ SnapshotInv
  BY DEF IInv
<1>1. run = 1 /\ AllOf({"output", "written"}) /\ at[r] = "output"
  <2>1. at[r] = "output" /\ (All("output") \/ \E s \in Rank : at[s] = "written")
    BY DEF WriteSnapshot, Moves
  <2> QED BY <1>0, <2>1 DEF Phases, AllOf, All
<1>2. \A q \in Rank : /\ field[q] = Both(OwnField(q)) /\ number[q] = saved[q]
                      /\ slot[q] = OwnSlots(q, saved[q], 1)
  <2>1. \A q \in Rank : at[q] \in {"stepping", "output", "written"}
    BY <1>1 DEF AllOf
  <2> QED BY <1>0, <2>1 DEF FieldInv, ParticleInv
<1>3. number = saved
  <2>1. number \in [Rank -> 0 .. PtcSize] /\ saved \in [Rank -> 0 .. PtcSize]
    BY <1>0, SavedIs DEF Types
  <2> QED BY <1>2, <2>1
<1>4. field' = field
  <2>1. CopyToHost(field[r]) = field[r] /\ field \in [Rank -> Buffer]
    BY <1>0, <1>2, OwnValue, BothType DEF Types
  <2>2. field' = [field EXCEPT ![r] = CopyToHost(field[r])]
    BY DEF WriteSnapshot
  <2> QED BY <2>1, <2>2
<1> DEFINE nums == NumsOf(saved)
           from == ScanOffset(r, nums)
           ptc == IF snapshot.ptc = <<>> THEN [k \in 1 .. Total(nums) |-> Unset]
                  ELSE snapshot.ptc
<1>5. snapshot' =
        [field |-> WriteBox(snapshot.field, field'[r].host, PosFile(r), Ext(r), PosArray(r)),
         num   |-> [snapshot.num EXCEPT ![RankNo(r)] = number[r]],
         ptc   |-> [k \in DOMAIN ptc |->
                      IF k - 1 \in from .. from + number[r] - 1
                      THEN slot[r][k - 1 - from] ELSE ptc[k]],
         rng   |-> [snapshot.rng EXCEPT ![RankNo(r)] = rng'[r].host]]
  BY <1>3 DEF WriteSnapshot, NumsOf
<1> HIDE DEF ptc
<1>6. /\ snapshot'.field =
           WriteBox(snapshot.field, field'[r].host, PosFile(r), Ext(r), PosArray(r))
      /\ snapshot'.num = [snapshot.num EXCEPT ![RankNo(r)] = saved[r]]
      /\ snapshot'.ptc = [k \in DOMAIN ptc |->
                            IF k - 1 \in from .. from + saved[r] - 1
                            THEN slot[r][k - 1 - from] ELSE ptc[k]]
  BY <1>2, <1>5
<1>7. /\ DOMAIN snapshot'.field = Cells(ExtTotal)
      /\ \A c \in Cells(ExtTotal) :
           snapshot'.field[c] = IF InBox(c, PosFile(r), Ext(r)) THEN Right(c)
                                                                ELSE snapshot.field[c]
  <2>1. field'[r].host = OwnField(r)
    BY <1>2, <1>4, OwnValue, BothType
  <2>2. DOMAIN snapshot.field = Cells(ExtTotal)
    BY <1>0 DEF SnapshotInv
  <2>3. snapshot'.field = [c \in Cells(ExtTotal) |->
                             IF InBox(c, PosFile(r), Ext(r))
                             THEN OwnField(r)[Shift(c, PosFile(r), PosArray(r))]
                             ELSE snapshot.field[c]]
    BY <1>6, <2>1, <2>2 DEF WriteBox
  <2> QED BY <2>3, RightPlace
<1>8. DOMAIN ptc = 1 .. Total(nums)
  <2>1. CASE snapshot.ptc = <<>>
    BY <2>1 DEF ptc
  <2>2. CASE snapshot.ptc # <<>>
    BY <1>0, <2>2 DEF ptc, SnapshotInv
  <2> QED BY <2>1, <2>2
<1>9. /\ Total(nums) \in Nat
      /\ \A q \in Rank : /\ saved[q] \in Nat /\ ScanOffset(q, nums) \in Nat
                         /\ ScanOffset(q, nums) + saved[q] <= Total(nums)
                         /\ q # r => \/ ScanOffset(r, nums) + saved[r] <= ScanOffset(q, nums)
                                     \/ ScanOffset(q, nums) + saved[q] <= ScanOffset(r, nums)
  BY <1>0, SavedIs, PlacesOf
<1> HIDE DEF nums, from
<1>10. ASSUME NEW j \in 0 .. saved[r] - 1
       PROVE  snapshot'.ptc[from + j + 1] = Own(r, j)
  <2>1. from \in Nat /\ saved[r] \in Nat /\ from + saved[r] <= Total(nums)
    BY <1>9 DEF from
  <2>2. /\ from + j + 1 \in 1 .. Total(nums) /\ from + j + 1 - 1 - from = j
        /\ from + j + 1 - 1 \in from .. from + saved[r] - 1
    BY <1>9, <2>1
  <2>3. snapshot'.ptc[from + j + 1] = slot[r][j]
    <3>1. PICK i \in 1 .. Total(nums) :
            /\ i = from + j + 1 /\ i - 1 - from = j
            /\ i - 1 \in from .. from + saved[r] - 1
      BY <1>9, <2>1, <2>2
    <3>2. snapshot'.ptc[i] = slot[r][i - 1 - from]
      BY <1>6, <1>8, <3>1
    <3> QED BY <3>1, <3>2
  <2>4. j \in 0 .. PtcSize - 1 /\ j < saved[r]
    <3>1. saved[r] \in 0 .. PtcSize /\ PtcSize \in Nat
      BY <1>0, SavedIs
    <3> QED BY <3>1
  <2>5. slot[r][j] = Own(r, j)
    BY <1>2, <2>4 DEF OwnSlots, Own
  <2> QED BY <2>3, <2>5
<1>11. ASSUME NEW q \in Rank, q # r, Written(q), NEW j \in 0 .. saved[q] - 1
       PROVE  snapshot'.ptc[ScanOffset(q, nums) + j + 1] =
                snapshot.ptc[ScanOffset(q, nums) + j + 1]
  <2>1. PICK o \in Nat, i \in Int :
          /\ o = ScanOffset(q, nums) /\ i = o + j + 1
          /\ i \in 1 .. Total(nums) /\ i - 1 \notin from .. from + saved[r] - 1
    <3>1. PICK o \in Nat : o = ScanOffset(q, nums)
      BY <1>9
    <3>2. /\ o + saved[q] <= Total(nums) /\ saved[q] \in Nat /\ saved[r] \in Nat
          /\ from \in Nat /\ Total(nums) \in Nat
          /\ from + saved[r] <= o \/ o + saved[q] <= from
      BY <1>9, <1>11, <3>1 DEF from
    <3>3. /\ o + j + 1 \in 1 .. Total(nums) /\ o + j + 1 \in Int
          /\ o + j + 1 - 1 \notin from .. from + saved[r] - 1
      BY <3>2
    <3> QED BY <3>1, <3>3
  <2>2. snapshot'.ptc[i] = ptc[i]
    BY <1>6, <1>8, <2>1
  <2>3. snapshot.ptc # <<>>
    <3>1. DOMAIN snapshot.ptc = 1 .. Total(nums)
      BY <1>0, <1>11 DEF SnapshotInv, SomeWritten, nums
    <3>2. DOMAIN << >> = {}
      OBVIOUS
    <3>3. i \in DOMAIN snapshot.ptc
      BY <2>1, <3>1
    <3> QED BY <3>2, <3>3
  <2> QED BY <2>1, <2>2, <2>3 DEF ptc
<1>12. DOMAIN snapshot'.ptc = 1 .. Total(nums)
  BY <1>6, <1>8
<1> QED BY <1>1, <1>4, <1>6, <1>7, <1>10, <1>11, <1>12 DEF nums, from

LEMMA WriteSnapshotKeeps ==
  ASSUME IInv, NEW r \in Rank, WriteSnapshot(r)
  PROVE  IInv'
<1>0. /\ Types /\ Phases /\ FieldInv /\ ParticleInv /\ OutputInv /\ SnapshotInv
      /\ UNCHANGED <<device, run, slot, number, output, saved>>
  BY DEF IInv, WriteSnapshot
<1>1. /\ at[r] = "output" /\ at'[r] = "written" /\ at' \in [Rank -> Places]
      /\ \A q \in Rank : q # r => at'[q] = at[q]
  BY <1>0, Moved DEF WriteSnapshot, Places
<1>2. run = 1 /\ AllOf({"output", "written"}) /\ field' = field
  BY SnapshotWritten
<1>3. \A q \in Rank : /\ at[q] \in {"output", "written"} /\ at'[q] \in {"output", "written"}
                      /\ Written(q)' <=> q = r \/ Written(q)
  BY <1>1, <1>2 DEF AllOf, Written
<1>4. Types'
  BY <1>0, <1>1, <1>2 DEF Types
<1>5. Phases'
  BY <1>0, <1>2, <1>3 DEF Phases, AllOf
<1>6. FieldInv'
  <2> SUFFICES ASSUME NEW q \in Rank
               PROVE  /\ at'[q] \in {"output", "written"}
                      /\ field'[q] = Both(OwnField(q))
    BY DEF FieldInv
  <2> QED BY <1>0, <1>2, <1>3 DEF FieldInv
<1>7. ParticleInv'
  <2> SUFFICES ASSUME NEW q \in Rank
               PROVE  /\ at'[q] \in {"output", "written"}
                      /\ number'[q] = saved'[q] /\ slot'[q] = OwnSlots(q, saved'[q], 1)
    BY DEF ParticleInv
  <2> QED BY <1>0, <1>3 DEF ParticleInv
<1>8. OutputInv'
  BY <1>0, <1>1 DEF OutputInv
<1>9. SnapshotInv'
  <2>1. DOMAIN snapshot'.field = Cells(ExtTotal) /\ SomeWritten'
    BY <1>3, SnapshotWritten DEF SomeWritten
  <2>2. DOMAIN snapshot'.ptc = 1 .. Total(NumsOf(saved))
    BY SnapshotWritten
  <2>3. snapshot.num \in [RankNos -> 0 .. PtcSize \cup {Unset}]
    BY <1>0 DEF SnapshotInv
  <2>4. snapshot'.num = [snapshot.num EXCEPT ![RankNo(r)] = saved[r]]
    BY SnapshotWritten
  <2>5. saved[r] \in 0 .. PtcSize /\ RankNo(r) \in RankNos
    BY <1>0, SavedIs DEF RankNos
  <2>6. snapshot'.num \in [RankNos -> 0 .. PtcSize \cup {Unset}]
    BY <2>3, <2>4, <2>5
  <2>7. ASSUME NEW q \in Rank, Written(q)'
        PROVE  /\ \A c \in Cells(ExtTotal) :
                    InBox(c, PosFile(q), Ext(q)) => snapshot'.field[c] = Right(c)
               /\ snapshot'.num[RankNo(q)] = saved[q]
               /\ \A j \in 0 .. saved[q] - 1 :
                    snapshot'.ptc[ScanOffset(q, NumsOf(saved)) + j + 1] = Own(q, j)
    <3>1. CASE q = r
      <4>1. snapshot'.num[RankNo(q)] = saved[q]
        BY <2>3, <2>4, <2>5, <3>1
      <4> QED BY <3>1, <4>1, SnapshotWritten
    <3>2. CASE q # r
      <4>1. Written(q)
        BY <1>3, <2>7, <3>2
      <4>2. /\ \A c \in Cells(ExtTotal) :
                 InBox(c, PosFile(q), Ext(q)) => snapshot.field[c] = Right(c)
            /\ snapshot.num[RankNo(q)] = saved[q]
            /\ \A j \in 0 .. saved[q] - 1 :
                 snapshot.ptc[ScanOffset(q, NumsOf(saved)) + j + 1] = Own(q, j)
        BY <1>0, <4>1 DEF SnapshotInv
      <4>3. RankNo(q) # RankNo(r)
        BY <3>2, Numbering DEF Numbered
      <4>4. snapshot'.num[RankNo(q)] = saved[q]
        BY <2>3, <2>4, <4>2, <4>3 DEF RankNos
      <4>5. \A c \in Cells(ExtTotal) :
              InBox(c, PosFile(q), Ext(q)) => snapshot'.field[c] = Right(c)
        BY <4>2, SnapshotWritten
      <4>6. \A j \in 0 .. saved[q] - 1 :
              snapshot'.ptc[ScanOffset(q, NumsOf(saved)) + j + 1] = Own(q, j)
        BY <3>2, <4>1, <4>2, SnapshotWritten
      <4> QED BY <4>4, <4>5, <4>6
    <3> QED BY <3>1, <3>2
  <2>8. saved' = saved
    BY <1>0
  <2> QED BY <2>1, <2>2, <2>6, <2>7, <2>8 DEF SnapshotInv
<1> QED BY <1>4, <1>5, <1>6, <1>7, <1>8, <1>9 DEF IInv

LEMMA RestartKeeps ==
  ASSUME IInv, Restart
  PROVE  IInv'
<1>0. /\ Types /\ OutputInv /\ SnapshotInv
      /\ UNCHANGED <<device, snapshot, output, saved>>
  BY DEF IInv, Restart
<1>1. \A q \in Rank : at[q] = "written" /\ at'[q] = "restarted"
  BY DEF Restart, All
<1>2. Types'
  <2>1. field' \in [Rank -> Buffer]
    <3>1. [c \in Local |-> [run |-> 2, cell |-> Zero]] \in [Local -> Value]
      BY OtherValue
    <3>2. Both([c \in Local |-> [run |-> 2, cell |-> Zero]]) \in Buffer
      BY <3>1, BothType
    <3> QED BY <3>2 DEF Restart
  <2>2. PICK n \in {0, PtcSize} : /\ number' = [r \in Rank |-> n]
                                  /\ slot' = [r \in Rank |-> OwnSlots(r, n, 2)]
    BY DEF Restart
  <2>3. number' \in [Rank -> 0 .. PtcSize]
    <3>1. n \in 0 .. PtcSize
      BY SizeAssumption
    <3> QED BY <2>2, <3>1
  <2>4. slot' \in [Rank -> [0 .. PtcSize - 1 -> SlotValue]]
    BY <2>2, SlotsType
  <2>5. at' \in [Rank -> Places]
    BY DEF Restart, Places
  <2> QED BY <1>0, <2>1, <2>3, <2>4, <2>5 DEF Types
<1>3. Phases'
  BY <1>1 DEF Phases, AllOf, Restart
<1>4. FieldInv'
  BY <1>1 DEF FieldInv, Restart
<1>5. ParticleInv'
  BY <1>1 DEF ParticleInv
<1>6. OutputInv'
  BY <1>0, <1>1 DEF OutputInv
<1>7. SnapshotInv'
  <2>1. \A q \in Rank : Written(q) /\ Written(q)'
    BY <1>1 DEF Written
  <2>2. SomeWritten' <=> SomeWritten
    BY <2>1 DEF SomeWritten
  <2> QED BY <1>0, <2>1, <2>2 DEF SnapshotInv
<1> QED BY <1>2, <1>3, <1>4, <1>5, <1>6, <1>7 DEF IInv

\* What a rank reads from the snapshot is what it had.
LEMMA FieldRead ==
  ASSUME IInv, NEW r \in Rank, ReadField(r)
  PROVE  /\ AllOf({"restarted", "read"}) /\ run = 2
         /\ field' \in [Rank -> Buffer] /\ PartRight(r, InUse(field'[r]))
         /\ \A q \in Rank : q # r => field'[q] = field[q]
<1>0. Types /\ Phases /\ SnapshotInv /\ at[r] = "restarted" /\ device' = device
  BY DEF IInv, ReadField, Moves
<1>1. AllOf({"restarted", "read"}) /\ run = 2
  BY <1>0 DEF Phases, AllOf
<1>2. Written(r)
  BY <1>0 DEF Written
<1>3. field \in [Rank -> Buffer]
  BY <1>0 DEF Types
<1>4. field[r].host \in [Local -> Value] /\ field[r].dev \in [Local -> Value]
  BY <1>3 DEF Buffer
<1> DEFINE h == ReadBox(field[r].host, snapshot.field, PosFile(r), Ext(r), PosArray(r))
           b == [field[r] EXCEPT !.host = h]
<1>5. field' = [field EXCEPT ![r] = CopyToDevice(b)]
  BY DEF ReadField
<1>6. \A c \in Local : h[c] = IF InBox(c, PosArray(r), Ext(r)) THEN OwnField(r)[c]
                                                              ELSE field[r].host[c]
  <2>1. h = [c \in Local |-> IF InBox(c, PosArray(r), Ext(r))
                             THEN snapshot.field[Shift(c, PosArray(r), PosFile(r))]
                             ELSE field[r].host[c]]
    BY <1>4 DEF ReadBox
  <2>2. ASSUME NEW c \in Local, InBox(c, PosArray(r), Ext(r))
        PROVE  snapshot.field[Shift(c, PosArray(r), PosFile(r))] = OwnField(r)[c]
    <3>1. /\ Shift(c, PosArray(r), PosFile(r)) \in Cells(ExtTotal)
          /\ InBox(Shift(c, PosArray(r), PosFile(r)), PosFile(r), Ext(r))
          /\ Right(Shift(c, PosArray(r), PosFile(r))) = OwnField(r)[c]
      BY <2>2, RightPlace
    <3> QED BY <1>0, <1>2, <3>1 DEF SnapshotInv
  <2> HIDE DEF h
  <2> QED BY <2>1, <2>2
<1>7. h \in [Local -> Value]
  <2>1. \A c \in Local : h[c] \in Value
    <3> HIDE DEF h
    <3> QED BY <1>4, <1>6, OwnValue
  <2>2. h = [c \in Local |-> h[c]]
    BY <1>4 DEF ReadBox
  <2> HIDE DEF h
  <2> QED BY <2>1, <2>2
<1> HIDE DEF h
<1>8. b = [host |-> h, dev |-> field[r].dev]
  BY <1>3 DEF Buffer
<1>9. CopyToDevice(b) = [host |-> h, dev |-> IF device THEN h ELSE field[r].dev]
  BY <1>8 DEF CopyToDevice
<1> HIDE DEF b
<1>10. CopyToDevice(b) \in Buffer
  BY <1>4, <1>7, <1>9 DEF Buffer
<1>11. field' \in [Rank -> Buffer] /\ field'[r] = CopyToDevice(b)
  BY <1>3, <1>5, <1>10
<1>12. InUse(field'[r]) = h
  BY <1>9, <1>11 DEF InUse
<1>13. PartRight(r, h)
  BY <1>6 DEF PartRight
<1>14. \A q \in Rank : q # r => field'[q] = field[q]
  BY <1>3, <1>5
<1> QED BY <1>1, <1>11, <1>12, <1>13, <1>14

LEMMA ReadFieldKeeps ==
  ASSUME IInv, NEW r \in Rank, ReadField(r)
  PROVE  IInv'
<1>0. /\ Types /\ Phases /\ FieldInv /\ ParticleInv /\ OutputInv /\ SnapshotInv
      /\ UNCHANGED <<device, run, slot, number, snapshot, output, saved>>
  BY DEF IInv, ReadField
<1>1. /\ at[r] = "restarted" /\ at'[r] = "read" /\ at' \in [Rank -> Places]
      /\ \A q \in Rank : q # r => at'[q] = at[q]
  BY <1>0, Moved DEF ReadField, Places
<1>2. AllOf({"restarted", "read"}) /\ run = 2
  BY FieldRead
<1>3. \A q \in Rank : at[q] \in {"restarted", "read"} /\ at'[q] \in {"restarted", "read"}
  BY <1>1, <1>2 DEF AllOf
<1>4. Types'
  BY <1>0, <1>1, FieldRead DEF Types
<1>5. Phases'
  BY <1>0, <1>2, <1>3 DEF Phases, AllOf
<1>6. FieldInv'
  <2>1. ASSUME NEW q \in Rank
        PROVE  /\ at'[q] = "restarted" =>
                    field'[q] = Both([c \in Local |-> [run |-> 2, cell |-> Zero]])
               /\ at'[q] = "read" => PartRight(q, InUse(field[q]))'
    <3>1. CASE q = r
      <4>1. PartRight(r, InUse(field[r]))'
        BY <1>0, FieldRead DEF PartRight, InUse
      <4> QED BY <1>1, <3>1, <4>1
    <3>2. CASE q # r
      <4>1. field'[q] = field[q] /\ at'[q] = at[q]
        BY <1>1, <3>2, FieldRead
      <4> QED BY <1>0, <4>1 DEF FieldInv, PartRight, InUse
    <3> QED BY <3>1, <3>2
  <2> QED BY <1>3, <2>1 DEF FieldInv
<1>7. ParticleInv'
  BY <1>3 DEF ParticleInv
<1>8. OutputInv'
  BY <1>0, <1>3 DEF OutputInv
<1>9. SnapshotInv'
  <2>1. \A q \in Rank : Written(q) /\ Written(q)'
    BY <1>3 DEF Written
  <2>2. SomeWritten' <=> SomeWritten
    BY <2>1 DEF SomeWritten
  <2> QED BY <1>0, <2>1, <2>2 DEF SnapshotInv
<1> QED BY <1>4, <1>5, <1>6, <1>7, <1>8, <1>9 DEF IInv

LEMMA ExchangeGuardsKeeps ==
  ASSUME IInv, ExchangeGuards
  PROVE  IInv'
<1>0. /\ Types /\ FieldInv /\ OutputInv /\ SnapshotInv
      /\ UNCHANGED <<device, run, slot, number, snapshot, output, saved>>
  BY DEF IInv, ExchangeGuards
<1>1. \A q \in Rank : at[q] = "read" /\ at'[q] = "exchanged"
  BY DEF ExchangeGuards, All
<1> DEFINE f == [r \in Rank |-> InUse(field[r])]
<1>2. RightUpTo(f, 0)
  <2> SUFFICES ASSUME NEW r \in Rank, NEW c \in Local,
                      \A l \in Axis : l > 0 => InPart(l, r[l], c[l])
               PROVE  InUse(field[r])[c] = OwnField(r)[c]
    BY DEF RightUpTo
  <2>1. \A l \in Axis : InPart(l, r[l], c[l])
    <3>1. \A l \in Axis : l > 0
      BY DEF Axis
    <3> QED BY <3>1
  <2>2. c \in [Axis -> Int]
    BY Locals
  <2>3. InBox(c, PosArray(r), Ext(r))
    BY <2>1, <2>2, Parts
  <2> QED BY <1>0, <1>1, <2>3 DEF FieldInv, PartRight
<1>3. Refilled(f) = [r \in Rank |-> OwnField(r)]
  BY <1>2, RefillRight
<1>4. field' = [r \in Rank |-> IF device THEN [field[r] EXCEPT !.dev = Refilled(f)[r]]
                                         ELSE [field[r] EXCEPT !.host = Refilled(f)[r]]]
  BY DEF ExchangeGuards
<1> HIDE DEF f
<1>5. ASSUME NEW r \in Rank
      PROVE  field'[r] \in Buffer /\ InUse(field[r])' = OwnField(r)
  <2>1. field[r] \in Buffer /\ OwnField(r) \in [Local -> Value]
    BY <1>0, OwnValue DEF Types
  <2>2. field'[r] = IF device THEN [field[r] EXCEPT !.dev = OwnField(r)]
                              ELSE [field[r] EXCEPT !.host = OwnField(r)]
    BY <1>3, <1>4
  <2>3. /\ [field[r] EXCEPT !.dev = OwnField(r)] = [host |-> field[r].host, dev |-> OwnField(r)]
        /\ [field[r] EXCEPT !.host = OwnField(r)] = [host |-> OwnField(r), dev |-> field[r].dev]
        /\ field[r].host \in [Local -> Value] /\ field[r].dev \in [Local -> Value]
    BY <2>1 DEF Buffer
  <2>4. CASE device
    <3>1. field'[r] = [host |-> field[r].host, dev |-> OwnField(r)]
      BY <2>2, <2>3, <2>4
    <3> QED BY <1>0, <2>1, <2>3, <2>4, <3>1 DEF Buffer, InUse
  <2>5. CASE ~device
    <3>1. field'[r] = [host |-> OwnField(r), dev |-> field[r].dev]
      BY <2>2, <2>3, <2>5
    <3> QED BY <1>0, <2>1, <2>3, <2>5, <3>1 DEF Buffer, InUse
  <2> QED BY <2>4, <2>5
<1>6. Types'
  <2>1. field' \in [Rank -> Buffer]
    BY <1>4, <1>5
  <2>2. at' \in [Rank -> Places]
    BY DEF ExchangeGuards, Places
  <2> QED BY <1>0, <2>1, <2>2 DEF Types
<1>7. Phases'
  <2>1. run = 2 \/ ~(\E r \in Rank : TRUE)
    BY <1>1 DEF IInv, Phases, AllOf
  <2>2. Zero \in Rank
    <3>1. \A k \in Axis : 0 < Extent[k]
      BY Sizes
    <3> QED BY <3>1, Ranks DEF Zero
  <2> QED BY <1>0, <1>1, <2>1, <2>2 DEF Phases, AllOf
<1>8. FieldInv'
  BY <1>1, <1>5 DEF FieldInv
<1>9. ParticleInv'
  BY <1>1 DEF ParticleInv
<1>10. OutputInv'
  BY <1>0, <1>1 DEF OutputInv
<1>11. SnapshotInv'
  <2>1. \A q \in Rank : Written(q) /\ Written(q)'
    BY <1>1 DEF Written
  <2>2. SomeWritten' <=> SomeWritten
    BY <2>1 DEF SomeWritten
  <2> QED BY <1>0, <2>1, <2>2 DEF SnapshotInv
<1> QED BY <1>6, <1>7, <1>8, <1>9, <1>10, <1>11 DEF IInv

LEMMA ReadRestKeeps ==
  ASSUME IInv, NEW r \in Rank, ReadRest(r)
  PROVE  IInv'
<1>0. /\ Types /\ Phases /\ FieldInv /\ ParticleInv /\ OutputInv /\ SnapshotInv
      /\ UNCHANGED <<device, run, field, snapshot, output, saved>>
  BY DEF IInv, ReadRest
<1>1. /\ at[r] = "exchanged" /\ at'[r] = "resumed" /\ at' \in [Rank -> Places]
      /\ \A q \in Rank : q # r => at'[q] = at[q]
  BY <1>0, Moved DEF ReadRest, Places
<1>2. AllOf({"exchanged", "resumed"}) /\ run = 2
  BY <1>0, <1>1 DEF Phases, AllOf
<1>3. \A q \in Rank : /\ at[q] \in {"exchanged", "resumed"} /\ Written(q)
                      /\ at'[q] \in {"exchanged", "resumed"} /\ Written(q)'
  BY <1>1, <1>2 DEF AllOf, Written
<1>4. snapshot.num = NumsOf(saved)
  <2>1. ASSUME NEW n \in RankNos
        PROVE  snapshot.num[n] = NumsOf(saved)[n]
    <3>1. PICK q \in Rank : n = RankNo(q)
      BY DEF RankNos
    <3>2. snapshot.num[n] = saved[q]
      BY <1>0, <1>3, <3>1 DEF SnapshotInv
    <3>3. NumsOf(saved)[n] = saved[q]
      BY <1>0, <3>1, SavedIs, NumsIs
    <3> QED BY <3>2, <3>3
  <2>2. snapshot.num = [n \in RankNos |-> snapshot.num[n]]
    BY <1>0 DEF SnapshotInv
  <2>3. NumsOf(saved) = [n \in RankNos |-> NumsOf(saved)[n]]
    BY DEF NumsOf
  <2> QED BY <2>1, <2>2, <2>3
<1>5. snapshot.num[RankNo(r)] = saved[r]
  BY <1>0, <1>3 DEF SnapshotInv
<1> DEFINE from == ScanOffset(r, NumsOf(saved))
<1>6. /\ slot' = [slot EXCEPT ![r] = [k \in DOMAIN slot[r] |->
                    IF k < saved[r] THEN snapshot.ptc[from + k + 1] ELSE slot[r][k]]]
      /\ number' = [number EXCEPT ![r] = saved[r]]
  BY <1>4, <1>5 DEF ReadRest
<1>7. /\ slot \in [Rank -> [0 .. PtcSize - 1 -> SlotValue]]
      /\ slot[r] \in [0 .. PtcSize - 1 -> SlotValue]
      /\ number \in [Rank -> 0 .. PtcSize]
  BY <1>0 DEF Types
<1>8. PtcSize \in Nat /\ saved[r] \in 0 .. PtcSize
  BY <1>0, SavedIs
<1>9. \A j \in 0 .. saved[r] - 1 : snapshot.ptc[from + j + 1] = Own(r, j)
  BY <1>0, <1>3 DEF SnapshotInv
<1> HIDE DEF from
<1> DEFINE s == [k \in 0 .. PtcSize - 1 |->
                   IF k < saved[r] THEN snapshot.ptc[from + k + 1] ELSE slot[r][k]]
<1>10. slot' = [slot EXCEPT ![r] = s]
  BY <1>6, <1>7
<1>11. \A k \in 0 .. PtcSize - 1 :
         /\ k < saved[r] => s[k] = Own(r, k)
         /\ s[k] \in SlotValue
  <2> SUFFICES ASSUME NEW k \in 0 .. PtcSize - 1
               PROVE  /\ k < saved[r] => s[k] = Own(r, k)
                      /\ s[k] \in SlotValue
    OBVIOUS
  <2>1. CASE k < saved[r]
    <3>1. k \in 0 .. saved[r] - 1
      BY <1>8, <2>1
    <3>2. s[k] = Own(r, k)
      BY <1>9, <2>1, <3>1
    <3>3. Own(r, k) \in SlotValue
      BY DEF Own, SlotValue
    <3> HIDE DEF s
    <3> QED BY <3>2, <3>3
  <2>2. CASE ~(k < saved[r])
    <3>1. s[k] = slot[r][k]
      BY <2>2
    <3> HIDE DEF s
    <3> QED BY <1>7, <2>2, <3>1
  <2> QED BY <2>1, <2>2
<1>12. s \in [0 .. PtcSize - 1 -> SlotValue]
  BY <1>11
<1> HIDE DEF s
<1>13. Types'
  <2>1. slot' \in [Rank -> [0 .. PtcSize - 1 -> SlotValue]]
    BY <1>7, <1>10, <1>12
  <2>2. number' \in [Rank -> 0 .. PtcSize]
    BY <1>6, <1>7, <1>8
  <2> QED BY <1>0, <1>1, <2>1, <2>2 DEF Types
<1>14. Phases'
  BY <1>0, <1>2, <1>3 DEF Phases, AllOf
<1>15. FieldInv'
  <2> SUFFICES ASSUME NEW q \in Rank
               PROVE  at'[q] \in {"exchanged", "resumed"} /\ InUse(field[q])' = OwnField(q)
    BY DEF FieldInv
  <2>1. InUse(field[q])' = InUse(field[q])
    BY <1>0 DEF InUse
  <2> QED BY <1>0, <1>3, <2>1 DEF FieldInv
<1>16. ParticleInv'
  <2> SUFFICES ASSUME NEW q \in Rank, at'[q] = "resumed"
               PROVE  /\ number'[q] = saved[q]
                      /\ \A j \in 0 .. saved[q] - 1 : slot'[q][j] = Own(q, j)
    BY <1>0, <1>3 DEF ParticleInv
  <2>1. CASE q = r
    <3>1. number'[q] = saved[q] /\ slot'[q] = s
      BY <1>6, <1>7, <1>10, <2>1
    <3>2. \A j \in 0 .. saved[r] - 1 : j \in 0 .. PtcSize - 1 /\ j < saved[r]
      BY <1>8
    <3> QED BY <1>11, <2>1, <3>1, <3>2
  <2>2. CASE q # r
    <3>1. number'[q] = number[q] /\ slot'[q] = slot[q] /\ at[q] = "resumed"
      BY <1>1, <1>6, <1>7, <1>10, <2>2
    <3> QED BY <1>0, <3>1 DEF ParticleInv
  <2> QED BY <2>1, <2>2
<1>17. OutputInv'
  BY <1>0, <1>3 DEF OutputInv
<1>18. SnapshotInv'
  <2>1. SomeWritten' <=> SomeWritten
    BY <1>3 DEF SomeWritten
  <2> QED BY <1>0, <1>3, <2>1 DEF SnapshotInv
<1> QED BY <1>13, <1>14, <1>15, <1>16, <1>17, <1>18 DEF IInv

LEMMA NextIInv == IInv /\ [Next]_vars => IInv'
<1> SUFFICES ASSUME IInv, [Next]_vars PROVE IInv'
  OBVIOUS
<1>1. ASSUME NEW r \in Rank, WriteOutput(r) PROVE IInv'
  BY <1>1, WriteOutputKeeps
<1>2. ASSUME NEW r \in Rank, WriteSnapshot(r) PROVE IInv'
  BY <1>2, WriteSnapshotKeeps
<1>3. ASSUME NEW r \in Rank, ReadField(r) PROVE IInv'
  BY <1>3, ReadFieldKeeps
<1>4. ASSUME NEW r \in Rank, ReadRest(r) PROVE IInv'
  BY <1>4, ReadRestKeeps
<1>5. CASE Restart
  BY <1>5, RestartKeeps
<1>6. CASE ExchangeGuards
  BY <1>6, ExchangeGuardsKeeps
<1>7. CASE UNCHANGED vars
  <2>1. UNCHANGED <<device, run, field, slot, number, snapshot, output, at, saved>>
    BY <1>7 DEF vars
  <2> QED BY <2>1 DEF IInv, Types, Phases, AllOf, FieldInv, PartRight, InUse, ParticleInv,
                      OutputInv, SnapshotInv, SomeWritten, Written
<1> QED BY <1>1, <1>2, <1>3, <1>4, <1>5, <1>6, <1>7 DEF Next

\* What each rank has in memory, and what the files have of each rank, is known from
\* how far the ranks have come.
THEOREM AsExpected == Spec => []IInv
<1>1. Init => IInv
  BY InitIInv
<1>2. IInv /\ [Next]_vars => IInv'
  BY NextIInv
<1> QED BY <1>1, <1>2, PTL DEF Spec

\* Type correctness, the values of fields and output included.
THEOREM TypeCorrect == Spec => []TypeOK
<1>1. IInv => TypeOK
  <2> SUFFICES ASSUME IInv PROVE TypeOK
    OBVIOUS
  <2>1. Types /\ run \in {1, 2}
    BY DEF IInv, Phases
  <2>2. ASSUME NEW r \in Rank, NEW c \in Local
        PROVE  field[r].host[c] \in Value /\ field[r].dev[c] \in Value
    <3>1. field[r] \in Buffer
      BY <2>1 DEF Types
    <3>2. field[r].host \in [Local -> Value] /\ field[r].dev \in [Local -> Value]
      BY <3>1 DEF Buffer
    <3> QED BY <3>2
  <2>3. \A c \in DOMAIN output : output[c] \in Interiors \cup {Unset}
    BY <2>1 DEF Types
  <2>4. slot \in [Rank -> [0 .. PtcSize - 1 ->
                  [run : {1, 2}, rank : Rank, slot : 0 .. PtcSize - 1] \cup {Empty}]]
    BY <2>1 DEF Types, SlotValue
  <2>5. device \in BOOLEAN /\ number \in [Rank -> 0 .. PtcSize] /\ at \in [Rank -> Places]
    BY <2>1 DEF Types
  <2> QED BY <2>1, <2>2, <2>3, <2>4, <2>5 DEF TypeOK, Places
<1> QED BY <1>1, AsExpected, PTL

LEMMA ZeroRank == Zero \in Rank
<1>1. \A k \in Axis : Zero[k] = 0 /\ 0 < Extent[k]
  BY Sizes DEF Zero
<1>2. Zero \in [Axis -> Nat]
  BY DEF Zero
<1> QED BY <1>1, <1>2, Ranks

\* Nobody takes a value of a field, or a particle, for a place nobody has written to.
LEMMA NotUnset ==
  /\ \A v \in Value : v # Unset
  /\ \A r \in Rank, j \in Nat : Own(r, j) # Unset
<1>1. GuardOf \in [Axis -> Nat]
  BY GridAssumption
<1>2. PICK a \in Nat : a = Max({GuardOf[k] : k \in Axis})
  BY <1>1, Largest
<1>3. \A b : -a .. b \subseteq Int
  OBVIOUS
<1>4. Value \subseteq [run : {1, 2}, cell : [Axis -> Int]]
  BY <1>2, <1>3 DEF Value
<1>5. \A r \in Rank, j \in Nat : Own(r, j) \in [run : {1, 2}, rank : Rank, slot : Nat]
  BY DEF Own
<1> QED BY <1>4, <1>5, UnsetAssumption

\* Once all ranks have written, the snapshot has the value of every cell of the domain,
\* and of the guard cells at its ends, and no place for a particle is left out.
THEOREM SnapshotSound == Spec => []SnapshotComplete
<1>1. IInv => SnapshotComplete
  <2> SUFFICES ASSUME IInv, All("written") PROVE
        /\ \A c \in DOMAIN snapshot.field :
             /\ snapshot.field[c] # Unset
             /\ \A k \in Axis : LET x == c[k] - GuardOf[k]
                                IN  snapshot.field[c].cell[k] =
                                      IF Periodic[k] THEN x % (Extent[k] * Inner[k]) ELSE x
        /\ \A k \in DOMAIN snapshot.ptc : snapshot.ptc[k] # Unset
    BY DEF SnapshotComplete
  <2>1. /\ Types /\ SnapshotInv /\ SomeWritten /\ \A r \in Rank : Written(r)
    BY ZeroRank DEF IInv, All, Written, SomeWritten
  <2>2. ASSUME NEW c \in DOMAIN snapshot.field
        PROVE  snapshot.field[c] = Right(c) /\ snapshot.field[c] # Unset
    <3>1. c \in Cells(ExtTotal)
      BY <2>1 DEF SnapshotInv
    <3>2. PICK r \in Rank : InBox(c, PosFile(r), Ext(r))
      BY <3>1, FileFull
    <3>3. snapshot.field[c] = Right(c)
      BY <2>1, <3>1, <3>2 DEF SnapshotInv
    <3>4. Right(c) \in Value
      BY <3>1, <3>2, RightPlace, OwnValue
    <3> QED BY <3>3, <3>4, NotUnset
  <2>3. ASSUME NEW c \in DOMAIN snapshot.field, NEW k \in Axis
        PROVE  LET x == c[k] - GuardOf[k]
               IN  snapshot.field[c].cell[k] =
                     IF Periodic[k] THEN x % (Extent[k] * Inner[k]) ELSE x
    <3>1. snapshot.field[c].cell[k] = FileOf(k, c[k])
      <4>1. Right(c).cell = [l \in Axis |-> FileOf(l, c[l])]
        BY DEF Right
      <4>2. Right(c).cell[k] = FileOf(k, c[k])
        BY <4>1
      <4> QED BY <2>2, <4>2
    <3> QED BY <3>1 DEF FileOf
  <2>4. ASSUME NEW i \in DOMAIN snapshot.ptc
        PROVE  snapshot.ptc[i] # Unset
    <3>1. saved \in [Rank -> Nat]
      BY <2>1, SavedIs
    <3>2. i \in 1 .. Total(NumsOf(saved)) /\ Total(NumsOf(saved)) \in Nat
      BY <2>1, <3>1, PlacesOf DEF SnapshotInv
    <3>3. i - 1 \in 0 .. Total(NumsOf(saved)) - 1
      BY <3>2
    <3>4. PICK r \in Rank : i - 1 \in ScanOffset(r, NumsOf(saved)) ..
                                      ScanOffset(r, NumsOf(saved)) + saved[r] - 1
      BY <3>1, <3>3, PlacesOf
    <3>5. PICK o \in Nat, n \in Nat : o = ScanOffset(r, NumsOf(saved)) /\ n = saved[r]
      BY <3>1, PlacesOf
    <3>6. PICK j \in 0 .. n - 1 : i = o + j + 1
      <4>1. i - 1 - o \in 0 .. n - 1 /\ i = o + (i - 1 - o) + 1
        BY <3>2, <3>4, <3>5
      <4> QED BY <4>1
    <3>7. snapshot.ptc[i] = Own(r, j)
      BY <2>1, <3>5, <3>6 DEF SnapshotInv
    <3> QED BY <3>7, NotUnset
  <2> QED BY <2>2, <2>3, <2>4
<1> QED BY <1>1, AsExpected, PTL

\* After a restart every cell of a field is what it was, guard cells and corners
\* included.
THEOREM FieldsBack == Spec => []FieldRestored
<1>1. IInv => FieldRestored
  BY DEF IInv, FieldInv, FieldRestored
<1> QED BY <1>1, AsExpected, PTL

\* After a restart each rank has its own particles again, in the order they had.
THEOREM ParticlesBack == Spec => []ParticlesRestored
<1>1. IInv => ParticlesRestored
  <2> SUFFICES ASSUME IInv, NEW r \in Rank, at[r] = "resumed"
               PROVE  /\ number[r] = saved[r]
                      /\ \A k \in 0 .. number[r] - 1 :
                           slot[r][k] = [run |-> 1, rank |-> r, slot |-> k]
    BY DEF ParticlesRestored
  <2> QED BY DEF IInv, ParticleInv, Own
<1> QED BY <1>1, AsExpected, PTL

\* Once all ranks have written to it, the output has at every place the block of cells
\* that belongs there.
THEOREM OutputSound == Spec => []OutputComplete
<1>1. IInv => OutputComplete
  <2> SUFFICES ASSUME IInv, All("output"), NEW c \in DOMAIN output
               PROVE  output[c] = [run |-> 1, cell |-> [k \in Axis |-> c[k] * Down]]
    BY DEF OutputComplete
  <2>1. c \in Cells(OutTotal)
    BY DEF IInv, Types
  <2>2. PICK r \in Rank : InBox(c, OutOffset(r), OutExt)
    BY <2>1, OutputFull
  <2>3. output[c] = Block(c)
    BY <2>1, <2>2 DEF IInv, OutputInv, All
  <2> QED BY <2>3 DEF Block
<1> QED BY <1>1, AsExpected, PTL
================================================================================
