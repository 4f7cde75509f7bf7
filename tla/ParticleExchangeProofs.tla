------------------------ MODULE ParticleExchangeProofs -------------------------
(***************************************************************************)
(* Proofs about the exchange of particles, for every grid of ranks in one, *)
(* two or three dimensions.  First the geometry: zones by their digits,    *)
(* what makes an operation of Plan right, and that a particle forwarded to *)
(* a neighbour belongs to the same rank, seen from there.  Then the calls  *)
(* of the ranks: which messages are under way between two ranks at any     *)
(* moment, from which it follows that MPI's matching by tags is right      *)
(* (MatchedHolds) and that the ranks never all wait (NoDeadlockHolds).     *)
(* Then the data: every particle is in one array, buffer or message, and   *)
(* that is on the way to where the particle belongs (TypeCorrect,          *)
(* OneCopyHolds, OnlyOwnHolds, DeliveredHolds).  This last part is about   *)
(* the memories and dimensions for which the code copies within a rank     *)
(* correctly (CopiesWork).                                                 *)
(***************************************************************************)
EXTENDS ParticleExchange, CountingLemmas, SequenceTheorems

--------------------------------------------------------------------------------
LEMMA Ranks == Rank = {c \in [Axis -> Nat] : \A k \in Axis : c[k] < Extent[k]}
<1> DEFINE E == {Extent[k] : k \in Axis}
<1>1. \E x \in E : \A y \in E : x >= y
  <2>1. \A k \in Axis : Extent[k] \in Nat
    BY GridOfRanks
  <2>2. CASE Dim = 1
    BY <2>1, <2>2 DEF Axis
  <2>3. CASE Dim = 2
    BY <2>1, <2>3 DEF Axis
  <2>4. CASE Dim = 3
    <3>1. Extent[1] \in Nat /\ Extent[2] \in Nat /\ Extent[3] \in Nat
      BY <2>1, <2>4 DEF Axis
    <3>2. \A y \in E : y = Extent[1] \/ y = Extent[2] \/ y = Extent[3]
      BY <2>4 DEF Axis
    <3>3. Extent[1] \in E /\ Extent[2] \in E /\ Extent[3] \in E
      BY <2>4 DEF Axis
    <3>4. CASE Extent[1] >= Extent[2] /\ Extent[1] >= Extent[3]
      BY <3>1, <3>2, <3>3, <3>4
    <3>5. CASE Extent[2] >= Extent[1] /\ Extent[2] >= Extent[3]
      BY <3>1, <3>2, <3>3, <3>5
    <3>6. CASE Extent[3] >= Extent[1] /\ Extent[3] >= Extent[2]
      BY <3>1, <3>2, <3>3, <3>6
    <3> QED BY <3>1, <3>4, <3>5, <3>6
  <2> QED BY <2>2, <2>3, <2>4, DimAssumption
<1>2. Max(E) \in E /\ \A k \in Axis : Extent[k] <= Max(E)
  BY <1>1 DEF Max
<1>3. \A k \in Axis : Extent[k] \in Nat
  BY GridOfRanks
<1>4. PICK m \in Nat : m = Max(E)
  BY <1>2, <1>3
<1>5. Rank = {c \in [Axis -> 0 .. m - 1] : \A k \in Axis : c[k] < Extent[k]}
  BY <1>4 DEF Rank
<1>6. ASSUME NEW c \in [Axis -> Nat], \A k \in Axis : c[k] < Extent[k]
      PROVE  c \in [Axis -> 0 .. m - 1]
  <2>1. \A k \in Axis : c[k] \in 0 .. m - 1
    BY <1>2, <1>3, <1>4, <1>6
  <2> QED BY <2>1
<1>7. [Axis -> 0 .. m - 1] \subseteq [Axis -> Nat]
  OBVIOUS
<1> QED BY <1>5, <1>6, <1>7

\* Remainders of numbers that are off by at most one.
LEMMA Remainder ==
  ASSUME NEW n \in Nat \ {0}, NEW x \in Int
  PROVE  x % n \in 0 .. n - 1 /\ (x % n) % n = x % n
OBVIOUS

LEMMA Wrap ==
  ASSUME NEW n \in Nat \ {0}, NEW x \in 0 .. n - 1, NEW dir \in {-1, 1}
  PROVE  (((x + dir) % n) - dir) % n = x
<1>1. CASE x + dir \in 0 .. n - 1
  <2>1. (x + dir) % n = x + dir
    BY <1>1
  <2>2. x + dir - dir = x /\ x % n = x
    OBVIOUS
  <2> QED BY <2>1, <2>2
<1>2. CASE x + dir = -1
  <2>1. x = 0 /\ dir = -1 /\ (-1) % n = n - 1 /\ n % n = 0
    BY <1>2
  <2>2. n - 1 + 1 = n /\ 0 + (-1) = -1 /\ n - 1 - (-1) = n
    OBVIOUS
  <2> QED BY <2>1, <2>2
<1>3. CASE x + dir = n
  <2>1. x = n - 1 /\ dir = 1 /\ n % n = 0 /\ (-1) % n = n - 1
    BY <1>3
  <2>2. x + dir = n /\ 0 - dir = -1
    BY <1>3, <2>1
  <2> QED BY <2>1, <2>2
<1> QED BY <1>1, <1>2, <1>3

LEMMA NeighbourType ==
  ASSUME NEW r \in Rank, NEW k \in Axis, NEW dir \in {-1, 1}
  PROVE  Neighbour(r, k, dir) \in Rank \cup {Null}
<1> DEFINE c == r[k] + dir
<1>1. /\ r \in [Axis -> Nat] /\ r[k] \in Nat /\ r[k] < Extent[k] /\ Extent[k] \in Nat \ {0}
      /\ \A l \in Axis : r[l] < Extent[l]
  BY Ranks, GridOfRanks
<1>2. c % Extent[k] \in 0 .. Extent[k] - 1
  <2>1. PICK e \in Nat \ {0} : e = Extent[k]
    BY <1>1
  <2>2. c \in Int
    BY <1>1
  <2>3. c % e \in 0 .. e - 1
    BY <2>2, Remainder
  <2> QED BY <2>1, <2>3
<1>3. ASSUME NEW x \in 0 .. Extent[k] - 1
      PROVE  [r EXCEPT ![k] = x] \in Rank
  <2>1. [r EXCEPT ![k] = x] \in [Axis -> Nat]
    BY <1>1, <1>3
  <2>2. \A l \in Axis : [r EXCEPT ![k] = x][l] < Extent[l]
    BY <1>1, <1>3
  <2> QED BY <2>1, <2>2, Ranks
<1> QED BY <1>2, <1>3 DEF Neighbour

\* Neighbours are so in both directions.
LEMMA NeighbourBack ==
  ASSUME NEW r \in Rank, NEW k \in Axis, NEW dir \in {-1, 1},
         Neighbour(r, k, dir) # Null
  PROVE  Neighbour(Neighbour(r, k, dir), k, -dir) = r
<1> DEFINE c == r[k] + dir
           s == Neighbour(r, k, dir)
<1>1. r \in [Axis -> Nat] /\ r[k] \in 0 .. Extent[k] - 1 /\ Extent[k] \in Nat \ {0}
  BY Ranks, GridOfRanks
<1>2. CASE Periodic[k]
  <2>1. s = [r EXCEPT ![k] = c % Extent[k]] /\ s[k] = c % Extent[k]
    BY <1>1, <1>2 DEF Neighbour
  <2>2. (s[k] - dir) % Extent[k] = r[k]
    <3>1. PICK e \in Nat \ {0} : e = Extent[k]
      BY <1>1
    <3>2. PICK x \in 0 .. e - 1 : x = r[k]
      BY <1>1, <3>1
    <3>3. (((x + dir) % e) - dir) % e = x
      BY Wrap
    <3> QED BY <2>1, <3>1, <3>2, <3>3
  <2>3. Neighbour(s, k, -dir) = [s EXCEPT ![k] = (s[k] - dir) % Extent[k]]
    BY <1>2 DEF Neighbour
  <2> QED BY <1>1, <2>1, <2>2, <2>3
<1>3. CASE ~Periodic[k]
  <2>1. c \in 0 .. Extent[k] - 1 /\ s = [r EXCEPT ![k] = c] /\ s[k] = c
    BY <1>1, <1>3 DEF Neighbour
  <2>2. s[k] + (-dir) = r[k]
    BY <1>1, <2>1
  <2>3. Neighbour(s, k, -dir) = [s EXCEPT ![k] = r[k]]
    BY <1>1, <1>3, <2>2 DEF Neighbour
  <2> QED BY <1>1, <2>1, <2>3
<1> QED BY <1>2, <1>3

--------------------------------------------------------------------------------
\* Zones, by their digits.
LEMMA Zones ==
  /\ Stride[1] = 1 /\ Stride[2] = 3 /\ Stride[3] = 9 /\ Stride[4] = 27
  /\ \A z \in Int : /\ Along(z, 1) = (z % 3) - 1
                    /\ Along(z, 2) = ((z \div 3) % 3) - 1
                    /\ Along(z, 3) = ((z \div 9) % 3) - 1
<1>1. Stride[1] = 1 /\ Stride[2] = 3 /\ Stride[3] = 9 /\ Stride[4] = 27
  BY DEF Stride
<1>2. \A z \in Int : z \div 1 = z
  OBVIOUS
<1> QED BY <1>1, <1>2 DEF Along

LEMMA Digits ==
  ASSUME NEW z \in Int
  PROVE  /\ Along(z, 1) = (z % 3) - 1
         /\ Along(z, 2) = ((z \div 3) % 3) - 1
         /\ Along(z, 3) = ((z \div 9) % 3) - 1
BY Zones

LEMMA AlongType ==
  ASSUME NEW z \in Int, NEW k \in Axis
  PROVE  Along(z, k) \in -1 .. 1
<1>1. k = 1 \/ k = 2 \/ k = 3
  BY DimAssumption DEF Axis
<1>2. (z % 3) - 1 \in -1 .. 1 /\ ((z \div 3) % 3) - 1 \in -1 .. 1 /\ ((z \div 9) % 3) - 1 \in -1 .. 1
  OBVIOUS
<1> QED BY <1>1, <1>2, Zones

LEMMA TheZones ==
  /\ Zone \subseteq Nat /\ Central \in Zone
  /\ Dim = 1 => Zone = 0 .. 2 /\ Central = 1
  /\ Dim = 2 => Zone = 0 .. 8 /\ Central = 4
  /\ Dim = 3 => Zone = 0 .. 26 /\ Central = 13
<1>1. Stride[2] = 3 /\ Stride[3] = 9 /\ Stride[4] = 27
  BY Zones
<1>2. CASE Dim = 1
  <2>1. Stride[Dim + 1] = 3
    BY <1>1, <1>2
  <2>2. Zone = 0 .. 2 /\ Central = 1
    BY <2>1 DEF Zone, Central
  <2> QED BY <1>2, <2>2
<1>3. CASE Dim = 2
  <2>1. Stride[Dim + 1] = 9
    BY <1>1, <1>3
  <2>2. Zone = 0 .. 8 /\ Central = 4
    BY <2>1 DEF Zone, Central
  <2> QED BY <1>3, <2>2
<1>4. CASE Dim = 3
  <2>1. Stride[Dim + 1] = 27
    BY <1>1, <1>4
  <2>2. Zone = 0 .. 26 /\ Central = 13
    BY <2>1 DEF Zone, Central
  <2> QED BY <1>4, <2>2
<1> QED BY <1>2, <1>3, <1>4, DimAssumption

\* Particles in the central zone stay where they are.
LEMMA CentralStays ==
  ASSUME NEW r \in Rank
  PROVE  Owner(r, Central) = r
<1>1. \A k \in Axis : Along(Central, k) = 0
  <2>1. /\ 1 % 3 = 1 /\ 4 % 3 = 1 /\ (4 \div 3) % 3 = 1
        /\ 13 % 3 = 1 /\ (13 \div 3) % 3 = 1 /\ (13 \div 9) % 3 = 1
    OBVIOUS
  <2>2. CASE Dim = 1
    BY <2>1, <2>2, Zones, TheZones DEF Axis
  <2>3. CASE Dim = 2
    <3>1. \A k \in Axis : k = 1 \/ k = 2
      BY <2>3 DEF Axis
    <3> QED BY <2>1, <2>3, <3>1, Zones, TheZones
  <2>4. CASE Dim = 3
    <3>1. \A k \in Axis : k = 1 \/ k = 2 \/ k = 3
      BY <2>4 DEF Axis
    <3> QED BY <2>1, <2>4, <3>1, Zones, TheZones
  <2> QED BY <2>2, <2>3, <2>4, DimAssumption
<1>2. r \in [Axis -> Nat] /\ \A k \in Axis : r[k] \in 0 .. Extent[k] - 1
  BY Ranks, GridOfRanks
<1>3. \A k \in Axis : (r[k] + Along(Central, k)) % Extent[k] = r[k]
  <2> SUFFICES ASSUME NEW k \in Axis PROVE (r[k] + Along(Central, k)) % Extent[k] = r[k]
    OBVIOUS
  <2>1. PICK e \in Nat \ {0} : e = Extent[k]
    BY GridOfRanks
  <2>2. PICK x \in 0 .. e - 1 : x = r[k]
    BY <1>2, <2>1
  <2>3. (x + 0) % e = x
    OBVIOUS
  <2> QED BY <1>1, <2>1, <2>2, <2>3
<1>4. \A k \in Axis : r[k] + Along(Central, k) = r[k]
  BY <1>1, <1>2
<1>5. Owner(r, Central) = [k \in Axis |-> r[k]]
  BY <1>2, <1>3, <1>4 DEF Owner
<1> QED BY <1>2, <1>5

--------------------------------------------------------------------------------
\* What makes an operation right: what it sends has no way left to go along the axes
\* before its own, goes one rank along its own axis, and is received where it has the
\* same way left along the others.
Ops == {o \in [axis : Axis, dir : {-1, 1}, send : Zone, recv : Zone,
               tag : Nat, batched : BOOLEAN] :
          /\ Along(o.send, o.axis) = o.dir /\ Along(o.recv, o.axis) = 0
          /\ \A k \in Axis \ {o.axis} : Along(o.recv, k) = Along(o.send, k)
          /\ \A k \in Axis : k < o.axis => Along(o.send, k) = 0}
Sends(s, z) == \E i \in 1 .. Len(s) : s[i].send = z
OfAxis(s, k) == \A i \in 1 .. Len(s) : s[i].axis = k

LEMMA AxisCases ==
  ASSUME NEW k \in Axis
  PROVE  /\ k \in 1 .. 3
         /\ Dim = 1 => k = 1
         /\ Dim = 2 => k = 1 \/ k = 2
         /\ Dim = 3 => k = 1 \/ k = 2 \/ k = 3
BY DimAssumption DEF Axis

LEMMA FunctionIsSeq ==
  ASSUME NEW S, NEW n \in Nat, NEW f \in [1 .. n -> S]
  PROVE  f \in Seq(S) /\ Len(f) = n /\ DOMAIN f = 1 .. n
OBVIOUS

LEMMA SweepXOps ==
  ASSUME NEW dir \in {-1, 1}
  PROVE  /\ SweepX(dir) \in Seq(Ops) /\ OfAxis(SweepX(dir), 1)
         /\ Len(SweepX(dir)) = Stride[Dim]
         /\ \A z \in Zone : Along(z, 1) = dir => Sends(SweepX(dir), z)
<1> DEFINE op(i) == [axis |-> 1, dir |-> dir, send |-> (i - 1) * 3 + 1 + dir,
                     recv |-> (i - 1) * 3 + 1, tag |-> i - 1, batched |-> TRUE]
<1>1. /\ Stride[Dim] \in Nat
      /\ \A i \in 1 .. Stride[Dim] :
            i \in 1 .. 9 /\ (i - 1) * 3 + 1 + dir \in Zone /\ (i - 1) * 3 + 1 \in Zone
      /\ \A z \in Zone : z \in Nat /\ z \div 3 + 1 \in 1 .. Stride[Dim]
  <2>1. CASE Dim = 1
    <3>1. Stride[Dim] = 1 /\ Zone = 0 .. 2
      BY <2>1, Zones, TheZones
    <3> QED BY <3>1
  <2>2. CASE Dim = 2
    <3>1. Stride[Dim] = 3 /\ Zone = 0 .. 8
      BY <2>2, Zones, TheZones
    <3> QED BY <3>1
  <2>3. CASE Dim = 3
    <3>1. Stride[Dim] = 9 /\ Zone = 0 .. 26
      BY <2>3, Zones, TheZones
    <3> QED BY <3>1
  <2> QED BY <2>1, <2>2, <2>3, DimAssumption
<1>2. ASSUME NEW i \in 1 .. Stride[Dim]
      PROVE  op(i) \in Ops
  <2> DEFINE a == (i - 1) * 3 + 1 + dir
             b == (i - 1) * 3 + 1
  <2>1. i \in 1 .. 9 /\ a \in Zone /\ b \in Zone /\ 1 \in Axis
    BY <1>1, DimAssumption DEF Axis
  <2>2. /\ a % 3 = 1 + dir /\ b % 3 = 1
        /\ a \div 3 = i - 1 /\ b \div 3 = i - 1
        /\ a \div 9 = (i - 1) \div 3 /\ b \div 9 = (i - 1) \div 3
        /\ a \in Int /\ b \in Int
    BY <2>1
  <2>3. /\ Along(a, 1) = dir /\ Along(b, 1) = 0
        /\ Along(a, 2) = Along(b, 2) /\ Along(a, 3) = Along(b, 3)
    <3> HIDE DEF a, b
    <3>1. Along(a, 1) = (a % 3) - 1 /\ Along(a, 2) = ((a \div 3) % 3) - 1
          /\ Along(a, 3) = ((a \div 9) % 3) - 1
      BY <2>2, Digits
    <3>2. Along(b, 1) = (b % 3) - 1 /\ Along(b, 2) = ((b \div 3) % 3) - 1
          /\ Along(b, 3) = ((b \div 9) % 3) - 1
      BY <2>2, Digits
    <3>3. 1 + dir - 1 = dir
      OBVIOUS
    <3> QED BY <2>2, <3>1, <3>2, <3>3
  <2>4. /\ \A k \in Axis \ {1} : Along(b, k) = Along(a, k)
        /\ \A k \in Axis : ~(k < 1)
    BY <2>3, AxisCases
  <2>5. op(i) \in [axis : Axis, dir : {-1, 1}, send : Zone, recv : Zone,
                   tag : Nat, batched : BOOLEAN]
    BY <2>1
  <2> QED BY <2>3, <2>4, <2>5 DEF Ops
<1>3. SweepX(dir) = [i \in 1 .. Stride[Dim] |-> op(i)]
  BY DEF SweepX
<1>4. Len(SweepX(dir)) = Stride[Dim] /\ SweepX(dir) \in Seq(Ops)
  <2> HIDE DEF op
  <2>1. SweepX(dir) \in [1 .. Stride[Dim] -> Ops]
    BY <1>2, <1>3
  <2> QED BY <1>1, <2>1, FunctionIsSeq
<1>5. ASSUME NEW z \in Zone, Along(z, 1) = dir
      PROVE  Sends(SweepX(dir), z)
  <2>1. z \in Int /\ (z % 3) - 1 = dir /\ z \div 3 + 1 \in 1 .. Stride[Dim]
    BY <1>1, <1>5, Zones
  <2>2. (z \div 3 + 1 - 1) * 3 + 1 + dir = z
    BY <2>1
  <2>3. SweepX(dir)[z \div 3 + 1].send = z
    BY <1>3, <2>1, <2>2
  <2> QED BY <1>4, <2>1, <2>3 DEF Sends
<1>6. OfAxis(SweepX(dir), 1)
  <2>1. \A i \in 1 .. Stride[Dim] : op(i).axis = 1
    OBVIOUS
  <2> HIDE DEF op
  <2> QED BY <1>3, <1>4, <2>1 DEF OfAxis
<1> QED BY <1>4, <1>5, <1>6

LEMMA SweepYOps ==
  ASSUME NEW dir \in {-1, 1}, Dim >= 2
  PROVE  /\ SweepY(dir) \in Seq(Ops) /\ OfAxis(SweepY(dir), 2)
         /\ \A z \in Zone : Along(z, 1) = 0 /\ Along(z, 2) = dir => Sends(SweepY(dir), z)
<1> DEFINE op(i) == [axis |-> 2, dir |-> dir, send |-> 4 + (i - 1) * 9 + 3 * dir,
                     recv |-> 4 + (i - 1) * 9, tag |-> i - 1, batched |-> TRUE]
<1>1. /\ Stride[Dim - 1] \in Nat
      /\ \A i \in 1 .. Stride[Dim - 1] :
            i \in 1 .. 3 /\ 4 + (i - 1) * 9 + 3 * dir \in Zone /\ 4 + (i - 1) * 9 \in Zone
      /\ \A z \in Zone : z \in Nat /\ z \div 9 + 1 \in 1 .. Stride[Dim - 1]
  <2>1. CASE Dim = 2
    <3>1. Stride[Dim - 1] = 1 /\ Zone = 0 .. 8
      BY <2>1, Zones, TheZones
    <3> QED BY <3>1
  <2>2. CASE Dim = 3
    <3>1. Stride[Dim - 1] = 3 /\ Zone = 0 .. 26
      BY <2>2, Zones, TheZones
    <3> QED BY <3>1
  <2> QED BY <2>1, <2>2, DimAssumption
<1>2. ASSUME NEW i \in 1 .. Stride[Dim - 1]
      PROVE  op(i) \in Ops
  <2> DEFINE a == 4 + (i - 1) * 9 + 3 * dir
             b == 4 + (i - 1) * 9
  <2>1. i \in 1 .. 3 /\ a \in Zone /\ b \in Zone /\ 2 \in Axis
    BY <1>1, DimAssumption DEF Axis
  <2>2. /\ a % 3 = 1 /\ b % 3 = 1
        /\ (a \div 3) % 3 = 1 + dir /\ (b \div 3) % 3 = 1
        /\ a \div 9 = i - 1 /\ b \div 9 = i - 1
        /\ a \in Int /\ b \in Int
    BY <2>1
  <2>3. /\ Along(a, 2) = dir /\ Along(b, 2) = 0 /\ Along(a, 1) = 0
        /\ Along(a, 1) = Along(b, 1) /\ Along(a, 3) = Along(b, 3)
    <3> HIDE DEF a, b
    <3>1. Along(a, 1) = (a % 3) - 1 /\ Along(a, 2) = ((a \div 3) % 3) - 1
          /\ Along(a, 3) = ((a \div 9) % 3) - 1
      BY <2>2, Digits
    <3>2. Along(b, 1) = (b % 3) - 1 /\ Along(b, 2) = ((b \div 3) % 3) - 1
          /\ Along(b, 3) = ((b \div 9) % 3) - 1
      BY <2>2, Digits
    <3>3. 1 + dir - 1 = dir
      OBVIOUS
    <3> QED BY <2>2, <3>1, <3>2, <3>3
  <2>4. /\ \A k \in Axis \ {2} : Along(b, k) = Along(a, k)
        /\ \A k \in Axis : k < 2 => Along(a, k) = 0
    BY <2>3, AxisCases, DimAssumption
  <2>5. op(i) \in [axis : Axis, dir : {-1, 1}, send : Zone, recv : Zone,
                   tag : Nat, batched : BOOLEAN]
    BY <2>1
  <2> QED BY <2>3, <2>4, <2>5 DEF Ops
<1>3. SweepY(dir) = [i \in 1 .. Stride[Dim - 1] |-> op(i)]
  BY DEF SweepY
<1>4. Len(SweepY(dir)) = Stride[Dim - 1] /\ SweepY(dir) \in Seq(Ops)
  <2> HIDE DEF op
  <2>1. SweepY(dir) \in [1 .. Stride[Dim - 1] -> Ops]
    BY <1>2, <1>3
  <2> QED BY <1>1, <2>1, FunctionIsSeq
<1>5. ASSUME NEW z \in Zone, Along(z, 1) = 0, Along(z, 2) = dir
      PROVE  Sends(SweepY(dir), z)
  <2>1. /\ z \in Nat /\ (z % 3) - 1 = 0 /\ ((z \div 3) % 3) - 1 = dir
        /\ z \div 9 + 1 \in 1 .. Stride[Dim - 1]
    <3>1. z \in Nat /\ z \in Int /\ z \div 9 + 1 \in 1 .. Stride[Dim - 1]
      BY <1>1
    <3>2. Along(z, 1) = (z % 3) - 1 /\ Along(z, 2) = ((z \div 3) % 3) - 1
      BY <3>1, Digits
    <3> QED BY <1>5, <3>1, <3>2
  <2>2. 4 + (z \div 9 + 1 - 1) * 9 + 3 * dir = z
    BY <2>1
  <2>3. SweepY(dir)[z \div 9 + 1].send = z
    BY <1>3, <2>1, <2>2
  <2> QED BY <1>4, <2>1, <2>3 DEF Sends
<1>6. OfAxis(SweepY(dir), 2)
  <2>1. \A i \in 1 .. Stride[Dim - 1] : op(i).axis = 2
    OBVIOUS
  <2> HIDE DEF op
  <2> QED BY <1>3, <1>4, <2>1 DEF OfAxis
<1> QED BY <1>4, <1>5, <1>6

LEMMA SweepZOps ==
  ASSUME NEW dir \in {-1, 1}, Dim = 3
  PROVE  /\ SweepZ(dir) \in Seq(Ops) /\ OfAxis(SweepZ(dir), 3)
         /\ \A z \in Zone : Along(z, 1) = 0 /\ Along(z, 2) = 0 /\ Along(z, 3) = dir =>
                              Sends(SweepZ(dir), z)
<1> DEFINE op == [axis |-> 3, dir |-> dir, send |-> 13 + 9 * dir, recv |-> 13,
                  tag |-> 13, batched |-> FALSE]
           a == 13 + 9 * dir
<1>1. Zone = 0 .. 26 /\ 3 \in Axis
  BY TheZones DEF Axis
<1>2. /\ a % 3 = 1 /\ 13 % 3 = 1
      /\ (a \div 3) % 3 = 1 /\ (13 \div 3) % 3 = 1
      /\ (a \div 9) % 3 = 1 + dir /\ (13 \div 9) % 3 = 1
      /\ a \in Int /\ a \in 0 .. 26
  OBVIOUS
<1>3. /\ Along(a, 3) = dir /\ Along(13, 3) = 0
      /\ Along(a, 1) = 0 /\ Along(13, 1) = 0 /\ Along(a, 2) = 0 /\ Along(13, 2) = 0
  BY <1>2, Zones
<1>4. /\ \A k \in Axis \ {3} : Along(13, k) = Along(a, k)
      /\ \A k \in Axis : k < 3 => Along(a, k) = 0
  BY <1>3, AxisCases
<1>5. op \in [axis : Axis, dir : {-1, 1}, send : Zone, recv : Zone,
              tag : Nat, batched : BOOLEAN]
  BY <1>1, <1>2
<1>6. op \in Ops
  BY <1>3, <1>4, <1>5 DEF Ops
<1>7. SweepZ(dir) = <<op>>
  BY DEF SweepZ
<1>8. ASSUME NEW z \in Zone, Along(z, 1) = 0, Along(z, 2) = 0, Along(z, 3) = dir
      PROVE  z = a
  <2>1. /\ z \in 0 .. 26 /\ (z % 3) - 1 = 0 /\ ((z \div 3) % 3) - 1 = 0
        /\ ((z \div 9) % 3) - 1 = dir
    BY <1>1, <1>8, Zones
  <2> QED BY <2>1
<1>9. SweepZ(dir) \in Seq(Ops) /\ Len(SweepZ(dir)) = 1 /\ SweepZ(dir)[1] = op
  BY <1>6, <1>7
<1> QED BY <1>8, <1>9 DEF Sends, OfAxis


LEMMA Concatenated ==
  ASSUME NEW s \in Seq(Ops), NEW u \in Seq(Ops)
  PROVE  /\ s \o u \in Seq(Ops)
         /\ \A k : OfAxis(s, k) /\ OfAxis(u, k) => OfAxis(s \o u, k)
         /\ \A z : Sends(s, z) \/ Sends(u, z) => Sends(s \o u, z)
         /\ \A i \in 1 .. Len(s \o u) : \/ i \in 1 .. Len(s) /\ (s \o u)[i] = s[i]
                                        \/ i > Len(s) /\ i - Len(s) \in 1 .. Len(u)
                                           /\ (s \o u)[i] = u[i - Len(s)]
<1>1. /\ s \o u \in Seq(Ops) /\ Len(s) \in Nat /\ Len(u) \in Nat
      /\ Len(s \o u) = Len(s) + Len(u)
      /\ \A i \in 1 .. Len(s) + Len(u) :
           (s \o u)[i] = IF i <= Len(s) THEN s[i] ELSE u[i - Len(s)]
  OBVIOUS
<1>2. \A i \in 1 .. Len(s \o u) : \/ i \in 1 .. Len(s) /\ (s \o u)[i] = s[i]
                                  \/ i > Len(s) /\ i - Len(s) \in 1 .. Len(u)
                                     /\ (s \o u)[i] = u[i - Len(s)]
  BY <1>1
<1>3. /\ \A i \in 1 .. Len(s) : i \in 1 .. Len(s \o u) /\ (s \o u)[i] = s[i]
      /\ \A i \in 1 .. Len(u) : i + Len(s) \in 1 .. Len(s \o u) /\ (s \o u)[i + Len(s)] = u[i]
  BY <1>1
<1>4. \A k : OfAxis(s, k) /\ OfAxis(u, k) => OfAxis(s \o u, k)
  BY <1>2 DEF OfAxis
<1>5. \A z : Sends(s, z) \/ Sends(u, z) => Sends(s \o u, z)
  BY <1>3 DEF Sends
<1> QED BY <1>1, <1>2, <1>4, <1>5

InAxisOrder(s) == \A i, j \in 1 .. Len(s) : i <= j => s[i].axis <= s[j].axis

LEMMA OrderedParts ==
  ASSUME NEW s \in Seq(Ops), NEW u \in Seq(Ops), InAxisOrder(s), InAxisOrder(u),
         \A i \in 1 .. Len(s), j \in 1 .. Len(u) : s[i].axis <= u[j].axis
  PROVE  InAxisOrder(s \o u)
<1> SUFFICES ASSUME NEW i \in 1 .. Len(s \o u), NEW j \in 1 .. Len(s \o u), i <= j
             PROVE  (s \o u)[i].axis <= (s \o u)[j].axis
  BY DEF InAxisOrder
<1>1. Len(s) \in Nat /\ Len(u) \in Nat /\ Len(s \o u) \in Nat
  OBVIOUS
<1>2. CASE i \in 1 .. Len(s) /\ (s \o u)[i] = s[i]
  <2>1. CASE j \in 1 .. Len(s) /\ (s \o u)[j] = s[j]
    BY <1>2, <2>1 DEF InAxisOrder
  <2>2. CASE j - Len(s) \in 1 .. Len(u) /\ (s \o u)[j] = u[j - Len(s)]
    BY <1>2, <2>2
  <2> QED BY <2>1, <2>2, Concatenated
<1>3. CASE i > Len(s) /\ i - Len(s) \in 1 .. Len(u) /\ (s \o u)[i] = u[i - Len(s)]
  <2>1. ~(j \in 1 .. Len(s))
    BY <1>1, <1>3
  <2>2. j - Len(s) \in 1 .. Len(u) /\ (s \o u)[j] = u[j - Len(s)]
    BY <2>1, Concatenated
  <2>3. i - Len(s) <= j - Len(s)
    BY <1>1
  <2> QED BY <1>3, <2>2, <2>3 DEF InAxisOrder
<1> QED BY <1>2, <1>3, Concatenated

\* Operations are right, go through the axes in order, and leave out no zone.
LEMMA ThePlan ==
  /\ Plan \in Seq(Ops) /\ Len(Plan) \in Nat
  /\ InAxisOrder(Plan)
  /\ \A z \in Zone : z # Central => Sends(Plan, z)
<1> DEFINE X == SweepX(-1) \o SweepX(1)
           Y == SweepY(-1) \o SweepY(1)
           Z == SweepZ(-1) \o SweepZ(1)
<1>1. X \in Seq(Ops) /\ OfAxis(X, 1)
      /\ \A z \in Zone : Along(z, 1) = -1 \/ Along(z, 1) = 1 => Sends(X, z)
  <2>1. SweepX(-1) \in Seq(Ops) /\ OfAxis(SweepX(-1), 1)
        /\ \A z \in Zone : Along(z, 1) = -1 => Sends(SweepX(-1), z)
    BY SweepXOps
  <2>2. SweepX(1) \in Seq(Ops) /\ OfAxis(SweepX(1), 1)
        /\ \A z \in Zone : Along(z, 1) = 1 => Sends(SweepX(1), z)
    BY SweepXOps
  <2> QED BY <2>1, <2>2, Concatenated
<1>2. ASSUME Dim >= 2
      PROVE  Y \in Seq(Ops) /\ OfAxis(Y, 2)
             /\ \A z \in Zone : Along(z, 1) = 0 /\ (Along(z, 2) = -1 \/ Along(z, 2) = 1) =>
                                  Sends(Y, z)
  <2>1. SweepY(-1) \in Seq(Ops) /\ OfAxis(SweepY(-1), 2)
        /\ \A z \in Zone : Along(z, 1) = 0 /\ Along(z, 2) = -1 => Sends(SweepY(-1), z)
    BY <1>2, SweepYOps
  <2>2. SweepY(1) \in Seq(Ops) /\ OfAxis(SweepY(1), 2)
        /\ \A z \in Zone : Along(z, 1) = 0 /\ Along(z, 2) = 1 => Sends(SweepY(1), z)
    BY <1>2, SweepYOps
  <2> QED BY <2>1, <2>2, Concatenated
<1>3. ASSUME Dim = 3
      PROVE  Z \in Seq(Ops) /\ OfAxis(Z, 3)
             /\ \A z \in Zone : /\ Along(z, 1) = 0 /\ Along(z, 2) = 0
                                /\ Along(z, 3) = -1 \/ Along(z, 3) = 1
                                => Sends(Z, z)
  <2>1. SweepZ(-1) \in Seq(Ops) /\ OfAxis(SweepZ(-1), 3)
        /\ \A z \in Zone : Along(z, 1) = 0 /\ Along(z, 2) = 0 /\ Along(z, 3) = -1 =>
                             Sends(SweepZ(-1), z)
    BY <1>3, SweepZOps
  <2>2. SweepZ(1) \in Seq(Ops) /\ OfAxis(SweepZ(1), 3)
        /\ \A z \in Zone : Along(z, 1) = 0 /\ Along(z, 2) = 0 /\ Along(z, 3) = 1 =>
                             Sends(SweepZ(1), z)
    BY <1>3, SweepZOps
  <2> QED BY <2>1, <2>2, Concatenated
<1>4. \A s \in Seq(Ops), k \in 1 .. 3 : OfAxis(s, k) => InAxisOrder(s)
  BY DEF OfAxis, InAxisOrder
<1>5. \A s, u \in Seq(Ops), k, l \in 1 .. 3 :
        OfAxis(s, k) /\ OfAxis(u, l) /\ k <= l => InAxisOrder(s \o u)
  BY <1>4, OrderedParts DEF OfAxis
<1>6. \A z \in Zone, k \in Axis : Along(z, k) \in {-1, 0, 1}
  BY AlongType, TheZones
<1>7. /\ 1 \in Axis
      /\ Dim >= 2 => 2 \in Axis
      /\ Dim = 3 => 3 \in Axis
  BY DimAssumption DEF Axis
<1> HIDE DEF X, Y, Z
<1>8. CASE Dim = 1
  <2>1. Plan = X \o <<>> \o <<>>
    BY <1>8 DEF Plan, X
  <2>2. X \o <<>> \o <<>> = X
    BY <1>1
  <2>3. \A z \in Zone : z # Central => z = 0 \/ z = 2
    BY <1>8, TheZones
  <2>4. Along(0, 1) = -1 /\ Along(2, 1) = 1
    BY Digits
  <2>5. Plan = X /\ Len(X) \in Nat
    BY <1>1, <2>1, <2>2
  <2>6. InAxisOrder(X)
    BY <1>1, <1>4
  <2> QED BY <1>1, <2>3, <2>4, <2>5, <2>6
<1>9. CASE Dim = 2
  <2>1. Plan = X \o Y \o <<>>
    BY <1>9 DEF Plan, X, Y
  <2>2. X \o Y \in Seq(Ops) /\ X \o Y \o <<>> = X \o Y
    BY <1>1, <1>2, <1>9
  <2>3. InAxisOrder(X \o Y)
    BY <1>1, <1>2, <1>5, <1>9
  <2>4. \A z \in Zone : Along(z, 1) = 0 /\ Along(z, 2) = 0 => z = Central
    <3> SUFFICES ASSUME NEW z \in Zone, Along(z, 1) = 0, Along(z, 2) = 0 PROVE z = Central
      OBVIOUS
    <3>1. z \in 0 .. 8 /\ Central = 4
      BY <1>9, TheZones
    <3>2. (z % 3) - 1 = 0 /\ ((z \div 3) % 3) - 1 = 0
      BY <3>1, Digits
    <3> QED BY <3>1, <3>2
  <2>5. ASSUME NEW z \in Zone, z # Central PROVE Sends(X \o Y, z)
    <3>1. CASE Along(z, 1) # 0
      BY <3>1, <1>1, <1>2, <1>6, <1>7, <1>9, Concatenated
    <3>2. CASE Along(z, 1) = 0
      <4>1. Along(z, 2) = -1 \/ Along(z, 2) = 1
        BY <2>4, <2>5, <3>2, <1>6, <1>7, <1>9
      <4> QED BY <4>1, <3>2, <1>1, <1>2, <1>9, Concatenated
    <3> QED BY <3>1, <3>2
  <2> QED BY <2>1, <2>2, <2>3, <2>5
<1>10. CASE Dim = 3
  <2>1. Plan = X \o Y \o Z
    BY <1>10 DEF Plan, X, Y, Z
  <2>2. X \o Y \in Seq(Ops) /\ X \o Y \o Z \in Seq(Ops)
    BY <1>1, <1>2, <1>3, <1>10
  <2>3. InAxisOrder(X \o Y)
    BY <1>1, <1>2, <1>5, <1>10
  <2>4. \A i \in 1 .. Len(X \o Y), j \in 1 .. Len(Z) : (X \o Y)[i].axis <= Z[j].axis
    <3>1. ASSUME NEW i \in 1 .. Len(X \o Y), NEW j \in 1 .. Len(Z)
          PROVE  (X \o Y)[i].axis <= Z[j].axis
      <4>1. Z[j].axis = 3
        BY <1>3, <1>10, <3>1 DEF OfAxis
      <4>2. (X \o Y)[i].axis = 1 \/ (X \o Y)[i].axis = 2
        <5>1. X \in Seq(Ops) /\ Y \in Seq(Ops) /\ OfAxis(X, 1) /\ OfAxis(Y, 2)
          BY <1>1, <1>2, <1>10
        <5> QED BY <5>1, <3>1, Concatenated DEF OfAxis
      <4> QED BY <4>1, <4>2
    <3> QED BY <3>1
  <2>5. InAxisOrder(X \o Y \o Z)
    <3>1. Z \in Seq(Ops) /\ InAxisOrder(Z)
      BY <1>3, <1>4, <1>10
    <3> QED BY <2>2, <2>3, <2>4, <3>1, OrderedParts
  <2>6. \A z \in Zone : Along(z, 1) = 0 /\ Along(z, 2) = 0 /\ Along(z, 3) = 0 => z = Central
    <3> SUFFICES ASSUME NEW z \in Zone, Along(z, 1) = 0, Along(z, 2) = 0, Along(z, 3) = 0
                 PROVE  z = Central
      OBVIOUS
    <3>1. z \in 0 .. 26 /\ Central = 13
      BY <1>10, TheZones
    <3>2. (z % 3) - 1 = 0 /\ ((z \div 3) % 3) - 1 = 0 /\ ((z \div 9) % 3) - 1 = 0
      BY <3>1, Digits
    <3> QED BY <3>1, <3>2
  <2>7. ASSUME NEW z \in Zone, z # Central PROVE Sends(X \o Y \o Z, z)
    <3>1. CASE Along(z, 1) # 0
      <4>1. Sends(X, z)
        BY <3>1, <1>1, <1>6, <1>7
      <4>2. Sends(X \o Y, z)
        BY <4>1, <1>1, <1>2, <1>10, Concatenated
      <4> QED BY <4>2, <1>3, <1>10, <2>2, Concatenated
    <3>2. CASE Along(z, 1) = 0 /\ Along(z, 2) # 0
      <4>1. Sends(Y, z)
        BY <3>2, <1>2, <1>6, <1>7, <1>10
      <4>2. Sends(X \o Y, z)
        BY <4>1, <1>1, <1>2, <1>10, Concatenated
      <4> QED BY <4>2, <1>3, <1>10, <2>2, Concatenated
    <3>3. CASE Along(z, 1) = 0 /\ Along(z, 2) = 0
      <4>1. Along(z, 3) = -1 \/ Along(z, 3) = 1
        BY <2>6, <2>7, <3>3, <1>6, <1>7, <1>10
      <4>2. Sends(Z, z)
        BY <3>3, <4>1, <1>3, <1>10
      <4> QED BY <4>2, <1>3, <1>10, <2>2, Concatenated
    <3> QED BY <3>1, <3>2, <3>3
  <2> QED BY <2>1, <2>2, <2>5, <2>7
<1> QED BY <1>8, <1>9, <1>10, DimAssumption

--------------------------------------------------------------------------------
LEMMA OwnerType ==
  ASSUME NEW r \in Rank, NEW z \in Zone
  PROVE  Owner(r, z) \in Rank \cup {Outside}
<1> DEFINE c == [k \in Axis |-> r[k] + Along(z, k)]
<1>1. /\ \A k \in Axis : c[k] \in Int /\ Extent[k] \in Nat \ {0}
  BY Ranks, GridOfRanks, AlongType, TheZones
<1>2. \A k \in Axis : c[k] % Extent[k] \in Nat /\ c[k] % Extent[k] < Extent[k]
  <2> SUFFICES ASSUME NEW k \in Axis
               PROVE  c[k] % Extent[k] \in Nat /\ c[k] % Extent[k] < Extent[k]
    OBVIOUS
  <2>1. PICK e \in Nat \ {0} : e = Extent[k]
    BY <1>1
  <2>2. PICK x \in Int : x = c[k]
    BY <1>1
  <2>3. x % e \in 0 .. e - 1
    OBVIOUS
  <2> QED BY <2>1, <2>2, <2>3
<1>3. [k \in Axis |-> c[k] % Extent[k]] \in Rank
  <2> HIDE DEF c
  <2> QED BY <1>2, Ranks
<1> QED BY <1>3 DEF Owner

\* A particle that is sent to a neighbour belongs to the same rank as before, seen from
\* there; if there is no neighbour, it has left the domain.
LEMMA Forwarded ==
  ASSUME NEW r \in Rank, NEW o \in Ops
  PROVE  LET s == Neighbour(r, o.axis, o.dir)
         IN  /\ s # Null => Owner(s, o.recv) = Owner(r, o.send)
             /\ s = Null => Owner(r, o.send) = Outside
<1> DEFINE s == Neighbour(r, o.axis, o.dir)
           a == o.axis
           c == [k \in Axis |-> r[k] + Along(o.send, k)]
           d == [k \in Axis |-> s[k] + Along(o.recv, k)]
<1>1. /\ a \in Axis /\ o.dir \in {-1, 1} /\ o.send \in Zone /\ o.recv \in Zone
      /\ Along(o.send, a) = o.dir /\ Along(o.recv, a) = 0
      /\ \A k \in Axis \ {a} : Along(o.recv, k) = Along(o.send, k)
  BY DEF Ops
<1>2. /\ r \in [Axis -> Nat] /\ \A k \in Axis : r[k] \in Int /\ Extent[k] \in Nat \ {0}
      /\ \A k \in Axis : Along(o.send, k) \in Int
  <2>1. o.send \in Int
    <3>1. o.send \in Zone
      BY <1>1
    <3>2. \A z \in Zone : z \in Int
      BY TheZones
    <3> HIDE DEF s, a, c, d
    <3> QED BY <3>1, <3>2
  <2>2. \A k \in Axis : Along(o.send, k) \in Int
    BY <2>1, AlongType
  <2> QED BY <2>2, Ranks, GridOfRanks
<1>3. c[a] = r[a] + o.dir /\ c[a] \in Int
  BY <1>1, <1>2
<1>4. CASE Periodic[a]
  <2>1. s = [r EXCEPT ![a] = c[a] % Extent[a]]
    BY <1>1, <1>3, <1>4 DEF Neighbour
  <2>2. \A k \in Axis \ {a} : d[k] = c[k]
    BY <1>1, <1>2, <2>1
  <2>3. (c[a] % Extent[a]) \in Int /\ (c[a] % Extent[a]) % Extent[a] = c[a] % Extent[a]
    <3>1. PICK e \in Nat \ {0} : e = Extent[a]
      BY <1>1, <1>2
    <3>2. PICK x \in Int : x = c[a]
      BY <1>3
    <3>3. x % e \in Int /\ (x % e) % e = x % e
      OBVIOUS
    <3> QED BY <3>1, <3>2, <3>3
  <2>4. d[a] = c[a] % Extent[a]
    <3>1. s[a] = c[a] % Extent[a]
      BY <1>1, <1>2, <2>1
    <3>2. d[a] = s[a] + 0
      BY <1>1
    <3> HIDE DEF c, d, s
    <3> QED BY <2>3, <3>1, <3>2
  <2>5. s \in Rank
    BY <1>1, <1>2, <1>4, NeighbourType, NullIsNoRank, <2>1, Ranks
  <2>6. \A k \in Axis : /\ d[k] % Extent[k] = c[k] % Extent[k]
                        /\ Periodic[k] \/ d[k] = c[k]
    <3> HIDE DEF c, d, s
    <3> QED BY <1>4, <2>2, <2>3, <2>4
  <2>7. /\ \A k \in Axis : Periodic[k] \/ (c[k] \in 0 .. Extent[k] - 1 <=>
                                           d[k] \in 0 .. Extent[k] - 1)
        /\ [k \in Axis |-> c[k] % Extent[k]] = [k \in Axis |-> d[k] % Extent[k]]
    <3> HIDE DEF c, d, s
    <3> QED BY <2>6
  <2>8. Owner(s, o.recv) = Owner(r, o.send)
    <3>1. Owner(r, o.send) = IF \A k \in Axis : Periodic[k] \/ c[k] \in 0 .. Extent[k] - 1
                             THEN [k \in Axis |-> c[k] % Extent[k]] ELSE Outside
      BY DEF Owner
    <3>2. Owner(s, o.recv) = IF \A k \in Axis : Periodic[k] \/ d[k] \in 0 .. Extent[k] - 1
                             THEN [k \in Axis |-> d[k] % Extent[k]] ELSE Outside
      BY DEF Owner
    <3> HIDE DEF c, d, s
    <3> QED BY <2>7, <3>1, <3>2
  <2>9. s # Null
    BY <2>5, NullIsNoRank
  <2> QED BY <2>8, <2>9
<1>5. CASE ~Periodic[a] /\ c[a] \in 0 .. Extent[a] - 1
  <2>1. s = [r EXCEPT ![a] = c[a]]
    BY <1>1, <1>3, <1>5 DEF Neighbour
  <2>2. \A k \in Axis : d[k] = c[k]
    BY <1>1, <1>2, <1>3, <2>1
  <2>3. Owner(s, o.recv) = Owner(r, o.send)
    BY <2>2 DEF Owner
  <2>4. s # Null
    <3>1. s = Neighbour(r, a, o.dir)
      OBVIOUS
    <3>2. s \in [Axis -> Int] /\ \A k \in Axis : s[k] \in Nat /\ s[k] < Extent[k]
      BY <1>1, <1>2, <1>3, <1>5, <2>1, Ranks
    <3>3. s \in [Axis -> Nat]
      BY <3>2
    <3> QED BY <3>2, <3>3, Ranks, NullIsNoRank
  <2> QED BY <2>3, <2>4
<1>6. CASE ~Periodic[a] /\ c[a] \notin 0 .. Extent[a] - 1
  <2>1. s = Null
    BY <1>1, <1>3, <1>6 DEF Neighbour
  <2>2. Owner(r, o.send) = Outside
    BY <1>1, <1>6 DEF Owner
  <2> QED BY <2>1, <2>2
<1> QED BY <1>4, <1>5, <1>6

\* Nothing is received where a message has been sent from before.
LEMMA NoReturn ==
  ASSUME NEW i \in 1 .. Len(Plan), NEW j \in 1 .. Len(Plan), i <= j
  PROVE  Plan[j].recv # Plan[i].send
<1>1. Plan[i] \in Ops /\ Plan[j] \in Ops /\ Plan[i].axis <= Plan[j].axis
  BY ThePlan DEF InAxisOrder
<1> DEFINE a == Plan[i].axis
<1>2. a \in Axis /\ Along(Plan[i].send, a) # 0
  BY <1>1 DEF Ops
<1>3. Along(Plan[j].recv, a) = 0
  <2>1. CASE a = Plan[j].axis
    BY <1>1, <2>1 DEF Ops
  <2>2. CASE a # Plan[j].axis
    <3>1. a < Plan[j].axis
      BY <1>1, <2>2 DEF Ops, Axis
    <3>2. Along(Plan[j].send, a) = 0 /\ Along(Plan[j].recv, a) = Along(Plan[j].send, a)
      BY <1>1, <1>2, <2>2, <3>1 DEF Ops
    <3> QED BY <3>2
  <2> QED BY <2>1, <2>2
<1> QED BY <1>2, <1>3

--------------------------------------------------------------------------------
\* A call of a rank is one operation in one round; calls come in the order of the code.
Calls == Nat \X (1 .. Len(Plan))
Earlier(a, b) == a[1] < b[1] \/ (a[1] = b[1] /\ a[2] < b[2])

\* In call c, s sends a message to d; and s has done so.
Goes(c, s, d) == /\ Neighbour(s, Plan[c[2]].axis, Plan[c[2]].dir) = d
                 /\ ~(Plan[c[2]].batched /\ s = d)
IsPosted(c, s) == Earlier(c, Turn(s)) \/ (c = Turn(s) /\ posted[s])

CommType ==
  /\ at \in [Rank -> 0 .. Len(Plan) + 1] /\ round \in [Rank -> 0 .. Rounds]
  /\ posted \in [Rank -> BOOLEAN]
  /\ chan = [p \in Rank \X Rank |-> chan[p]]
  /\ \A p \in Rank \X Rank : \E S : chan[p] \in Seq(S)
  /\ \A r \in Rank : /\ posted[r] => InPlan(r) /\ ~ToSelf(r)
                     /\ at[r] # 0 => round[r] < Rounds

\* The messages from s to d are those of the calls that s has made and d has not, all of
\* them and in their order; and d is through with a call only if s has sent for it.
MessageInv(m, s, d) ==
  /\ m.turn \in Calls /\ Goes(m.turn, s, d) /\ m.tag = Plan[m.turn[2]].tag
  /\ IsPosted(m.turn, s) /\ ~Earlier(m.turn, Turn(d))
ChannelInv(s, d) ==
  LET q == chan[<<s, d>>]
  IN  /\ \A k \in 1 .. Len(q) : MessageInv(q[k], s, d)
      /\ \A k, l \in 1 .. Len(q) : k < l => Earlier(q[k].turn, q[l].turn)
      /\ \A c \in Calls : Goes(c, s, d) /\ IsPosted(c, s) /\ ~Earlier(c, Turn(d)) =>
                            \E k \in 1 .. Len(q) : q[k].turn = c
      /\ \A c \in Calls : Goes(c, s, d) /\ Earlier(c, Turn(d)) => IsPosted(c, s)
MatchInv == CommType /\ \A s, d \in Rank : ChannelInv(s, d)

LEMMA OpType ==
  ASSUME NEW r \in Rank, InPlan(r)
  PROVE  Op(r) \in Ops /\ Op(r).axis \in Axis /\ Op(r).dir \in {-1, 1} /\ -Op(r).dir \in {-1, 1}
         /\ Dst(r) \in Rank \cup {Null} /\ Src(r) \in Rank \cup {Null}
<1>1. Op(r) \in Ops
  BY ThePlan DEF InPlan, Op
<1>2. Op(r).axis \in Axis /\ Op(r).dir \in {-1, 1}
  BY <1>1 DEF Ops
<1>3. -Op(r).dir \in {-1, 1}
  BY <1>2
<1> QED BY <1>1, <1>2, <1>3, NeighbourType DEF Dst, Src

LEMMA GoesBack ==
  ASSUME NEW c \in Calls, NEW s \in Rank, NEW d \in Rank, Goes(c, s, d)
  PROVE  Neighbour(d, Plan[c[2]].axis, -Plan[c[2]].dir) = s
<1>1. Plan[c[2]] \in Ops
  BY ThePlan DEF Calls
<1>2. Plan[c[2]].axis \in Axis /\ Plan[c[2]].dir \in {-1, 1}
  BY <1>1 DEF Ops
<1>3. d # Null
  BY NullIsNoRank
<1> QED BY <1>2, <1>3, NeighbourBack DEF Goes

LEMMA SrcSends ==
  ASSUME NEW r \in Rank, InPlan(r), ~ToSelf(r), Src(r) # Null, Turn(r) \in Calls
  PROVE  Src(r) \in Rank /\ Goes(Turn(r), Src(r), r)
<1>1. Src(r) \in Rank /\ Op(r).axis \in Axis /\ Op(r).dir \in {-1, 1}
      /\ -Op(r).dir \in {-1, 1} /\ -(-Op(r).dir) = Op(r).dir
  BY OpType
<1>2. Neighbour(Src(r), Op(r).axis, Op(r).dir) = r
  BY <1>1, NeighbourBack DEF Src
<1>3. Turn(r)[2] = at[r]
  BY DEF Turn
<1>4. ~(Op(r).batched /\ Src(r) = r)
  BY <1>2 DEF ToSelf, Dst
<1> QED BY <1>1, <1>2, <1>3, <1>4 DEF Goes, Op

\* Calls are ordered.
LEMMA CallOrder ==
  /\ \A a, b \in Nat \X Nat : ~(Earlier(a, b) /\ Earlier(b, a)) /\ ~Earlier(a, a)
  /\ \A a, b, c \in Nat \X Nat : Earlier(a, b) /\ Earlier(b, c) => Earlier(a, c)
  /\ \A a, b \in Nat \X Nat : Earlier(a, b) \/ a = b \/ Earlier(b, a)
  /\ Calls \subseteq Nat \X Nat
BY ThePlan DEF Earlier, Calls

LEMMA TurnType ==
  ASSUME CommType, NEW r \in Rank
  PROVE  /\ Turn(r) \in Nat \X Nat
         /\ InPlan(r) => Turn(r) \in Calls
         /\ Turn(r) \in Calls => InPlan(r)
<1>1. at[r] \in Nat /\ round[r] \in Nat /\ Len(Plan) \in Nat
  BY ThePlan, ParticleAssumption DEF CommType
<1> QED BY <1>1 DEF Turn, InPlan, Calls

\* A channel is not concerned by steps that change neither it nor the calls it is for.
LEMMA QuietChannel ==
  ASSUME NEW s \in Rank, NEW d \in Rank, ChannelInv(s, d), chan'[<<s, d>>] = chan[<<s, d>>],
         \A c \in Calls : Goes(c, s, d) =>
           /\ IsPosted(c, s)' <=> IsPosted(c, s)
           /\ Earlier(c, Turn(d)') <=> Earlier(c, Turn(d))
  PROVE  ChannelInv(s, d)'
BY DEF ChannelInv, MessageInv, Goes

\* How a rank goes on from a call.
LEMMA Advance ==
  ASSUME NEW c \in Calls, NEW n \in Nat, NEW i \in Nat
  PROVE  /\ Earlier(c, <<n, i + 1>>) <=> Earlier(c, <<n, i>>) \/ c = <<n, i>>
         /\ Earlier(c, <<n + 1, 0>>) <=> Earlier(c, <<n, Len(Plan) + 1>>)
         /\ c # <<n, 0>> /\ c # <<n, Len(Plan) + 1>>
<1>1. Len(Plan) \in Nat
  BY ThePlan
<1>2. PICK m \in Nat, j \in 1 .. Len(Plan) : c = <<m, j>>
  BY DEF Calls
<1>3. c[1] = m /\ c[2] = j
  BY <1>2
<1>4. /\ Earlier(c, <<n, i + 1>>) <=> m < n \/ (m = n /\ j < i + 1)
      /\ Earlier(c, <<n, i>>) <=> m < n \/ (m = n /\ j < i)
      /\ Earlier(c, <<n + 1, 0>>) <=> m < n + 1 \/ (m = n + 1 /\ j < 0)
      /\ Earlier(c, <<n, Len(Plan) + 1>>) <=> m < n \/ (m = n /\ j < Len(Plan) + 1)
  BY <1>3 DEF Earlier
<1>5. /\ c = <<n, i>> <=> m = n /\ j = i
      /\ c # <<n, 0>> /\ c # <<n, Len(Plan) + 1>>
  BY <1>1, <1>2
<1> QED BY <1>1, <1>4, <1>5

\* Taking a message out of a sequence of messages, in particular the first.
LEMMA TakenOut ==
  ASSUME NEW S, NEW s \in Seq(S), NEW k \in 1 .. Len(s)
  PROVE  /\ RemoveAt(s, k) \in Seq(S)
         /\ k = 1 => /\ Len(RemoveAt(s, k)) = Len(s) - 1
                     /\ \A i \in 1 .. Len(s) - 1 : RemoveAt(s, k)[i] = s[i + 1]
<1> DEFINE a == SubSeq(s, 1, k - 1)
           b == SubSeq(s, k + 1, Len(s))
<1>1. \A i \in 1 .. Len(s) : s[i] \in S
  OBVIOUS
<1>2. a \in Seq(S)
  BY <1>1, SubSeqProperties
<1>3. /\ b \in Seq(S) /\ Len(b) = IF k + 1 <= Len(s) THEN Len(s) - (k + 1) + 1 ELSE 0
      /\ \A i \in 1 .. Len(s) - (k + 1) + 1 : b[i] = s[k + 1 + i - 1]
  <2>1. \A i \in k + 1 .. Len(s) : s[i] \in S
    BY <1>1
  <2> QED BY <2>1, SubSeqProperties
<1>4. k = 1 => a = <<>>
  BY SubSeqEmpty
<1>5. RemoveAt(s, k) = a \o b
  BY DEF RemoveAt
<1>6. k = 1 => RemoveAt(s, k) = b
  <2> HIDE DEF a, b
  <2> QED BY <1>2, <1>3, <1>4, <1>5
<1>7. RemoveAt(s, k) \in Seq(S)
  <2> HIDE DEF a, b
  <2> QED BY <1>2, <1>3, <1>5
<1>8. k = 1 => /\ Len(b) = Len(s) - 1
               /\ \A i \in 1 .. Len(s) - 1 : b[i] = s[i + 1]
  <2> HIDE DEF b
  <2> SUFFICES ASSUME k = 1
               PROVE  Len(b) = Len(s) - 1 /\ \A i \in 1 .. Len(s) - 1 : b[i] = s[i + 1]
    OBVIOUS
  <2>1. Len(s) \in Nat /\ Len(s) >= 1
    OBVIOUS
  <2>2. ASSUME NEW i \in 1 .. Len(s) - 1
        PROVE  b[i] = s[i + 1]
    <3>1. i \in 1 .. Len(s) - (k + 1) + 1 /\ k + 1 + i - 1 = i + 1
      BY <2>1
    <3> QED BY <1>3, <3>1
  <2>3. Len(b) = Len(s) - 1
    <3>1. PICK n \in Nat : n = Len(s) /\ n >= 1
      BY <2>1
    <3>2. Len(b) = IF 1 + 1 <= n THEN n - (1 + 1) + 1 ELSE 0
      BY <1>3, <3>1
    <3> QED BY <3>1, <3>2
  <2> QED BY <2>2, <2>3
<1> QED BY <1>6, <1>7, <1>8

LEMMA CommTypeStep ==
  ASSUME CommType, [Next]_vars
  PROVE  CommType'
<1> USE DEF CommType
<1>1. Len(Plan) \in Nat /\ Rounds \in Nat
  BY ThePlan, ParticleAssumption
<1>2. ASSUME NEW r \in Rank, at[r] # 0, InPlan(r), at' = [at EXCEPT ![r] = @ + 1],
             round' = round, posted' = [posted EXCEPT ![r] = FALSE]
      PROVE  /\ at' \in [Rank -> 0 .. Len(Plan) + 1] /\ round' \in [Rank -> 0 .. Rounds]
             /\ posted' \in [Rank -> BOOLEAN]
             /\ \A s \in Rank : /\ posted'[s] => InPlan(s)' /\ ~ToSelf(s)'
                                /\ at'[s] # 0 => round'[s] < Rounds
  BY <1>1, <1>2 DEF InPlan, ToSelf, Op, Src, Dst
<1>3. ASSUME NEW r \in Rank, Pack(r)
      PROVE  CommType'
  <2>1. at[r] = 0 /\ round[r] < Rounds /\ at' = [at EXCEPT ![r] = 1]
        /\ UNCHANGED <<posted, round, chan>>
    BY <1>3 DEF Pack
  <2> QED BY <1>1, <2>1 DEF InPlan, ToSelf, Op, Src, Dst
<1>4. ASSUME NEW r \in Rank, CopyToSelf(r)
      PROVE  CommType'
  <2>1. at' = [at EXCEPT ![r] = @ + 1] /\ UNCHANGED <<posted, round, chan>> /\ InPlan(r)
        /\ ToSelf(r)
    BY <1>4 DEF CopyToSelf, Receive
  <2>2. posted' = [posted EXCEPT ![r] = FALSE]
    BY <2>1
  <2>3. at[r] # 0
    BY <2>1, <1>1 DEF InPlan
  <2> QED BY <1>2, <2>1, <2>2, <2>3
<1>5. ASSUME NEW r \in Rank, PostSend(r)
      PROVE  CommType'
  <2> DEFINE data == Content(ToHost(r)[r][Op(r).send], num[r][Op(r).send])
             m == [tag |-> Op(r).tag, data |-> data, turn |-> Turn(r)]
  <2>1. InPlan(r) /\ ~ToSelf(r) /\ posted' = [posted EXCEPT ![r] = TRUE]
        /\ UNCHANGED <<at, round>>
    BY <1>5 DEF PostSend
  <2>2. chan' = IF Dst(r) = Null THEN chan
                ELSE [chan EXCEPT ![<<r, Dst(r)>>] = Append(@, m)]
    BY <1>5 DEF PostSend, Post
  <2>3. /\ posted' \in [Rank -> BOOLEAN]
        /\ \A s \in Rank : /\ posted'[s] => InPlan(s)' /\ ~ToSelf(s)'
                           /\ at'[s] # 0 => round'[s] < Rounds
    BY <2>1 DEF InPlan, ToSelf, Op, Src, Dst
  <2>4. CASE Dst(r) = Null
    BY <2>1, <2>2, <2>3, <2>4
  <2>5. CASE Dst(r) # Null
    <3> DEFINE p == <<r, Dst(r)>>
    <3>1. p \in Rank \X Rank
      BY <2>1, <2>5, OpType
    <3>2. PICK S : chan[p] \in Seq(S)
      BY <3>1
    <3>3. Append(chan[p], m) \in Seq(S \cup {m})
      <4> HIDE DEF m
      <4>1. chan[p] \in Seq(S \cup {m})
        BY <3>2
      <4> QED BY <4>1
    <3>4. /\ chan' = [q \in Rank \X Rank |-> IF q = p THEN Append(chan[p], m) ELSE chan[q]]
      <4> HIDE DEF m
      <4> QED BY <2>2, <2>5, <3>1
    <3>5. \A q \in Rank \X Rank : \E T : chan'[q] \in Seq(T)
      <4> HIDE DEF m, p
      <4> QED BY <3>3, <3>4
    <3>6. chan' = [q \in Rank \X Rank |-> chan'[q]]
      <4> HIDE DEF m, p
      <4> QED BY <3>4
    <3> QED BY <2>1, <2>3, <3>5, <3>6
  <2> QED BY <2>4, <2>5
<1>6. ASSUME NEW r \in Rank, CompleteReceive(r)
      PROVE  CommType'
  <2>1. InPlan(r) /\ at' = [at EXCEPT ![r] = @ + 1] /\ round' = round
        /\ posted' = [posted EXCEPT ![r] = FALSE]
    BY <1>6 DEF CompleteReceive, Receive, MayReceive
  <2>2. at[r] # 0
    BY <2>1, <1>1 DEF InPlan
  <2>3. /\ chan' = [p \in Rank \X Rank |-> chan'[p]]
        /\ \A p \in Rank \X Rank : \E S : chan'[p] \in Seq(S)
    <3>1. CASE UNCHANGED chan
      BY <3>1
    <3>2. CASE chan' # chan
      <4> DEFINE p == <<Src(r), r>>
      <4>1. PICK k \in Receivable(chan, Src(r), r, Op(r).tag) :
              chan' = Taken(chan, Src(r), r, k)
        BY <1>6, <3>2 DEF CompleteReceive
      <4>2. Src(r) # Null
        BY <1>6, <3>2 DEF CompleteReceive
      <4>3. p \in Rank \X Rank
        BY <2>1, <4>2, OpType
      <4>4. PICK S : chan[p] \in Seq(S)
        BY <4>3
      <4>5. k \in 1 .. Len(chan[p])
        BY <4>1, <4>4 DEF Receivable
      <4>6. RemoveAt(chan[p], k) \in Seq(S)
        <5> HIDE DEF p
        <5> QED BY <4>4, <4>5, TakenOut
      <4>7. chan' = [q \in Rank \X Rank |-> IF q = p THEN RemoveAt(chan[p], k) ELSE chan[q]]
        BY <4>1, <4>3 DEF Taken
      <4> HIDE DEF p
      <4> QED BY <4>6, <4>7
    <3> QED BY <3>1, <3>2
  <2> QED BY <1>2, <2>1, <2>2, <2>3
<1>7. ASSUME NEW r \in Rank, Unpack(r)
      PROVE  CommType'
  <2>1. at[r] = Len(Plan) + 1 /\ at' = [at EXCEPT ![r] = 0]
        /\ round' = [round EXCEPT ![r] = @ + 1] /\ UNCHANGED <<posted, chan>>
    BY <1>7 DEF Unpack
  <2>2. at[r] # 0 /\ round[r] < Rounds /\ ~InPlan(r)
    BY <1>1, <2>1 DEF InPlan
  <2>3. ~posted[r]
    BY <2>2
  <2>4. \A s \in Rank : posted'[s] => InPlan(s)' /\ ~ToSelf(s)'
    BY <2>1, <2>3 DEF InPlan, ToSelf, Op, Src, Dst
  <2>5. at' \in [Rank -> 0 .. Len(Plan) + 1] /\ round' \in [Rank -> 0 .. Rounds]
        /\ \A s \in Rank : at'[s] # 0 => round'[s] < Rounds
    BY <1>1, <2>1, <2>2
  <2> QED BY <2>1, <2>4, <2>5
<1>8. CASE UNCHANGED vars
  BY <1>8 DEF vars, InPlan, ToSelf, Op, Src, Dst
<1> QED BY <1>3, <1>4, <1>5, <1>6, <1>7, <1>8 DEF Next, Step

LEMMA GoesOn ==
  ASSUME CommType, NEW r \in Rank, at' = [at EXCEPT ![r] = @ + 1], round' = round,
         posted' = [posted EXCEPT ![r] = FALSE], NEW c \in Calls, NEW x \in Rank
  PROVE  /\ Earlier(c, Turn(x)') <=> Earlier(c, Turn(x)) \/ (x = r /\ c = Turn(r))
         /\ IsPosted(c, x)' <=> IsPosted(c, x) \/ (x = r /\ c = Turn(r))
<1>1. round[r] \in Nat /\ at[r] \in Nat /\ posted' \in [Rank -> BOOLEAN]
  BY ThePlan, ParticleAssumption DEF CommType
<1>2. CASE x = r
  <2>1. Turn(r) = <<round[r], at[r]>> /\ Turn(r)' = <<round[r], at[r] + 1>> /\ ~posted'[r]
    BY <1>1 DEF Turn, CommType
  <2>2. Earlier(c, <<round[r], at[r] + 1>>) <=>
          Earlier(c, <<round[r], at[r]>>) \/ c = <<round[r], at[r]>>
    BY <1>1, Advance
  <2>3. Earlier(c, Turn(x)') <=> Earlier(c, Turn(x)) \/ c = Turn(x)
    BY <1>2, <2>1, <2>2
  <2>4. IsPosted(c, x)' <=> Earlier(c, Turn(x)')
    BY <1>2, <2>1 DEF IsPosted
  <2> QED BY <1>2, <2>3, <2>4 DEF IsPosted
<1>3. CASE x # r
  <2>1. Turn(x)' = Turn(x) /\ posted'[x] = posted[x]
    BY <1>3 DEF Turn, CommType
  <2> QED BY <1>3, <2>1 DEF IsPosted
<1> QED BY <1>2, <1>3

\* Every step of a rank leaves the channels as the invariant says.
LEMMA PackMatch ==
  ASSUME MatchInv, CommType', NEW r \in Rank, Pack(r)
  PROVE  MatchInv'
<1> SUFFICES ASSUME NEW s \in Rank, NEW d \in Rank
             PROVE  ChannelInv(s, d)'
  BY DEF MatchInv
<1>1. at[r] = 0 /\ at' = [at EXCEPT ![r] = @ + 1] /\ UNCHANGED <<round, chan>>
      /\ posted' = posted
  BY DEF Pack, MatchInv, CommType
<1>2. ~posted[r] /\ posted \in [Rank -> BOOLEAN]
  BY <1>1 DEF MatchInv, CommType, InPlan
<1>3. posted' = [posted EXCEPT ![r] = FALSE]
  BY <1>1, <1>2
<1>4. \A c \in Calls : c # Turn(r)
  BY <1>1 DEF Turn, Calls
<1>5. \A c \in Calls, x \in Rank :
        /\ Earlier(c, Turn(x)') <=> Earlier(c, Turn(x))
        /\ IsPosted(c, x)' <=> IsPosted(c, x)
  BY <1>1, <1>3, <1>4, GoesOn DEF MatchInv
<1>6. chan'[<<s, d>>] = chan[<<s, d>>] /\ ChannelInv(s, d)
  BY <1>1 DEF MatchInv
<1> QED BY <1>5, <1>6, QuietChannel

LEMMA CopyToSelfMatch ==
  ASSUME MatchInv, CommType', NEW r \in Rank, CopyToSelf(r)
  PROVE  MatchInv'
<1> SUFFICES ASSUME NEW s \in Rank, NEW d \in Rank
             PROVE  ChannelInv(s, d)'
  BY DEF MatchInv
<1>1. /\ at' = [at EXCEPT ![r] = @ + 1] /\ UNCHANGED <<round, chan>>
      /\ posted' = posted /\ InPlan(r) /\ ToSelf(r)
  BY DEF CopyToSelf, Receive
<1>2. ~posted[r] /\ posted \in [Rank -> BOOLEAN]
  BY <1>1 DEF MatchInv, CommType
<1>3. posted' = [posted EXCEPT ![r] = FALSE]
  BY <1>1, <1>2
<1>4. ASSUME NEW c \in Calls, Goes(c, s, d), c = Turn(r)
      PROVE  s # r /\ d # r
  <2>1. c[2] = at[r]
    BY <1>4 DEF Turn
  <2>2. s # r
    BY <1>1, <1>4, <2>1 DEF Goes, ToSelf, Op, Dst
  <2>3. Neighbour(d, Plan[c[2]].axis, -Plan[c[2]].dir) = s
    BY <1>4, GoesBack
  <2>4. d # r
    BY <1>1, <2>1, <2>2, <2>3 DEF ToSelf, Op, Src
  <2> QED BY <2>2, <2>4
<1>5. \A c \in Calls : Goes(c, s, d) =>
        /\ Earlier(c, Turn(d)') <=> Earlier(c, Turn(d))
        /\ IsPosted(c, s)' <=> IsPosted(c, s)
  BY <1>1, <1>3, <1>4, GoesOn DEF MatchInv
<1>6. chan'[<<s, d>>] = chan[<<s, d>>] /\ ChannelInv(s, d)
  BY <1>1 DEF MatchInv
<1> QED BY <1>5, <1>6, QuietChannel

LEMMA UnpackMatch ==
  ASSUME MatchInv, CommType', NEW r \in Rank, Unpack(r)
  PROVE  MatchInv'
<1> SUFFICES ASSUME NEW s \in Rank, NEW d \in Rank
             PROVE  ChannelInv(s, d)'
  BY DEF MatchInv
<1>1. /\ at[r] = Len(Plan) + 1 /\ at' = [at EXCEPT ![r] = 0]
      /\ round' = [round EXCEPT ![r] = @ + 1] /\ UNCHANGED <<posted, chan>>
  BY DEF Unpack
<1>2. round[r] \in Nat /\ at \in [Rank -> 0 .. Len(Plan) + 1] /\ round \in [Rank -> 0 .. Rounds]
  BY ParticleAssumption DEF MatchInv, CommType
<1>3. ~posted[r] /\ ~posted'[r]
  <2>1. ~InPlan(r)
    BY <1>1, ThePlan DEF InPlan
  <2> QED BY <1>1, <2>1 DEF MatchInv, CommType
<1>4. ASSUME NEW c \in Calls, NEW x \in Rank
      PROVE  /\ Earlier(c, Turn(x)') <=> Earlier(c, Turn(x))
             /\ IsPosted(c, x)' <=> IsPosted(c, x)
  <2>1. CASE x = r
    <3>1. Turn(r) = <<round[r], Len(Plan) + 1>> /\ Turn(r)' = <<round[r] + 1, 0>>
      BY <1>1, <1>2 DEF Turn
    <3>2. Earlier(c, <<round[r] + 1, 0>>) <=> Earlier(c, <<round[r], Len(Plan) + 1>>)
      <4>1. 0 \in Nat
        OBVIOUS
      <4> QED BY <1>2, <4>1, Advance
    <3> QED BY <1>3, <2>1, <3>1, <3>2 DEF IsPosted
  <2>2. CASE x # r
    <3>1. Turn(x)' = Turn(x) /\ posted'[x] = posted[x]
      BY <1>1, <1>2, <2>2 DEF Turn
    <3> QED BY <3>1 DEF IsPosted
  <2> QED BY <2>1, <2>2
<1>5. chan'[<<s, d>>] = chan[<<s, d>>] /\ ChannelInv(s, d)
  BY <1>1 DEF MatchInv
<1> QED BY <1>4, <1>5, QuietChannel

\* The message r sends becomes the last of its channel.
LEMMA PostSendMatch ==
  ASSUME MatchInv, CommType', NEW r \in Rank, PostSend(r)
  PROVE  MatchInv'
<1> SUFFICES ASSUME NEW s \in Rank, NEW d \in Rank
             PROVE  ChannelInv(s, d)'
  BY DEF MatchInv
<1>0. PICK m : m = [tag |-> Op(r).tag, turn |-> Turn(r),
                    data |-> Content(ToHost(r)[r][Op(r).send], num[r][Op(r).send])]
  OBVIOUS
<1>1. /\ InPlan(r) /\ ~ToSelf(r) /\ ~posted[r] /\ posted' = [posted EXCEPT ![r] = TRUE]
      /\ UNCHANGED <<at, round>>
      /\ chan' = IF Dst(r) = Null THEN chan ELSE [chan EXCEPT ![<<r, Dst(r)>>] = Append(@, m)]
  BY <1>0 DEF PostSend, Post
<1>2. /\ posted \in [Rank -> BOOLEAN] /\ CommType /\ ChannelInv(s, d)
      /\ \A x \in Rank : Turn(x)' = Turn(x)
  BY <1>1 DEF MatchInv, CommType, Turn
<1>3. PICK c0 \in Calls : c0 = Turn(r) /\ c0[2] = at[r]
  BY <1>1, <1>2, TurnType DEF Turn
<1>4. \A c \in Calls, x \in Rank : /\ IsPosted(c, x)' <=> IsPosted(c, x) \/ (x = r /\ c = c0)
                                   /\ Earlier(c, Turn(x)') <=> Earlier(c, Turn(x))
  BY <1>1, <1>2, <1>3 DEF IsPosted
<1>5. \A x \in Rank : Goes(c0, r, x) => x = Dst(r)
  BY <1>3 DEF Goes, Dst, Op
<1>6. CASE s = r /\ d = Dst(r)
  <2>0. PICK q : q = chan[<<r, d>>]
    OBVIOUS
  <2>1. PICK S : q \in Seq(S)
    BY <1>2, <2>0 DEF CommType
  <2>2. chan'[<<s, d>>] = Append(q, m)
    <3>1. Dst(r) # Null
      BY <1>6, NullIsNoRank
    <3>2. <<r, d>> \in DOMAIN chan
      BY <1>2 DEF CommType
    <3> QED BY <1>1, <1>6, <2>0, <3>1, <3>2
  <2>3. /\ Len(chan'[<<s, d>>]) = Len(q) + 1 /\ Len(q) \in Nat
        /\ \A k \in 1 .. Len(q) : chan'[<<s, d>>][k] = q[k]
        /\ chan'[<<s, d>>][Len(q) + 1] = m
    <3>1. q \in Seq(S \cup {m}) /\ m \in S \cup {m}
      BY <2>1
    <3> QED BY <2>2, <3>1, AppendProperties
  <2>4. Goes(c0, r, d)
    <3>1. Neighbour(r, Op(r).axis, Op(r).dir) = d /\ d # Null
      BY <1>6, NullIsNoRank DEF Dst
    <3>2. Op(r).axis \in Axis /\ Op(r).dir \in {-1, 1}
      BY <1>1, OpType
    <3>3. Neighbour(d, Op(r).axis, -Op(r).dir) = r
      BY <3>1, <3>2, NeighbourBack
    <3>4. ~(Op(r).batched /\ r = d)
      BY <1>1, <3>1, <3>3 DEF ToSelf, Src, Dst
    <3> QED BY <1>3, <3>1, <3>4 DEF Goes, Op
  <2>5. ~IsPosted(c0, r)
    BY <1>1, <1>2, <1>3, CallOrder, TurnType DEF IsPosted
  <2>6. ~Earlier(c0, Turn(d))
    BY <1>2, <1>3, <1>6, <2>4, <2>5 DEF ChannelInv
  <2>7. MessageInv(m, r, d)'
    <3>1. /\ m.turn = c0 /\ m.tag = Plan[c0[2]].tag
      BY <1>0, <1>3 DEF Op
    <3>2. IsPosted(c0, r)' /\ ~Earlier(c0, Turn(d)')
      BY <1>3, <1>4, <2>6
    <3>3. Goes(c0, r, d)'
      BY <2>4 DEF Goes
    <3> QED BY <1>3, <2>4, <3>1, <3>2, <3>3 DEF MessageInv
  <2>8. \A k \in 1 .. Len(q) : MessageInv(q[k], r, d) /\ MessageInv(q[k], r, d)'
    <3> SUFFICES ASSUME NEW k \in 1 .. Len(q)
                 PROVE  MessageInv(q[k], r, d) /\ MessageInv(q[k], r, d)'
      OBVIOUS
    <3>1. MessageInv(q[k], r, d)
      BY <1>2, <1>6, <2>0 DEF ChannelInv
    <3> QED BY <1>4, <3>1 DEF MessageInv, Goes
  <2>9. \A k \in 1 .. Len(q) : Earlier(q[k].turn, c0)
    <3> SUFFICES ASSUME NEW k \in 1 .. Len(q) PROVE Earlier(q[k].turn, c0)
      OBVIOUS
    <3>1. IsPosted(q[k].turn, r)
      BY <2>8 DEF MessageInv
    <3> QED BY <1>1, <1>3, <3>1 DEF IsPosted
  <2>16. PICK u : u = chan'[<<s, d>>]
    OBVIOUS
  <2> DEFINE n == Len(q) + 1
  <2>10. /\ Len(u) = n /\ n \in Nat /\ u[n] = m /\ m.turn = c0
         /\ \A k \in 1 .. Len(u) : k = n \/ (k \in 1 .. Len(q) /\ u[k] = q[k])
         /\ \A k \in 1 .. Len(q) : k \in 1 .. Len(u) /\ u[k] = q[k]
    <3>1. m.turn = c0
      BY <1>0, <1>3
    <3>2. \A k \in 1 .. Len(q) + 1 : k = Len(q) + 1 \/ k \in 1 .. Len(q)
      BY <2>3
    <3>3. \A k \in 1 .. Len(q) : k \in 1 .. Len(q) + 1
      BY <2>3
    <3> QED BY <2>3, <2>16, <3>1, <3>2, <3>3
  <2> HIDE DEF n
  <2>11. \A k \in 1 .. Len(u) : MessageInv(u[k], r, d)'
    BY <2>7, <2>8, <2>10
  <2>12. \A k, l \in 1 .. Len(u) : k < l => Earlier(u[k].turn, u[l].turn)
    <3> SUFFICES ASSUME NEW k \in 1 .. Len(u), NEW l \in 1 .. Len(u), k < l
                 PROVE  Earlier(u[k].turn, u[l].turn)
      OBVIOUS
    <3>1. k \in 1 .. Len(q) /\ u[k] = q[k]
      BY <2>10 DEF n
    <3>2. CASE l = n
      BY <2>9, <2>10, <3>1, <3>2
    <3>3. CASE l # n
      BY <1>2, <1>6, <2>0, <2>10, <3>1, <3>3 DEF ChannelInv
    <3> QED BY <3>2, <3>3
  <2>13. ASSUME NEW c \in Calls, Goes(c, r, d), IsPosted(c, r)', ~Earlier(c, Turn(d)')
         PROVE  \E k \in 1 .. Len(u) : u[k].turn = c
    <3>1. CASE c = c0
      BY <2>10, <3>1 DEF n
    <3>2. CASE c # c0
      <4>1. IsPosted(c, r) /\ ~Earlier(c, Turn(d))
        BY <1>4, <2>13, <3>2
      <4>2. \E k \in 1 .. Len(q) : q[k].turn = c
        BY <1>2, <1>6, <2>0, <2>13, <4>1 DEF ChannelInv
      <4> QED BY <2>10, <4>2
    <3> QED BY <3>1, <3>2
  <2>14. \A c \in Calls : Goes(c, r, d) /\ Earlier(c, Turn(d)') => IsPosted(c, r)'
    BY <1>2, <1>4, <1>6 DEF ChannelInv
  <2>15. u = chan[<<s, d>>]'
    BY <2>16
  <2> QED BY <1>6, <2>11, <2>12, <2>13, <2>14, <2>15 DEF ChannelInv, Goes
<1>7. CASE ~(s = r /\ d = Dst(r))
  <2>1. chan'[<<s, d>>] = chan[<<s, d>>]
    <3> QED BY <1>1, <1>2, <1>7 DEF CommType
  <2>2. \A c \in Calls : Goes(c, s, d) =>
           /\ IsPosted(c, s)' <=> IsPosted(c, s)
           /\ Earlier(c, Turn(d)') <=> Earlier(c, Turn(d))
    BY <1>4, <1>5, <1>7
  <2> QED BY <1>2, <2>1, <2>2, QuietChannel
<1> QED BY <1>6, <1>7

\* The message r can receive is the first of the channel, and of r's own call: its source
\* can have sent later ones only after this one, which nobody but r takes.
LEMMA FirstOne ==
  ASSUME MatchInv, NEW r \in Rank, InPlan(r), posted[r], Src(r) # Null,
         NEW k \in DOMAIN chan[<<Src(r), r>>]
  PROVE  /\ Receivable(chan, Src(r), r, Op(r).tag) = {1}
         /\ 1 \in DOMAIN chan[<<Src(r), r>>]
         /\ chan[<<Src(r), r>>][1].turn = Turn(r)
<1> DEFINE s == Src(r)
           q == chan[<<s, r>>]
           c0 == Turn(r)
<1>1. CommType /\ ~ToSelf(r)
  BY DEF MatchInv, CommType
<1>2. c0 \in Calls /\ c0[2] = at[r]
  BY <1>1, TurnType DEF Turn
<1>3. s \in Rank /\ Goes(c0, s, r)
  BY <1>1, <1>2, SrcSends
<1>4. ChannelInv(s, r)
  BY <1>3 DEF MatchInv
<1>5. DOMAIN q = 1 .. Len(q) /\ Len(q) \in Nat
  <2>1. PICK S : q \in Seq(S)
    BY <1>1, <1>3 DEF CommType
  <2> HIDE DEF q
  <2> QED BY <2>1
<1> HIDE DEF s, q, c0
<1>6. k \in 1 .. Len(q)
  BY <1>5 DEF q, s
<1>7. \A l \in 1 .. Len(q) : MessageInv(q[l], s, r)
  BY <1>4 DEF ChannelInv, q
<1>8. ~Earlier(c0, c0)
  BY <1>2, CallOrder
<1>9. IsPosted(c0, s)
  <2>1. q[k].turn \in Calls /\ IsPosted(q[k].turn, s) /\ ~Earlier(q[k].turn, c0)
    BY <1>6, <1>7 DEF MessageInv, c0
  <2>2. CASE q[k].turn = c0
    BY <2>1, <2>2
  <2>3. CASE q[k].turn # c0
    <3>1. Earlier(c0, q[k].turn)
      BY <1>2, <2>1, <2>3, CallOrder
    <3>2. Turn(s) \in Nat \X Nat
      BY <1>1, <1>3, TurnType
    <3>3. Earlier(q[k].turn, Turn(s)) \/ q[k].turn = Turn(s)
      BY <2>1 DEF IsPosted
    <3>4. Earlier(c0, Turn(s))
      BY <1>2, <2>1, <3>1, <3>2, <3>3, CallOrder
    <3> QED BY <3>4 DEF IsPosted
  <2> QED BY <2>2, <2>3
<1>10. PICK j \in 1 .. Len(q) : q[j].turn = c0
  BY <1>2, <1>3, <1>4, <1>8, <1>9 DEF ChannelInv, q, c0
<1>11. j = 1
  <2> SUFFICES ASSUME j # 1 PROVE FALSE
    OBVIOUS
  <2>1. 1 \in 1 .. Len(q) /\ 1 < j
    BY <1>5, <1>10
  <2>2. Earlier(q[1].turn, c0)
    BY <1>4, <1>10, <2>1 DEF ChannelInv, q
  <2>3. ~Earlier(q[1].turn, c0)
    BY <1>7, <2>1 DEF MessageInv, c0
  <2> QED BY <2>2, <2>3
<1>12. 1 \in 1 .. Len(q) /\ q[1].turn = c0 /\ q[1].tag = Op(r).tag
  BY <1>2, <1>7, <1>10, <1>11 DEF MessageInv, Op
<1>13. Receivable(chan, s, r, Op(r).tag) = {1}
  <2>1. ASSUME NEW l \in Receivable(chan, s, r, Op(r).tag)
        PROVE  l = 1
    <3>1. l \in 1 .. Len(q) /\ \A i \in 1 .. l - 1 : q[i].tag # Op(r).tag
      BY <1>5, <2>1 DEF Receivable, q
    <3>2. ~(1 \in 1 .. l - 1)
      BY <1>12, <3>1
    <3> QED BY <3>1, <3>2
  <2>2. 1 \in Receivable(chan, s, r, Op(r).tag)
    <3>1. \A i \in 1 .. 1 - 1 : FALSE
      OBVIOUS
    <3> QED BY <1>5, <1>12, <3>1 DEF Receivable, q
  <2> QED BY <2>1, <2>2
<1> QED BY <1>5, <1>12, <1>13 DEF q, s, c0

\* The message r receives leaves the front of its channel, and r the call it is for.
LEMMA CompleteReceiveMatch ==
  ASSUME MatchInv, CommType', NEW r \in Rank, CompleteReceive(r)
  PROVE  MatchInv'
<1> SUFFICES ASSUME NEW s \in Rank, NEW d \in Rank
             PROVE  ChannelInv(s, d)'
  BY DEF MatchInv
<1>1. /\ InPlan(r) /\ posted[r] /\ posted' = [posted EXCEPT ![r] = FALSE]
      /\ at' = [at EXCEPT ![r] = @ + 1] /\ round' = round
  BY DEF CompleteReceive, MayReceive, Receive
<1>2. CommType /\ ChannelInv(s, d) /\ ~ToSelf(r)
  BY <1>1 DEF MatchInv, CommType
<1>3. PICK c0 \in Calls : c0 = Turn(r) /\ c0[2] = at[r]
  BY <1>1, <1>2, TurnType DEF Turn
<1>4. \A c \in Calls, x \in Rank :
        /\ IsPosted(c, x)' <=> IsPosted(c, x)
        /\ Earlier(c, Turn(x)') <=> Earlier(c, Turn(x)) \/ (x = r /\ c = c0)
  <2> SUFFICES ASSUME NEW c \in Calls, NEW x \in Rank
               PROVE  /\ IsPosted(c, x)' <=> IsPosted(c, x)
                      /\ Earlier(c, Turn(x)') <=> Earlier(c, Turn(x)) \/ (x = r /\ c = c0)
    OBVIOUS
  <2>1. /\ Earlier(c, Turn(x)') <=> Earlier(c, Turn(x)) \/ (x = r /\ c = Turn(r))
        /\ IsPosted(c, x)' <=> IsPosted(c, x) \/ (x = r /\ c = Turn(r))
    BY <1>1, <1>2, GoesOn
  <2>2. c = Turn(r) => IsPosted(c, r)
    BY <1>1 DEF IsPosted
  <2> QED BY <1>3, <2>1, <2>2
<1>5. \A x \in Rank : Goes(c0, x, r) => x = Src(r)
  <2> SUFFICES ASSUME NEW x \in Rank, Goes(c0, x, r) PROVE x = Src(r)
    OBVIOUS
  <2>1. Neighbour(r, Plan[c0[2]].axis, -Plan[c0[2]].dir) = x
    BY GoesBack
  <2> QED BY <1>3, <2>1 DEF Src, Op
<1>6. CASE s = Src(r) /\ d = r
  <2>0. PICK q : q = chan[<<s, d>>]
    OBVIOUS
  <2>1. PICK S : q \in Seq(S)
    BY <1>2, <2>0 DEF CommType
  <2>2. Src(r) # Null
    BY <1>6, NullIsNoRank
  <2>3. PICK k \in Receivable(chan, Src(r), r, Op(r).tag) : chan' = Taken(chan, Src(r), r, k)
    BY <2>2 DEF CompleteReceive
  <2>4. k \in DOMAIN chan[<<Src(r), r>>]
    BY <2>3 DEF Receivable
  <2>5. k = 1 /\ 1 \in DOMAIN q /\ q[1].turn = c0
    BY <1>1, <1>3, <1>6, <2>0, <2>2, <2>3, <2>4, FirstOne
  <2>6. PICK u : u = RemoveAt(q, 1)
    OBVIOUS
  <2>7. chan'[<<s, d>>] = u
    <3>1. <<s, d>> \in DOMAIN chan
      BY <1>2 DEF CommType
    <3> QED BY <1>6, <2>0, <2>3, <2>5, <2>6, <3>1 DEF Taken
  <2>8. PICK n \in Nat : n = Len(q) /\ 1 \in 1 .. n
    BY <2>1, <2>5
  <2>9. u \in Seq(S) /\ Len(u) = n - 1 /\ \A i \in 1 .. n - 1 : u[i] = q[i + 1]
    BY <2>1, <2>6, <2>8, TakenOut
  <2>10. /\ \A i \in 1 .. n : MessageInv(q[i], s, d)
         /\ \A i, l \in 1 .. n : i < l => Earlier(q[i].turn, q[l].turn)
    BY <1>2, <2>0, <2>8 DEF ChannelInv
  <2>11. \A i \in 1 .. Len(u) : /\ i + 1 \in 1 .. n /\ u[i] = q[i + 1]
                                /\ Earlier(c0, u[i].turn)
    <3> SUFFICES ASSUME NEW i \in 1 .. Len(u)
                 PROVE  i + 1 \in 1 .. n /\ u[i] = q[i + 1] /\ Earlier(c0, u[i].turn)
      OBVIOUS
    <3>1. i + 1 \in 1 .. n /\ u[i] = q[i + 1] /\ 1 < i + 1
      BY <2>8, <2>9
    <3> QED BY <2>5, <2>8, <2>10, <3>1
  <2>12. \A i \in 1 .. Len(u) : MessageInv(u[i], s, d)'
    <3> SUFFICES ASSUME NEW i \in 1 .. Len(u) PROVE MessageInv(u[i], s, d)'
      OBVIOUS
    <3>1. MessageInv(u[i], s, d) /\ Earlier(c0, u[i].turn)
      BY <2>10, <2>11
    <3>2. u[i].turn \in Calls /\ u[i].turn # c0
      BY <3>1, CallOrder DEF MessageInv
    <3> QED BY <1>4, <3>1, <3>2 DEF MessageInv, Goes
  <2>13. \A i, l \in 1 .. Len(u) : i < l => Earlier(u[i].turn, u[l].turn)
    <3> SUFFICES ASSUME NEW i \in 1 .. Len(u), NEW l \in 1 .. Len(u), i < l
                 PROVE  Earlier(u[i].turn, u[l].turn)
      OBVIOUS
    <3>1. i + 1 < l + 1 /\ i + 1 \in 1 .. n /\ l + 1 \in 1 .. n
      BY <2>11
    <3> QED BY <2>10, <2>11, <3>1
  <2>14. ASSUME NEW c \in Calls, Goes(c, s, d), IsPosted(c, s)', ~Earlier(c, Turn(d)')
         PROVE  \E i \in 1 .. Len(u) : u[i].turn = c
    <3>1. IsPosted(c, s) /\ ~Earlier(c, Turn(d)) /\ c # c0
      BY <1>4, <1>6, <2>14
    <3>2. PICK l \in 1 .. n : q[l].turn = c
      BY <1>2, <2>0, <2>8, <2>14, <3>1 DEF ChannelInv
    <3>3. l # 1
      BY <2>5, <3>1, <3>2
    <3>4. l - 1 \in 1 .. n - 1 /\ l - 1 + 1 = l
      BY <2>8, <3>3
    <3>5. u[l - 1].turn = c /\ l - 1 \in 1 .. Len(u)
      BY <2>9, <3>2, <3>4
    <3> QED BY <3>5
  <2>15. \A c \in Calls : Goes(c, s, d) /\ Earlier(c, Turn(d)') => IsPosted(c, s)'
    <3>1. IsPosted(c0, s)
      <4>1. MessageInv(q[1], s, d)
        BY <2>8, <2>10
      <4> QED BY <2>5, <4>1 DEF MessageInv
    <3> QED BY <1>2, <1>4, <1>6, <3>1 DEF ChannelInv
  <2>16. u = chan[<<s, d>>]'
    BY <2>7
  <2> QED BY <2>12, <2>13, <2>14, <2>15, <2>16 DEF ChannelInv, Goes
<1>7. CASE ~(s = Src(r) /\ d = r)
  <2>1. chan'[<<s, d>>] = chan[<<s, d>>]
    <3>1. CASE UNCHANGED chan
      BY <3>1
    <3>2. CASE chan' # chan
      <4>1. PICK k : chan' = Taken(chan, Src(r), r, k)
        BY <3>2 DEF CompleteReceive
      <4> QED BY <1>2, <1>7, <4>1 DEF Taken, CommType
    <3> QED BY <3>1, <3>2
  <2>2. \A c \in Calls : Goes(c, s, d) =>
           /\ IsPosted(c, s)' <=> IsPosted(c, s)
           /\ Earlier(c, Turn(d)') <=> Earlier(c, Turn(d))
    BY <1>4, <1>5, <1>7
  <2> QED BY <1>2, <2>1, <2>2, QuietChannel
<1> QED BY <1>6, <1>7

LEMMA InitMatch ==
  ASSUME Init
  PROVE  MatchInv
<1>1. Len(Plan) \in Nat /\ Rounds \in Nat
  BY ThePlan, ParticleAssumption
<1>2. /\ at = [r \in Rank |-> 0] /\ posted = [r \in Rank |-> FALSE]
      /\ round = [r \in Rank |-> 0] /\ chan = [p \in Rank \X Rank |-> <<>>]
  BY DEF Init, NoMessages
<1>3. CommType
  <2>1. \A p \in Rank \X Rank : chan[p] \in Seq({})
    BY <1>2
  <2> QED BY <1>1, <1>2, <2>1 DEF CommType
<1>4. \A c \in Calls, s \in Rank : ~IsPosted(c, s) /\ ~Earlier(c, Turn(s))
  BY <1>1, <1>2 DEF IsPosted, Earlier, Turn, Calls
<1>5. \A s, d \in Rank : Len(chan[<<s, d>>]) = 0
  BY <1>2
<1> QED BY <1>3, <1>4, <1>5 DEF MatchInv, ChannelInv

LEMMA NextMatch ==
  ASSUME MatchInv, [Next]_vars
  PROVE  MatchInv'
<1>1. CommType'
  BY CommTypeStep DEF MatchInv
<1>2. CASE UNCHANGED vars
  <2> SUFFICES ASSUME NEW s \in Rank, NEW d \in Rank
               PROVE  ChannelInv(s, d)'
    BY <1>1 DEF MatchInv
  <2>1. ChannelInv(s, d) /\ UNCHANGED <<at, round, posted, chan>>
    BY <1>2 DEF MatchInv, vars
  <2> QED BY <2>1, QuietChannel DEF IsPosted, Turn
<1> QED BY <1>1, <1>2, PackMatch, CopyToSelfMatch, PostSendMatch, CompleteReceiveMatch,
           UnpackMatch DEF Next, Step

THEOREM Matching == Spec => []MatchInv
<1> QED BY InitMatch, NextMatch, PTL DEF Spec

\* The message a rank gets is the one that its source has sent in the same operation of
\* the same call: for every grid of ranks, whatever memory buffers are in, and whether or
\* not MPI holds messages back.
THEOREM MatchedHolds == Spec => []Matched
<1>1. ASSUME MatchInv, NEW r \in Rank, MayReceive(r), Src(r) # Null,
             NEW k \in Receivable(chan, Src(r), r, Op(r).tag)
      PROVE  chan[<<Src(r), r>>][k].turn = Turn(r)
  <2>1. k \in DOMAIN chan[<<Src(r), r>>] /\ InPlan(r) /\ posted[r]
    BY <1>1 DEF Receivable, MayReceive
  <2>2. k = 1 /\ chan[<<Src(r), r>>][1].turn = Turn(r)
    BY <1>1, <2>1, FirstOne
  <2> QED BY <2>2
<1>2. MatchInv => Matched
  BY <1>1 DEF Matched
<1> QED BY <1>2, Matching, PTL

--------------------------------------------------------------------------------
\* Some rank is not ahead of any other.
LEMMA LastRank ==
  ASSUME CommType
  PROVE  \E r \in Rank : \A s \in Rank : ~Earlier(Turn(s), Turn(r))
<1>1. \A s \in Rank : round[s] \in Nat /\ at[s] \in Nat
  BY ThePlan, ParticleAssumption DEF CommType
<1>2. Rank # {}
  <2>1. [k \in Axis |-> 0] \in Rank
    BY Ranks, GridOfRanks
  <2> QED BY <2>1
<1>3. PICK r0 \in Rank : \A s \in Rank : round[r0] <= round[s]
  <2> DEFINE T == {round[s] : s \in Rank}
  <2>1. T \in SUBSET Nat /\ T # {}
    BY <1>1, <1>2
  <2> HIDE DEF T
  <2>2. PICK x \in T : \A y \in T : x <= y
    BY <2>1, LeastNumber
  <2> QED BY <2>2 DEF T
<1>4. PICK r \in Rank : /\ round[r] = round[r0]
                        /\ \A s \in Rank : round[s] = round[r0] => at[r] <= at[s]
  <2> DEFINE T == {at[s] : s \in {s \in Rank : round[s] = round[r0]}}
  <2>1. T \in SUBSET Nat /\ T # {}
    BY <1>1
  <2>2. \A y \in T : \E s \in Rank : round[s] = round[r0] /\ y = at[s]
    OBVIOUS
  <2>3. \A s \in Rank : round[s] = round[r0] => at[s] \in T
    OBVIOUS
  <2> HIDE DEF T
  <2>4. PICK x \in T : \A y \in T : x <= y
    BY <2>1, LeastNumber
  <2> QED BY <2>2, <2>3, <2>4
<1>5. ASSUME NEW s \in Rank, Earlier(Turn(s), Turn(r))
      PROVE  FALSE
  <2>1. round[s] < round[r] \/ (round[s] = round[r] /\ at[s] < at[r])
    BY <1>5 DEF Earlier, Turn
  <2> QED BY <1>1, <1>3, <1>4, <2>1
<1> QED BY <1>5

\* Nothing that a rank has sent and waits for is for a later call of the receiver: when it
\* has not posted and is not ahead of anybody, all it has sent has been received.
LEMMA NothingUnderWay ==
  ASSUME MatchInv, NEW r \in Rank, ~posted[r], \A s \in Rank : ~Earlier(Turn(s), Turn(r))
  PROVE  SendsDone(chan, r)
<1> SUFFICES ASSUME NEW d \in Rank PROVE chan[<<r, d>>] = <<>>
  BY DEF SendsDone
<1>1. CommType /\ ChannelInv(r, d)
  BY DEF MatchInv
<1>2. PICK q : q = chan[<<r, d>>]
  OBVIOUS
<1>3. PICK S : q \in Seq(S)
  BY <1>1, <1>2 DEF CommType
<1>4. ASSUME NEW k \in 1 .. Len(q)
      PROVE  FALSE
  <2>1. MessageInv(q[k], r, d)
    BY <1>1, <1>2, <1>4 DEF ChannelInv
  <2>2. q[k].turn \in Calls /\ Earlier(q[k].turn, Turn(r)) /\ ~Earlier(q[k].turn, Turn(d))
    BY <2>1 DEF MessageInv, IsPosted
  <2>3. Turn(r) \in Nat \X Nat /\ Turn(d) \in Nat \X Nat
    BY <1>1, TurnType
  <2>4. q[k].turn = Turn(d) \/ Earlier(Turn(d), q[k].turn)
    BY <2>2, <2>3, CallOrder
  <2>5. Earlier(Turn(d), Turn(r))
    BY <2>2, <2>3, <2>4, CallOrder
  <2> QED BY <2>5
<1>5. Len(q) = 0
  <2>1. Len(q) \in Nat
    BY <1>3
  <2>2. ~(1 \in 1 .. Len(q))
    BY <1>4
  <2> QED BY <2>1, <2>2
<1> QED BY <1>2, <1>3, <1>5, EmptySeq

\* As long as a rank has something left to do, some rank can do its next step: also when
\* MPI lets every sender wait for its receiver.
LEMMA SomeRankGoesOn ==
  ASSUME MatchInv
  PROVE  NoDeadlock
<1>1. CommType
  BY DEF MatchInv
<1>2. PICK r \in Rank : \A s \in Rank : ~Earlier(Turn(s), Turn(r))
  BY <1>1, LastRank
<1>3. ASSUME NEW s \in Rank, at[s] # 0, ~posted[s],
             \A x \in Rank : ~Earlier(Turn(x), Turn(s))
      PROVE  CanGoOn(s)
  BY <1>3, NothingUnderWay DEF CanGoOn
<1>4. CASE at[r] = 0
  <2>1. CASE round[r] < Rounds
    BY <1>4, <2>1 DEF NoDeadlock, CanGoOn
  <2>2. CASE ~(round[r] < Rounds)
    <3> SUFFICES ASSUME NEW s \in Rank PROVE Idle(s) /\ round[s] = Rounds
      BY DEF NoDeadlock, AllDone
    <3>1. round[r] \in 0 .. Rounds /\ round[s] \in 0 .. Rounds /\ at[s] \in Nat
          /\ Rounds \in Nat
      BY <1>1, ThePlan, ParticleAssumption DEF CommType
    <3>2. ~(round[s] < round[r])
      BY <1>2 DEF Earlier, Turn
    <3>3. round[s] = Rounds
      BY <2>2, <3>1, <3>2
    <3>4. at[s] = 0
      BY <1>1, <3>1, <3>3 DEF CommType
    <3> QED BY <3>3, <3>4 DEF Idle
  <2> QED BY <2>1, <2>2
<1>5. CASE at[r] # 0 /\ ~posted[r]
  BY <1>2, <1>3, <1>5 DEF NoDeadlock
<1>6. CASE at[r] # 0 /\ posted[r]
  <2>1. InPlan(r) /\ ~ToSelf(r) /\ MayReceive(r)
    BY <1>1, <1>6 DEF CommType, MayReceive
  <2>2. CASE Src(r) = Null
    BY <2>1, <2>2 DEF NoDeadlock, CanGoOn
  <2>3. CASE Src(r) # Null
    <3> DEFINE s == Src(r)
               c0 == Turn(r)
    <3>1. c0 \in Calls /\ s \in Rank /\ Goes(c0, s, r)
      BY <1>1, <2>1, <2>3, TurnType, SrcSends
    <3>2. CASE IsPosted(c0, s)
      <4>1. ~Earlier(c0, c0)
        BY <3>1, CallOrder
      <4>2. PICK k \in 1 .. Len(chan[<<s, r>>]) : TRUE
        BY <3>1, <3>2, <4>1 DEF MatchInv, ChannelInv
      <4>3. k \in DOMAIN chan[<<s, r>>]
        <5>1. PICK S : chan[<<s, r>>] \in Seq(S)
          BY <1>1, <3>1 DEF CommType
        <5> HIDE DEF s
        <5> QED BY <4>2, <5>1
      <4>4. Receivable(chan, Src(r), r, Op(r).tag) = {1}
        BY <1>6, <2>1, <2>3, <4>3, FirstOne
      <4> QED BY <2>1, <4>4 DEF NoDeadlock, CanGoOn
    <3>3. CASE ~IsPosted(c0, s)
      <4>1. Turn(s) \in Nat \X Nat /\ c0 \in Nat \X Nat
        BY <1>1, <3>1, TurnType
      <4>2. Turn(s) = c0
        BY <1>2, <3>1, <3>3, <4>1, CallOrder DEF IsPosted
      <4>3. ~posted[s] /\ at[s] # 0
        BY <1>6, <3>3, <4>2 DEF IsPosted, Turn
      <4>4. \A x \in Rank : ~Earlier(Turn(x), Turn(s))
        BY <1>2, <4>2
      <4> HIDE DEF s
      <4> QED BY <1>3, <3>1, <4>3, <4>4 DEF NoDeadlock
    <3> QED BY <3>2, <3>3
  <2> QED BY <2>2, <2>3
<1> QED BY <1>4, <1>5, <1>6

\* The ranks never all wait for one another.
THEOREM NoDeadlockHolds == Spec => []NoDeadlock
<1> QED BY SomeRankGoesOn, Matching, PTL

--------------------------------------------------------------------------------
\* From here on copies within a rank get to where they are read.  What is left out is what
\* two runs find wrong: buffers with two copies, and the sweep along z on the host.
CopiesWork == Mode = "cuda_mpi" \/ (Mode = "host" /\ Dim < 3)

\* The first n entries of f are particles, each once; and t is one of them.
Distinct(f, n) == /\ \A k \in 1 .. n : f[k] \in Tag
                  /\ \A k, l \in 1 .. n : f[k] = f[l] => k = l
Among(f, n, t) == \E k \in 1 .. n : f[k] = t
\* The messages q have particles in them; and t is in the one of call c.
Parcels(q) == \A k \in 1 .. Len(q) :
                q[k].data \in Seq(Tag) /\ Distinct(q[k].data, Len(q[k].data))
Carried(q, c, t) ==
  \E k \in 1 .. Len(q) : q[k].turn = c /\ Among(q[k].data, Len(q[k].data), t)

\* Everything that holds particles, and what does so at the moment: a buffer that has been
\* posted does not, its message does.
Container == ({"array"} \X Rank) \cup ({"buffer"} \X Rank \X Zone)
             \cup ({"message"} \X Rank \X Rank \X Calls)
InArray(t, r) == Among(pool[r], Len(pool[r]), t)
InBuf(t, r, z) == ~(posted[r] /\ z = Op(r).send) /\ Among(host[r][z], num[r][z], t)
InMsg(t, s, d, c) == Carried(chan[<<s, d>>], c, t)
In(t, x) == \/ x[1] = "array" /\ InArray(t, x[2])
            \/ x[1] = "buffer" /\ InBuf(t, x[2], x[3])
            \/ x[1] = "message" /\ InMsg(t, x[2], x[3], x[4])

\* Whose grid the particles in a container are in.
Home(x) == CASE x[1] = "array" -> x[2]
             [] x[1] = "buffer" -> Owner(x[2], x[3])
             [] x[1] = "message" -> Owner(x[3], Plan[x[4][2]].recv)

DataType ==
  /\ pool \in [Rank -> Seq(Tag)] /\ goal \in [Tag -> Rank \cup {Outside}]
  /\ host \in Buffers /\ dev \in Buffers /\ num \in [Rank -> [Zone -> 0 .. BufSize]]
  /\ \A r \in Rank : Distinct(pool[r], Len(pool[r]))
  /\ \A r \in Rank, z \in Zone : Distinct(host[r][z], num[r][z])
  /\ \A p \in Rank \X Rank : Parcels(chan[p])

\* What has been sent in a call of send_particles stays empty for the rest of it.
EmptyOnceSent ==
  \A r \in Rank : /\ at[r] = 0 => \A z \in Zone : num[r][z] = 0
                  /\ \A i \in 1 .. Len(Plan) : i < at[r] => num[r][Plan[i].send] = 0

AtMostOnce == \A t \in Tag : \A x, y \in Container : In(t, x) /\ In(t, y) => x = y
OnTheWayHome == \A t \in Tag : \A x \in Container : In(t, x) => goal[t] = Home(x)
AtLeastOnce == \A t \in Tag : goal[t] # Outside => \E x \in Container : In(t, x)

DataInv == DataType /\ EmptyOnceSent /\ AtMostOnce /\ OnTheWayHome /\ AtLeastOnce

LEMMA FewEnough ==
  ASSUME NEW n \in Nat, NEW f, Distinct(f, n)
  PROVE  n <= BufSize
<1> DEFINE g == [k \in 1 .. n |-> f[k]]
<1>1. g \in Injection(1 .. n, Tag)
  BY DEF Distinct, Injection, IsInjective
<1> HIDE DEF g
<1>2. Cardinality(1 .. n) <= Cardinality(Tag)
  BY <1>1, FS_Injection, BufferAssumption
<1>3. Cardinality(1 .. n) = n
  BY FS_Interval
<1>4. Cardinality(Tag) \in Nat
  BY FS_CardinalityType, BufferAssumption
<1> QED BY <1>2, <1>3, <1>4, BufferAssumption

\* One after the other.
LEMMA Together ==
  ASSUME NEW n \in Nat, NEW m \in Nat, NEW f, NEW g, NEW h,
         Distinct(f, n), Distinct(g, m), \A t \in Tag : ~(Among(f, n, t) /\ Among(g, m, t)),
         \A k \in 1 .. n : h[k] = f[k],
         \A j \in 1 .. m : h[n + j] = g[j]
  PROVE  /\ Distinct(h, n + m)
         /\ \A t \in Tag : Among(h, n + m, t) <=> Among(f, n, t) \/ Among(g, m, t)
<1>1. \A k \in 1 .. n + m : \/ k \in 1 .. n /\ h[k] = f[k]
                            \/ k - n \in 1 .. m /\ h[k] = g[k - n]
  <2> SUFFICES ASSUME NEW k \in 1 .. n + m
               PROVE  \/ k \in 1 .. n /\ h[k] = f[k]
                      \/ k - n \in 1 .. m /\ h[k] = g[k - n]
    OBVIOUS
  <2>1. CASE k <= n
    BY <2>1
  <2>2. CASE k > n
    <3>1. k - n \in 1 .. m /\ n + (k - n) = k
      BY <2>2
    <3> QED BY <3>1
  <2> QED BY <2>1, <2>2
<1>2. \A k \in 1 .. n + m : h[k] \in Tag
  BY <1>1 DEF Distinct
<1>3. ASSUME NEW k \in 1 .. n + m, NEW l \in 1 .. n + m, h[k] = h[l]
      PROVE  k = l
  <2>1. CASE k \in 1 .. n /\ h[k] = f[k] /\ l \in 1 .. n /\ h[l] = f[l]
    BY <1>3, <2>1 DEF Distinct
  <2>2. CASE k - n \in 1 .. m /\ h[k] = g[k - n] /\ l - n \in 1 .. m /\ h[l] = g[l - n]
    <3>1. k - n = l - n
      BY <1>3, <2>2 DEF Distinct
    <3> QED BY <3>1
  <2>3. CASE k \in 1 .. n /\ h[k] = f[k] /\ l - n \in 1 .. m /\ h[l] = g[l - n]
    <3>1. h[k] \in Tag /\ Among(f, n, h[k]) /\ Among(g, m, h[k])
      BY <1>2, <1>3, <2>3 DEF Among
    <3> QED BY <3>1
  <2>4. CASE k - n \in 1 .. m /\ h[k] = g[k - n] /\ l \in 1 .. n /\ h[l] = f[l]
    <3>1. h[k] \in Tag /\ Among(f, n, h[k]) /\ Among(g, m, h[k])
      BY <1>2, <1>3, <2>4 DEF Among
    <3> QED BY <3>1
  <2> QED BY <1>1, <2>1, <2>2, <2>3, <2>4
<1>4. ASSUME NEW t \in Tag
      PROVE  Among(h, n + m, t) <=> Among(f, n, t) \/ Among(g, m, t)
  <2>1. \A k \in 1 .. n : k \in 1 .. n + m
    OBVIOUS
  <2>2. \A j \in 1 .. m : n + j \in 1 .. n + m
    OBVIOUS
  <2> QED BY <1>1, <2>1, <2>2 DEF Among
<1> QED BY <1>2, <1>3, <1>4 DEF Distinct

\* Some order of a finite set.
LEMMA SomeOrder ==
  ASSUME NEW S, IsFiniteSet(S)
  PROVE  LET q == SetToSeq(S)
         IN  /\ Cardinality(S) \in Nat /\ q \in [1 .. Cardinality(S) -> S]
             /\ \A i, j \in 1 .. Cardinality(S) : q[i] = q[j] => i = j
             /\ \A x \in S : \E i \in 1 .. Cardinality(S) : q[i] = x
<1> DEFINE n == Cardinality(S)
           D == 1 .. n
           q == SetToSeq(S)
<1>1. n \in Nat /\ ExistsBijection(D, S)
  BY FS_CardinalityType
<1>2. \E f \in [D -> S] : IsInjective(f)
  BY <1>1 DEF ExistsBijection, Bijection, Injection
<1>3. q \in [D -> S] /\ IsInjective(q)
  <2>1. q = CHOOSE f \in [D -> S] : IsInjective(f)
    BY DEF SetToSeq
  <2> HIDE DEF q, D
  <2> QED BY <1>2, <2>1
<1>4. Cardinality(D) = n /\ IsFiniteSet(D)
  BY <1>1, FS_Interval
<1>5. q \in Surjection(D, S)
  <2>1. q \in Injection(D, S)
    BY <1>3 DEF Injection
  <2> QED BY <1>4, <2>1, FS_Injection
<1> HIDE DEF q
<1>6. \A x \in S : \E i \in D : q[i] = x
  BY <1>5 DEF Surjection
<1>7. \A i, j \in D : q[i] = q[j] => i = j
  BY <1>3 DEF IsInjective
<1> QED BY <1>1, <1>3, <1>6, <1>7 DEF q

\* Selecting particles from an array that has each of them once.
LEMMA SelectedOnce ==
  ASSUME NEW s \in Seq(Tag), Distinct(s, Len(s)), NEW T
  PROVE  LET u == Selected(s, T)
         IN  /\ u \in Seq(Tag) /\ Distinct(u, Len(u))
             /\ \A t \in Tag : Among(u, Len(u), t) <=> t \in T /\ Among(s, Len(s), t)
<1> DEFINE K == {k \in DOMAIN s : s[k] \in T}
<1>1. DOMAIN s = 1 .. Len(s) /\ Len(s) \in Nat /\ \A k \in 1 .. Len(s) : s[k] \in Tag
  OBVIOUS
<1>2. IsFiniteSet(K)
  <2>1. IsFiniteSet(1 .. Len(s))
    BY <1>1, FS_Interval
  <2>2. K \subseteq 1 .. Len(s)
    BY <1>1
  <2> QED BY <2>1, <2>2, FS_Subset
<1>3. PICK n : n = Cardinality(K)
  OBVIOUS
<1>4. PICK q : q = SetToSeq(K)
  OBVIOUS
<1>5. /\ n \in Nat /\ q \in [1 .. n -> K]
      /\ \A i, j \in 1 .. n : q[i] = q[j] => i = j
      /\ \A x \in K : \E i \in 1 .. n : q[i] = x
  BY <1>2, <1>3, <1>4, SomeOrder
<1>6. PICK u : u = [j \in 1 .. n |-> s[q[j]]]
  OBVIOUS
<1>7. Selected(s, T) = u
  BY <1>4, <1>5, <1>6 DEF Selected
<1>8. \A j \in 1 .. n : q[j] \in 1 .. Len(s) /\ s[q[j]] \in T /\ u[j] = s[q[j]]
                        /\ u[j] \in Tag
  BY <1>1, <1>5, <1>6
<1>9. u \in Seq(Tag) /\ Len(u) = n
  BY <1>5, <1>6, <1>8, FunctionIsSeq
<1>10. Distinct(u, n)
  BY <1>5, <1>8 DEF Distinct
<1>11. \A k \in 1 .. Len(s) : s[k] \in T => k \in K
  BY <1>1
<1> HIDE DEF K
<1>12. ASSUME NEW t \in Tag
       PROVE  Among(u, n, t) <=> t \in T /\ Among(s, Len(s), t)
  BY SMTT(30), <1>5, <1>8, <1>11 DEF Among
<1> QED BY <1>7, <1>9, <1>10, <1>12

\* In fewer than three dimensions every operation takes lists of buffers.
LEMMA Batched ==
  ASSUME CopiesWork, NEW r \in Rank, InPlan(r)
  PROVE  Op(r).batched \/ Mode = "cuda_mpi"
<1> DEFINE All(s) == \A i \in 1 .. Len(s) : s[i].batched
<1> SUFFICES ASSUME Dim < 3 PROVE All(Plan)
  BY DEF CopiesWork, InPlan, Op
<1>1. \A s, u \in Seq(Ops) : All(s) /\ All(u) => All(s \o u) /\ s \o u \in Seq(Ops)
  BY Concatenated
<1>2. \A dir \in {-1, 1} : SweepX(dir) \in Seq(Ops) /\ All(SweepX(dir))
  <2> SUFFICES ASSUME NEW dir \in {-1, 1} PROVE SweepX(dir) \in Seq(Ops) /\ All(SweepX(dir))
    OBVIOUS
  <2>1. SweepX(dir) \in Seq(Ops) /\ Len(SweepX(dir)) = Stride[Dim]
    BY SweepXOps
  <2>2. \A i \in 1 .. Stride[Dim] : SweepX(dir)[i].batched
    BY DEF SweepX
  <2> QED BY <2>1, <2>2
<1>3. Dim = 2 => \A dir \in {-1, 1} : SweepY(dir) \in Seq(Ops) /\ All(SweepY(dir))
  <2> SUFFICES ASSUME Dim = 2, NEW dir \in {-1, 1}
               PROVE  SweepY(dir) \in Seq(Ops) /\ All(SweepY(dir))
    OBVIOUS
  <2>1. SweepY(dir) \in Seq(Ops)
    BY SweepYOps
  <2>2. \A i \in 1 .. Stride[Dim - 1] : SweepY(dir)[i].batched
    BY DEF SweepY
  <2>3. DOMAIN SweepY(dir) = 1 .. Stride[Dim - 1]
    BY DEF SweepY
  <2>4. DOMAIN SweepY(dir) = 1 .. Len(SweepY(dir))
    BY <2>1
  <2> QED BY <2>1, <2>2, <2>3, <2>4
<1> HIDE DEF All
<1>4. CASE Dim = 1
  <2>1. Plan = SweepX(-1) \o SweepX(1) \o <<>> \o <<>>
    BY <1>4 DEF Plan
  <2>2. SweepX(-1) \o SweepX(1) \in Seq(Ops) /\ All(SweepX(-1) \o SweepX(1))
    BY <1>1, <1>2
  <2>3. Plan = SweepX(-1) \o SweepX(1)
    BY <2>1, <2>2, ConcatEmptySeq
  <2> QED BY <2>2, <2>3
<1>5. CASE Dim = 2
  <2> DEFINE X == SweepX(-1) \o SweepX(1)
             Y == SweepY(-1) \o SweepY(1)
  <2>1. Plan = X \o Y \o <<>>
    BY <1>5 DEF Plan
  <2>2. X \in Seq(Ops) /\ All(X) /\ Y \in Seq(Ops) /\ All(Y)
    BY <1>1, <1>2, <1>3, <1>5
  <2> HIDE DEF X, Y
  <2>3. X \o Y \in Seq(Ops) /\ All(X \o Y)
    BY <1>1, <2>2
  <2>4. Plan = X \o Y
    BY <2>1, <2>3, ConcatEmptySeq
  <2> QED BY <2>3, <2>4
<1> QED BY <1>4, <1>5, DimAssumption

\* How a step changes what is where: particles of x0 move to x1, which is on the same way;
\* or are dropped; or nothing moves.
LEMMA MoveKeeps ==
  ASSUME AtMostOnce, OnTheWayHome, AtLeastOnce, UNCHANGED goal,
         NEW x0 \in Container, NEW x1 \in Container, Home(x1) = Home(x0),
         \A t \in Tag, x \in Container :
           In(t, x)' <=> (In(t, x) /\ x # x0) \/ (x = x1 /\ In(t, x0))
  PROVE  AtMostOnce' /\ OnTheWayHome' /\ AtLeastOnce'
<1>1. AtMostOnce'
  BY DEF AtMostOnce
<1>2. OnTheWayHome'
  BY DEF OnTheWayHome
<1>3. AtLeastOnce'
  BY DEF AtLeastOnce
<1> QED BY <1>1, <1>2, <1>3

LEMMA DropKeeps ==
  ASSUME AtMostOnce, OnTheWayHome, AtLeastOnce, UNCHANGED goal,
         NEW x0 \in Container, Home(x0) = Outside,
         \A t \in Tag, x \in Container : In(t, x)' <=> In(t, x) /\ x # x0
  PROVE  AtMostOnce' /\ OnTheWayHome' /\ AtLeastOnce'
<1>1. AtMostOnce'
  BY DEF AtMostOnce
<1>2. OnTheWayHome'
  BY DEF OnTheWayHome
<1>3. AtLeastOnce'
  BY DEF AtLeastOnce, OnTheWayHome
<1> QED BY <1>1, <1>2, <1>3

LEMMA RestKeeps ==
  ASSUME AtMostOnce, OnTheWayHome, AtLeastOnce, UNCHANGED goal,
         \A t \in Tag, x \in Container : In(t, x)' <=> In(t, x)
  PROVE  AtMostOnce' /\ OnTheWayHome' /\ AtLeastOnce'
BY DEF AtMostOnce, OnTheWayHome, AtLeastOnce

--------------------------------------------------------------------------------
\* Receiving: the particles come behind those of the buffer, and what was sent is gone.
LEMMA ReceiveData ==
  ASSUME CopiesWork, CommType, DataType, EmptyOnceSent, NEW r \in Rank, InPlan(r),
         NEW data \in Seq(Tag), Distinct(data, Len(data)), Receive(r, host, data),
         \A t \in Tag : ~(/\ Among(host[r][Op(r).recv], num[r][Op(r).recv], t)
                          /\ Among(data, Len(data), t))
  PROVE  /\ host' \in Buffers /\ dev' \in Buffers /\ num' \in [Rank -> [Zone -> 0 .. BufSize]]
         /\ \A x \in Rank, z \in Zone : Distinct(host'[x][z], num'[x][z])
         /\ EmptyOnceSent'
         /\ \A x \in Rank, z \in Zone, t \in Tag : Among(host'[x][z], num'[x][z], t) <=>
              /\ ~(x = r /\ z = Op(r).send)
              /\ \/ Among(host[x][z], num[x][z], t)
                 \/ x = r /\ z = Op(r).recv /\ Among(data, Len(data), t)
<1>1. PICK a \in Zone, b \in Zone : a = Op(r).send /\ b = Op(r).recv /\ a # b
  <2>1. Op(r).recv # Op(r).send
    BY NoReturn DEF InPlan, Op
  <2>2. Op(r).send \in Zone /\ Op(r).recv \in Zone
    BY OpType DEF Ops
  <2> QED BY <2>1, <2>2
<1>2. PICK n \in 0 .. BufSize : n = num[r][b]
  BY DEF DataType
<1>3. PICK m \in Nat : m = Len(data)
  OBVIOUS
<1>4. PICK f \in [1 .. BufSize -> Tag \cup {Junk}] : f = host[r][b]
  BY DEF DataType, Buffers
<1>5. PICK h : h = Put(f, n, data)
  OBVIOUS
<1>6. BufSize \in Nat /\ n \in Nat
  BY BufferAssumption
<1>7. Distinct(f, n) /\ Distinct(data, m)
      /\ \A t \in Tag : ~(Among(f, n, t) /\ Among(data, m, t))
  BY <1>1, <1>2, <1>3, <1>4 DEF DataType
<1>8. n + m <= BufSize
  <2> DEFINE g == [k \in 1 .. n + m |-> IF k <= n THEN f[k] ELSE data[k - n]]
  <2>1. \A k \in 1 .. n : g[k] = f[k]
    BY <1>6
  <2>2. \A j \in 1 .. m : g[n + j] = data[j]
    <3> SUFFICES ASSUME NEW j \in 1 .. m PROVE g[n + j] = data[j]
      OBVIOUS
    <3>1. n + j \in 1 .. n + m /\ ~(n + j <= n) /\ n + j - n = j
      BY <1>6
    <3> QED BY <3>1
  <2> HIDE DEF g
  <2>3. Distinct(g, n + m)
    BY <1>6, <1>7, <2>1, <2>2, Together
  <2>4. n + m \in Nat
    BY <1>6
  <2> QED BY <2>3, <2>4, FewEnough
<1>9. /\ h \in [1 .. BufSize -> Tag \cup {Junk}]
      /\ \A k \in 1 .. n : h[k] = f[k]
      /\ \A j \in 1 .. m : h[n + j] = data[j]
  <2>1. DOMAIN data = 1 .. m /\ \A j \in 1 .. m : data[j] \in Tag
    BY <1>3
  <2>2. h = [k \in 1 .. BufSize |-> IF k - n \in 1 .. m THEN data[k - n] ELSE f[k]]
    BY <1>5, <2>1 DEF Put
  <2>3. \A k \in 1 .. n : k \in 1 .. BufSize /\ ~(k - n \in 1 .. m)
    BY <1>6
  <2>4. \A j \in 1 .. m : n + j \in 1 .. BufSize /\ n + j - n = j
    BY <1>6, <1>8
  <2>5. \A k \in 1 .. n : h[k] = f[k]
    BY <2>2, <2>3
  <2>6. \A j \in 1 .. m : h[n + j] = data[j]
    BY <2>2, <2>4
  <2>7. h \in [1 .. BufSize -> Tag \cup {Junk}]
    BY <2>1, <2>2
  <2> QED BY <2>5, <2>6, <2>7
<1>10. /\ Distinct(h, n + m)
       /\ \A t \in Tag : Among(h, n + m, t) <=> Among(f, n, t) \/ Among(data, m, t)
  BY <1>6, <1>7, <1>9, Together
<1>11. /\ host' = [host EXCEPT ![r][b] = h]
       /\ num' = [num EXCEPT ![r][b] = n + m, ![r][a] = 0]
       /\ dev' = dev /\ at' = [at EXCEPT ![r] = @ + 1]
  <2>1. Op(r).batched \/ Mode = "cuda_mpi"
    BY Batched
  <2>2. Mode # "staged"
    BY DEF CopiesWork
  <2>3. host' = [host EXCEPT ![r][b] = Put(@, n, data)]
    BY <1>1, <1>2, <2>1 DEF Receive
  <2>4. host' = [host EXCEPT ![r][b] = h]
    BY <1>4, <1>5, <2>3
  <2>5. num' = [num EXCEPT ![r][b] = @ + m, ![r][a] = 0]
    BY <1>1, <1>3 DEF Receive
  <2>6. num' = [num EXCEPT ![r][b] = n + m, ![r][a] = 0]
    BY <1>2, <2>5
  <2> QED BY <2>2, <2>4, <2>6 DEF Receive
<1>12. /\ host'[r][b] = h /\ num'[r][b] = n + m
       /\ host'[r][a] = host[r][a] /\ num'[r][a] = 0
       /\ \A x \in Rank, z \in Zone : ~(x = r /\ z = b) => host'[x][z] = host[x][z]
       /\ \A x \in Rank, z \in Zone : ~(x = r /\ (z = b \/ z = a)) => num'[x][z] = num[x][z]
  BY <1>1, <1>11 DEF DataType, Buffers
<1>13. host' \in Buffers /\ dev' \in Buffers
  BY <1>9, <1>11 DEF DataType, Buffers
<1>14. num' \in [Rank -> [Zone -> 0 .. BufSize]]
  <2>1. n + m \in 0 .. BufSize /\ 0 \in 0 .. BufSize
    BY <1>6, <1>8
  <2> QED BY <1>11, <2>1 DEF DataType
<1>15. \A g, t : Distinct(g, 0) /\ ~Among(g, 0, t)
  BY DEF Distinct, Among
<1>16. \A x \in Rank, z \in Zone : Distinct(host'[x][z], num'[x][z])
  <2> SUFFICES ASSUME NEW x \in Rank, NEW z \in Zone
               PROVE  Distinct(host'[x][z], num'[x][z])
    OBVIOUS
  <2>1. CASE x = r /\ z = b
    BY <1>10, <1>12, <2>1
  <2>2. CASE x = r /\ z = a
    BY <1>12, <1>15, <2>2
  <2>3. CASE ~(x = r /\ (z = b \/ z = a))
    BY <1>12, <2>3 DEF DataType
  <2> QED BY <2>1, <2>2, <2>3
<1>17. ASSUME NEW x \in Rank, NEW z \in Zone, NEW t \in Tag
       PROVE  Among(host'[x][z], num'[x][z], t) <=>
                /\ ~(x = r /\ z = a)
                /\ Among(host[x][z], num[x][z], t) \/ (x = r /\ z = b /\ Among(data, m, t))
  <2>1. CASE x = r /\ z = b
    BY <1>1, <1>2, <1>4, <1>10, <1>12, <2>1
  <2>2. CASE x = r /\ z = a
    BY <1>12, <1>15, <2>2
  <2>3. CASE ~(x = r /\ (z = b \/ z = a))
    BY <1>12, <2>3
  <2> QED BY <2>1, <2>2, <2>3
<1>18. EmptyOnceSent'
  <2>1. at \in [Rank -> Nat] /\ at[r] \in 1 .. Len(Plan) /\ Len(Plan) \in Nat
    BY ThePlan DEF CommType, InPlan
  <2>2. ASSUME NEW x \in Rank, at'[x] = 0, NEW z \in Zone
        PROVE  num'[x][z] = 0
    <3>1. x # r /\ at[x] = 0
      BY <1>11, <2>1, <2>2
    <3> QED BY <1>12, <2>2, <3>1 DEF EmptyOnceSent
  <2>3. ASSUME NEW x \in Rank, NEW i \in 1 .. Len(Plan), i < at'[x]
        PROVE  num'[x][Plan[i].send] = 0
    <3>1. Plan[i].send \in Zone
      BY ThePlan DEF Ops
    <3>2. CASE x # r
      <4>1. i < at[x]
        BY <1>11, <2>1, <2>3, <3>2
      <4>2. num[x][Plan[i].send] = 0
        BY <4>1 DEF EmptyOnceSent
      <4> QED BY <1>12, <3>1, <3>2, <4>2
    <3>3. CASE x = r /\ i = at[r]
      BY <1>1, <1>12, <3>3 DEF Op
    <3>4. CASE x = r /\ i # at[r]
      <4>1. i < at[r]
        BY <1>11, <2>1, <2>3, <3>4
      <4>2. b # Plan[i].send
        BY <1>1, <2>1, <4>1, NoReturn DEF Op
      <4>3. num[r][Plan[i].send] = 0
        BY <4>1 DEF EmptyOnceSent
      <4> QED BY <1>12, <3>1, <3>4, <4>2, <4>3
    <3> QED BY <3>2, <3>3, <3>4
  <2> QED BY <2>2, <2>3 DEF EmptyOnceSent
<1> QED BY <1>1, <1>3, <1>13, <1>14, <1>16, <1>17, <1>18

LEMMA Containers ==
  ASSUME NEW x \in Container
  PROVE  \/ \E r \in Rank : x = <<"array", r>>
         \/ \E r \in Rank, z \in Zone : x = <<"buffer", r, z>>
         \/ \E s \in Rank, d \in Rank, c \in Calls : x = <<"message", s, d, c>>
BY DEF Container

LEMMA AreContainers ==
  /\ \A r \in Rank : <<"array", r>> \in Container
  /\ \A r \in Rank, z \in Zone : <<"buffer", r, z>> \in Container
  /\ \A s, d \in Rank, c \in Calls : <<"message", s, d, c>> \in Container
BY DEF Container

LEMMA InWhat ==
  ASSUME NEW t
  PROVE  /\ \A r : In(t, <<"array", r>>) <=> InArray(t, r)
         /\ \A r, z : In(t, <<"buffer", r, z>>) <=> InBuf(t, r, z)
         /\ \A s, d, c : In(t, <<"message", s, d, c>>) <=> InMsg(t, s, d, c)
BY DEF In

LEMMA InWhatNext ==
  ASSUME NEW t
  PROVE  /\ \A r : In(t, <<"array", r>>)' <=> InArray(t, r)'
         /\ \A r, z : In(t, <<"buffer", r, z>>)' <=> InBuf(t, r, z)'
         /\ \A s, d, c : In(t, <<"message", s, d, c>>)' <=> InMsg(t, s, d, c)'
BY DEF In

LEMMA Homes ==
  /\ \A r : Home(<<"array", r>>) = r
  /\ \A r, z : Home(<<"buffer", r, z>>) = Owner(r, z)
  /\ \A s, d, c : Home(<<"message", s, d, c>>) = Owner(d, Plan[c[2]].recv)
BY DEF Home

\* What is in the buffers after receiving.
LEMMA ReceiveIn ==
  ASSUME CopiesWork, CommType, DataType, EmptyOnceSent, NEW r \in Rank, InPlan(r),
         NEW data \in Seq(Tag), Distinct(data, Len(data)), Receive(r, host, data),
         \A t \in Tag : ~(/\ Among(host[r][Op(r).recv], num[r][Op(r).recv], t)
                          /\ Among(data, Len(data), t)),
         posted' = [posted EXCEPT ![r] = FALSE]
  PROVE  \A x \in Rank, z \in Zone, t \in Tag : InBuf(t, x, z)' <=>
           \/ InBuf(t, x, z) /\ ~(x = r /\ z = Op(r).send)
           \/ x = r /\ z = Op(r).recv /\ Among(data, Len(data), t)
<1>1. \A x \in Rank, z \in Zone, t \in Tag : Among(host'[x][z], num'[x][z], t) <=>
        /\ ~(x = r /\ z = Op(r).send)
        /\ \/ Among(host[x][z], num[x][z], t)
           \/ x = r /\ z = Op(r).recv /\ Among(data, Len(data), t)
  BY ReceiveData
<1>2. Op(r).recv # Op(r).send
  BY NoReturn DEF InPlan, Op
<1>3. at' = [at EXCEPT ![r] = @ + 1]
  BY DEF Receive
<1>4. posted' \in [Rank -> BOOLEAN] /\ ~posted'[r]
  BY DEF CommType
<1>5. \A x \in Rank : x # r => posted'[x] = posted[x] /\ Op(x)' = Op(x)
  BY <1>3 DEF CommType, Op
<1> SUFFICES ASSUME NEW x \in Rank, NEW z \in Zone, NEW t \in Tag
             PROVE  InBuf(t, x, z)' <=>
                      \/ InBuf(t, x, z) /\ ~(x = r /\ z = Op(r).send)
                      \/ x = r /\ z = Op(r).recv /\ Among(data, Len(data), t)
  OBVIOUS
<1>6. InBuf(t, x, z)' <=> ~(posted'[x] /\ z = Op(x).send') /\ Among(host'[x][z], num'[x][z], t)
  BY DEF InBuf, Among
<1>7. CASE x = r
  BY <1>1, <1>2, <1>4, <1>6, <1>7 DEF InBuf
<1>8. CASE x # r
  BY <1>1, <1>5, <1>6, <1>8 DEF InBuf
<1> QED BY <1>7, <1>8

LEMMA ContentIs ==
  ASSUME DataType, NEW r \in Rank, NEW z \in Zone
  PROVE  LET u == Content(host[r][z], num[r][z])
         IN  /\ u \in Seq(Tag) /\ Distinct(u, Len(u))
             /\ \A t : Among(u, Len(u), t) <=> Among(host[r][z], num[r][z], t)
<1>1. PICK n \in Nat : n = num[r][z]
  BY BufferAssumption DEF DataType
<1>2. PICK f : f = host[r][z] /\ Distinct(f, n)
  BY <1>1 DEF DataType
<1>3. PICK u : u = [k \in 1 .. n |-> f[k]]
  OBVIOUS
<1>4. Content(host[r][z], num[r][z]) = u
  BY <1>1, <1>2, <1>3 DEF Content
<1>5. u \in [1 .. n -> Tag]
  BY <1>2, <1>3 DEF Distinct
<1>6. u \in Seq(Tag) /\ Len(u) = n
  BY <1>5, FunctionIsSeq
<1>7. Distinct(u, n) /\ \A t : Among(u, n, t) <=> Among(f, n, t)
  BY <1>2, <1>3 DEF Distinct, Among
<1> QED BY <1>1, <1>2, <1>4, <1>6, <1>7

LEMMA SendAndReceive ==
  ASSUME NEW r \in Rank, InPlan(r)
  PROVE  Op(r).send \in Zone /\ Op(r).recv \in Zone /\ Op(r).send # Op(r).recv
<1>1. Op(r).recv # Op(r).send
  BY NoReturn DEF InPlan, Op
<1>2. Op(r).send \in Zone /\ Op(r).recv \in Zone
  BY OpType DEF Ops
<1> QED BY <1>1, <1>2

LEMMA CopyToSelfData ==
  ASSUME CopiesWork, CommType, DataInv, NEW r \in Rank, CopyToSelf(r)
  PROVE  DataInv'
<1> DEFINE a == Op(r).send
           b == Op(r).recv
<1>1. PICK data : data = Content(host[r][a], num[r][a])
  OBVIOUS
<1>2. InPlan(r) /\ ToSelf(r) /\ UNCHANGED <<pool, goal, posted, chan>>
  BY DEF CopyToSelf
<1>3. ToHost(r) = host /\ Receive(r, host, data)
  BY <1>1 DEF CopyToSelf, ToHost, CopiesWork
<1>4. a \in Zone /\ b \in Zone /\ a # b
  BY <1>2, SendAndReceive
<1>5. ~posted[r] /\ posted' = [posted EXCEPT ![r] = FALSE]
  BY <1>2 DEF CommType
<1>6. DataType /\ EmptyOnceSent /\ AtMostOnce /\ OnTheWayHome /\ AtLeastOnce
  BY DEF DataInv
<1> HIDE DEF a, b
<1>7. /\ data \in Seq(Tag) /\ Distinct(data, Len(data))
      /\ \A t : Among(data, Len(data), t) <=> Among(host[r][a], num[r][a], t)
  BY <1>1, <1>4, <1>6, ContentIs
<1>8. PICK x0 \in Container, x1 \in Container :
        x0 = <<"buffer", r, a>> /\ x1 = <<"buffer", r, b>>
  BY <1>4, AreContainers
<1>9. x0 # x1
  BY <1>4, <1>8
<1>10. \A t \in Tag : /\ In(t, x0) <=> Among(host[r][a], num[r][a], t)
                      /\ In(t, x1) <=> Among(host[r][b], num[r][b], t)
  BY <1>5, <1>8, InWhat DEF InBuf
<1>11. \A t \in Tag : ~(Among(host[r][b], num[r][b], t) /\ Among(data, Len(data), t))
  BY <1>6, <1>7, <1>9, <1>10 DEF AtMostOnce
<1>12. \A x \in Rank, z \in Zone, t \in Tag : InBuf(t, x, z)' <=>
         \/ InBuf(t, x, z) /\ ~(x = r /\ z = a)
         \/ x = r /\ z = b /\ In(t, x0)
  <2>1. \A x \in Rank, z \in Zone, t \in Tag : InBuf(t, x, z)' <=>
          \/ InBuf(t, x, z) /\ ~(x = r /\ z = a)
          \/ x = r /\ z = b /\ Among(data, Len(data), t)
    BY <1>2, <1>3, <1>5, <1>6, <1>7, <1>11, ReceiveIn DEF a, b
  <2> QED BY <1>7, <1>10, <2>1
<1>13. DataType' /\ EmptyOnceSent'
  <2>1. /\ host' \in Buffers /\ dev' \in Buffers /\ num' \in [Rank -> [Zone -> 0 .. BufSize]]
        /\ \A x \in Rank, z \in Zone : Distinct(host'[x][z], num'[x][z])
        /\ EmptyOnceSent'
    BY <1>2, <1>3, <1>6, <1>7, <1>11, ReceiveData DEF a, b
  <2> QED BY <1>2, <1>6, <2>1 DEF DataType, Distinct, Buffers, Parcels
<1>14. Home(x1) = Home(x0)
  <2>1. Dst(r) = r /\ Op(r) \in Ops /\ r # Null
    BY <1>2, OpType, NullIsNoRank DEF ToSelf
  <2>2. Owner(r, b) = Owner(r, a)
    BY <2>1, Forwarded DEF Dst, a, b
  <2> QED BY <1>8, <2>2, Homes
<1>15. ASSUME NEW t \in Tag, NEW x \in Container
       PROVE  In(t, x)' <=> (In(t, x) /\ x # x0) \/ (x = x1 /\ In(t, x0))
  <2>1. CASE \E s \in Rank : x = <<"array", s>>
    <3>1. PICK s \in Rank : x = <<"array", s>>
      BY <2>1
    <3>2. InArray(t, s)' <=> InArray(t, s)
      BY <1>2 DEF InArray, Among
    <3>3. x # x0 /\ x # x1
      BY <1>8, <3>1
    <3> QED BY <3>1, <3>2, <3>3, InWhat, InWhatNext
  <2>2. CASE \E s \in Rank, z \in Zone : x = <<"buffer", s, z>>
    <3>1. PICK s \in Rank, z \in Zone : x = <<"buffer", s, z>>
      BY <2>2
    <3>2. /\ x = x0 <=> s = r /\ z = a
          /\ x = x1 <=> s = r /\ z = b
      BY <1>8, <3>1
    <3>3. In(t, x)' <=> InBuf(t, s, z)'
      BY <3>1, InWhatNext
    <3>4. In(t, x) <=> InBuf(t, s, z)
      BY <3>1, InWhat
    <3> QED BY <1>12, <3>2, <3>3, <3>4
  <2>3. CASE \E s \in Rank, d \in Rank, c \in Calls : x = <<"message", s, d, c>>
    <3>1. PICK s \in Rank, d \in Rank, c \in Calls : x = <<"message", s, d, c>>
      BY <2>3
    <3>2. InMsg(t, s, d, c)' <=> InMsg(t, s, d, c)
      BY <1>2 DEF InMsg, Carried, Among
    <3>3. x # x0 /\ x # x1
      BY <1>8, <3>1
    <3> QED BY <3>1, <3>2, <3>3, InWhat, InWhatNext
  <2> QED BY <2>1, <2>2, <2>3, Containers
<1>16. AtMostOnce' /\ OnTheWayHome' /\ AtLeastOnce'
  BY <1>2, <1>6, <1>14, <1>15, MoveKeeps
<1> QED BY <1>13, <1>16 DEF DataInv

LEMMA SentAlong ==
  ASSUME NEW S, NEW q \in Seq(S), NEW m, NEW u, u = Append(q, m),
         Parcels(q), m.data \in Seq(Tag), Distinct(m.data, Len(m.data))
  PROVE  /\ Parcels(u)
         /\ \A t, c : Carried(u, c, t) <=>
              Carried(q, c, t) \/ (c = m.turn /\ Among(m.data, Len(m.data), t))
<1>1. q \in Seq(S \cup {m}) /\ m \in S \cup {m}
  OBVIOUS
<1>2. /\ Len(u) = Len(q) + 1 /\ Len(q) \in Nat
      /\ \A k \in 1 .. Len(q) : u[k] = q[k]
      /\ u[Len(q) + 1] = m
  BY <1>1, AppendProperties
<1>3. /\ \A k \in 1 .. Len(u) : \/ (k = Len(q) + 1 /\ u[k] = m)
                                \/ (k \in 1 .. Len(q) /\ u[k] = q[k])
      /\ \A k \in 1 .. Len(q) : k \in 1 .. Len(u)
      /\ Len(q) + 1 \in 1 .. Len(u)
  <2>1. \A k \in 1 .. Len(q) + 1 : k = Len(q) + 1 \/ k \in 1 .. Len(q)
    BY <1>2
  <2>2. \A k \in 1 .. Len(q) : k \in 1 .. Len(q) + 1
    BY <1>2
  <2>3. Len(q) + 1 \in 1 .. Len(q) + 1
    BY <1>2
  <2> QED BY <1>2, <2>1, <2>2, <2>3
<1>4. Parcels(u)
  BY <1>3 DEF Parcels
<1>5. ASSUME NEW t, NEW c
      PROVE  Carried(u, c, t) <=>
               Carried(q, c, t) \/ (c = m.turn /\ Among(m.data, Len(m.data), t))
  <2>1. ASSUME Carried(q, c, t)
        PROVE  Carried(u, c, t)
    BY <1>2, <1>3, <2>1 DEF Carried
  <2>2. ASSUME c = m.turn, Among(m.data, Len(m.data), t)
        PROVE  Carried(u, c, t)
    BY <1>2, <1>3, <2>2 DEF Carried
  <2>3. ASSUME Carried(u, c, t)
        PROVE  Carried(q, c, t) \/ (c = m.turn /\ Among(m.data, Len(m.data), t))
    BY <1>3, <2>3 DEF Carried
  <2> QED BY <2>1, <2>2, <2>3
<1> QED BY <1>4, <1>5

LEMMA TakenFrom ==
  ASSUME NEW S, NEW q \in Seq(S), 1 \in 1 .. Len(q), NEW u, u = RemoveAt(q, 1), Parcels(q),
         \A k \in 1 .. Len(q) : q[k].turn = q[1].turn => k = 1
  PROVE  /\ Parcels(u)
         /\ \A t, c : Carried(u, c, t) <=> Carried(q, c, t) /\ c # q[1].turn
         /\ \A t : Carried(q, q[1].turn, t) <=> Among(q[1].data, Len(q[1].data), t)
<1>1. PICK n \in Nat : n = Len(q) /\ 1 \in 1 .. n
  OBVIOUS
<1>2. Len(u) = n - 1 /\ \A i \in 1 .. n - 1 : u[i] = q[i + 1]
  BY <1>1, TakenOut
<1>3. \A i \in 1 .. n - 1 : i + 1 \in 1 .. n /\ i + 1 # 1
  BY <1>1
<1>4. \A k \in 1 .. n : k # 1 => k - 1 \in 1 .. n - 1 /\ k - 1 + 1 = k
  BY <1>1
<1>5. Parcels(u)
  BY <1>1, <1>2, <1>3 DEF Parcels
<1>6. ASSUME NEW t, NEW c
      PROVE  Carried(u, c, t) <=> Carried(q, c, t) /\ c # q[1].turn
  <2>1. ASSUME Carried(u, c, t)
        PROVE  Carried(q, c, t) /\ c # q[1].turn
    BY <1>1, <1>2, <1>3, <2>1 DEF Carried
  <2>2. ASSUME Carried(q, c, t), c # q[1].turn
        PROVE  Carried(u, c, t)
    <3>1. PICK k \in 1 .. n : q[k].turn = c /\ Among(q[k].data, Len(q[k].data), t)
      BY <1>1, <2>2 DEF Carried
    <3>2. k # 1
      BY <2>2, <3>1
    <3>3. k - 1 \in 1 .. Len(u) /\ u[k - 1] = q[k]
      BY <1>2, <1>4, <3>2
    <3> QED BY <3>1, <3>3 DEF Carried
  <2> QED BY <2>1, <2>2
<1>7. \A t : Carried(q, q[1].turn, t) <=> Among(q[1].data, Len(q[1].data), t)
  BY <1>1 DEF Carried
<1> QED BY <1>5, <1>6, <1>7

LEMMA PostSendData ==
  ASSUME CopiesWork, CommType, DataInv, NEW r \in Rank, PostSend(r)
  PROVE  DataInv'
<1> DEFINE a == Op(r).send
           d == Dst(r)
           q == chan[<<r, d>>]
           c0 == Turn(r)
<1>1. PICK data : data = Content(host[r][a], num[r][a])
  OBVIOUS
<1>2. PICK m : m = [tag |-> Op(r).tag, data |-> data, turn |-> c0]
  OBVIOUS
<1>3. /\ InPlan(r) /\ ~posted[r] /\ posted' = [posted EXCEPT ![r] = TRUE]
      /\ UNCHANGED <<pool, goal, dev, num, at, round>>
  BY DEF PostSend
<1>4. host' = host /\ chan' = IF d = Null THEN chan
                              ELSE [chan EXCEPT ![<<r, d>>] = Append(@, m)]
  <2>1. ToHost(r) = host
    BY DEF ToHost, CopiesWork
  <2> QED BY <1>1, <1>2, <2>1 DEF PostSend, Post
<1>5. a \in Zone /\ c0 \in Calls /\ c0[2] = at[r]
  BY <1>3, SendAndReceive, TurnType DEF Turn
<1>6. DataType /\ EmptyOnceSent /\ AtMostOnce /\ OnTheWayHome /\ AtLeastOnce
  BY DEF DataInv
<1>7. d \in Rank \cup {Null} /\ Op(r) \in Ops
  BY <1>3, OpType
<1>8. /\ d # Null => Owner(d, Op(r).recv) = Owner(r, a)
      /\ d = Null => Owner(r, a) = Outside
  BY <1>7, Forwarded DEF Dst
<1>9. Op(r).recv = Plan[c0[2]].recv
  BY <1>5 DEF Op
<1> HIDE DEF a, d, q, c0
<1>10. /\ data \in Seq(Tag) /\ Distinct(data, Len(data))
       /\ \A t : Among(data, Len(data), t) <=> Among(host[r][a], num[r][a], t)
  BY <1>1, <1>5, <1>6, ContentIs
<1>11. PICK x0 \in Container : x0 = <<"buffer", r, a>>
  BY <1>5, AreContainers
<1>12. \A t \in Tag : In(t, x0) <=> Among(data, Len(data), t)
  BY <1>3, <1>10, <1>11, InWhat DEF InBuf
<1>13. \A x \in Rank, z \in Zone, t \in Tag :
         InBuf(t, x, z)' <=> InBuf(t, x, z) /\ ~(x = r /\ z = a)
  <2> SUFFICES ASSUME NEW x \in Rank, NEW z \in Zone, NEW t \in Tag
               PROVE  InBuf(t, x, z)' <=> InBuf(t, x, z) /\ ~(x = r /\ z = a)
    OBVIOUS
  <2>1. Op(x)' = Op(x)
    BY <1>3 DEF Op
  <2>2. Among(host[x][z], num[x][z], t)' <=> Among(host[x][z], num[x][z], t)
    BY <1>3, <1>4 DEF Among
  <2>3. posted'[x] = IF x = r THEN TRUE ELSE posted[x]
    BY <1>3 DEF CommType
  <2> QED BY <1>3, <2>1, <2>2, <2>3 DEF InBuf, a
<1>14. \A t, x : InArray(t, x)' <=> InArray(t, x)
  BY <1>3 DEF InArray, Among
<1>15. EmptyOnceSent'
  BY <1>3, <1>6 DEF EmptyOnceSent
<1>16. DataType' <=> \A p \in Rank \X Rank : Parcels(chan[p])'
  BY <1>3, <1>4, <1>6 DEF DataType, Distinct, Buffers
<1>17. CASE d = Null
  <2>1. chan' = chan
    BY <1>4, <1>17
  <2>2. DataType'
    <3> SUFFICES ASSUME NEW y \in Rank \X Rank PROVE Parcels(chan[y])'
      BY <1>16
    <3>1. Parcels(chan[y])
      BY <1>6 DEF DataType
    <3> QED BY <2>1, <3>1 DEF Parcels, Distinct
  <2>3. Home(x0) = Outside
    BY <1>8, <1>11, <1>17, Homes
  <2>4. ASSUME NEW t \in Tag, NEW x \in Container
        PROVE  In(t, x)' <=> In(t, x) /\ x # x0
    <3>1. CASE \E s \in Rank : x = <<"array", s>>
      BY <1>11, <1>14, <3>1, InWhat, InWhatNext
    <3>2. CASE \E s \in Rank, z \in Zone : x = <<"buffer", s, z>>
      <4>1. PICK s \in Rank, z \in Zone : x = <<"buffer", s, z>>
        BY <3>2
      <4>2. x = x0 <=> s = r /\ z = a
        BY <1>11, <4>1
      <4>3. (In(t, x)' <=> InBuf(t, s, z)') /\ (In(t, x) <=> InBuf(t, s, z))
        BY <4>1, InWhat, InWhatNext
      <4> QED BY <1>13, <4>2, <4>3
    <3>3. CASE \E s \in Rank, e \in Rank, c \in Calls : x = <<"message", s, e, c>>
      <4>1. PICK s \in Rank, e \in Rank, c \in Calls : x = <<"message", s, e, c>>
        BY <3>3
      <4>2. InMsg(t, s, e, c)' <=> InMsg(t, s, e, c)
        BY <2>1 DEF InMsg, Carried, Among
      <4>3. x # x0
        BY <1>11, <4>1
      <4> QED BY <4>1, <4>2, <4>3, InWhat, InWhatNext
    <3> QED BY <3>1, <3>2, <3>3, Containers
  <2>5. AtMostOnce' /\ OnTheWayHome' /\ AtLeastOnce'
    BY <1>3, <1>6, <2>3, <2>4, DropKeeps
  <2> QED BY <1>15, <2>2, <2>5 DEF DataInv
<1>18. CASE d # Null
  <2>1. d \in Rank
    BY <1>7, <1>18
  <2>2. PICK S : q \in Seq(S)
    BY <2>1 DEF CommType, q
  <2>3. PICK p \in Rank \X Rank : p = <<r, d>>
    BY <2>1
  <2>4. PICK v : v = q
    OBVIOUS
  <2>5. PICK u : u = Append(v, m)
    OBVIOUS
  <2>6. \A y \in Rank \X Rank : chan'[y] = IF y = p THEN u ELSE chan[y]
    BY <1>4, <1>18, <2>3, <2>4, <2>5 DEF CommType, q
  <2>7. Parcels(v)
    BY <1>6, <2>1, <2>4 DEF DataType, q
  <2>8. m.data = data /\ m.turn = c0
    BY <1>2
  <2>9. /\ Parcels(u)
        /\ \A t, c : Carried(u, c, t) <=>
             Carried(v, c, t) \/ (c = c0 /\ Among(data, Len(data), t))
    BY <1>10, <2>2, <2>4, <2>5, <2>7, <2>8, SentAlong
  <2>10. DataType'
    <3> SUFFICES ASSUME NEW y \in Rank \X Rank PROVE Parcels(chan[y])'
      BY <1>16
    <3>1. PICK w : w = chan'[y]
      OBVIOUS
    <3>2. Parcels(w)
      BY <1>6, <2>6, <2>9, <3>1 DEF DataType
    <3> QED BY <3>1, <3>2 DEF Parcels, Distinct
  <2>11. PICK x1 \in Container : x1 = <<"message", r, d, c0>>
    BY <1>5, <2>1, AreContainers
  <2>12. Home(x1) = Home(x0)
    BY <1>8, <1>9, <1>11, <1>18, <2>11, Homes
  <2>13. ASSUME NEW t \in Tag, NEW x \in Container
         PROVE  In(t, x)' <=> (In(t, x) /\ x # x0) \/ (x = x1 /\ In(t, x0))
    <3>1. CASE \E s \in Rank : x = <<"array", s>>
      <4>1. PICK s \in Rank : x = <<"array", s>>
        BY <3>1
      <4>2. x # x0 /\ x # x1
        BY <1>11, <2>11, <4>1
      <4> QED BY <1>14, <4>1, <4>2, InWhat, InWhatNext
    <3>2. CASE \E s \in Rank, z \in Zone : x = <<"buffer", s, z>>
      <4>1. PICK s \in Rank, z \in Zone : x = <<"buffer", s, z>>
        BY <3>2
      <4>2. (x = x0 <=> s = r /\ z = a) /\ x # x1
        BY <1>11, <2>11, <4>1
      <4>3. (In(t, x)' <=> InBuf(t, s, z)') /\ (In(t, x) <=> InBuf(t, s, z))
        BY <4>1, InWhat, InWhatNext
      <4> QED BY <1>13, <4>2, <4>3
    <3>3. CASE \E s \in Rank, e \in Rank, c \in Calls : x = <<"message", s, e, c>>
      <4>1. PICK s \in Rank, e \in Rank, c \in Calls : x = <<"message", s, e, c>>
        BY <3>3
      <4>2. x # x0 /\ (x = x1 <=> s = r /\ e = d /\ c = c0)
        BY <1>11, <2>11, <4>1
      <4>3. PICK w : w = chan'[<<s, e>>]
        OBVIOUS
      <4>4. InMsg(t, s, e, c)' <=> Carried(w, c, t)
        BY <4>3 DEF InMsg, Carried, Among
      <4>5. InMsg(t, s, e, c) <=> Carried(chan[<<s, e>>], c, t)
        BY DEF InMsg
      <4>6. InMsg(t, s, e, c)' <=>
              InMsg(t, s, e, c) \/ (x = x1 /\ Among(data, Len(data), t))
        <5>1. CASE s = r /\ e = d
          <6>1. w = u /\ chan[<<s, e>>] = v
            BY <2>3, <2>4, <2>6, <4>3, <5>1 DEF q
          <6> QED BY <2>9, <4>2, <4>4, <4>5, <5>1, <6>1
        <5>2. CASE ~(s = r /\ e = d)
          <6>1. <<s, e>> # p /\ <<s, e>> \in Rank \X Rank
            BY <2>3, <5>2
          <6>2. w = chan[<<s, e>>]
            BY <2>6, <4>3, <6>1
          <6> QED BY <4>2, <4>4, <4>5, <5>2, <6>2
        <5> QED BY <5>1, <5>2
      <4>7. (In(t, x)' <=> InMsg(t, s, e, c)') /\ (In(t, x) <=> InMsg(t, s, e, c))
        BY <4>1, InWhat, InWhatNext
      <4> QED BY <1>12, <4>2, <4>6, <4>7
    <3> QED BY <3>1, <3>2, <3>3, Containers
  <2>14. AtMostOnce' /\ OnTheWayHome' /\ AtLeastOnce'
    BY <1>3, <1>6, <2>12, <2>13, MoveKeeps
  <2> QED BY <1>15, <2>10, <2>14 DEF DataInv
<1> QED BY <1>17, <1>18

LEMMA CompleteReceiveData ==
  ASSUME CopiesWork, MatchInv, DataInv, NEW r \in Rank, CompleteReceive(r)
  PROVE  DataInv'
<1> DEFINE a == Op(r).send
           b == Op(r).recv
           s == Src(r)
           c0 == Turn(r)
<1>1. /\ InPlan(r) /\ posted[r] /\ posted' = [posted EXCEPT ![r] = FALSE]
      /\ UNCHANGED <<pool, goal, round>>
  BY DEF CompleteReceive, MayReceive
<1>2. CommType /\ DataType /\ EmptyOnceSent /\ AtMostOnce /\ OnTheWayHome /\ AtLeastOnce
  BY DEF MatchInv, DataInv
<1>3. ~ToSelf(r) /\ c0 \in Calls /\ c0[2] = at[r]
  BY <1>1, <1>2, TurnType DEF CommType, Turn
<1>4. a \in Zone /\ b \in Zone /\ a # b
  BY <1>1, SendAndReceive
<1>5. s \in Rank \cup {Null}
  BY <1>1, OpType
<1>6. b = Plan[c0[2]].recv
  BY <1>3 DEF Op
<1>7. \A t : ~InBuf(t, r, a)
  BY <1>1 DEF InBuf
<1>8. b # a /\ \A t : InBuf(t, r, b) <=> Among(host[r][b], num[r][b], t)
  BY <1>4 DEF InBuf
<1>9. ASSUME NEW data \in Seq(Tag), Distinct(data, Len(data)), Receive(r, host, data),
             \A t \in Tag : ~(InBuf(t, r, b) /\ Among(data, Len(data), t)),
             \A p \in Rank \X Rank : Parcels(chan'[p])
      PROVE  /\ DataType' /\ EmptyOnceSent'
             /\ \A x \in Rank, z \in Zone, t \in Tag : InBuf(t, x, z)' <=>
                  InBuf(t, x, z) \/ (x = r /\ z = b /\ Among(data, Len(data), t))
  <2>1. \A t \in Tag : ~(Among(host[r][b], num[r][b], t) /\ Among(data, Len(data), t))
    BY <1>8, <1>9
  <2>2. \A x \in Rank, z \in Zone, t \in Tag : InBuf(t, x, z)' <=>
          \/ InBuf(t, x, z) /\ ~(x = r /\ z = a)
          \/ x = r /\ z = b /\ Among(data, Len(data), t)
    BY <1>1, <1>2, <1>9, <2>1, ReceiveIn
  <2>3. /\ host' \in Buffers /\ dev' \in Buffers /\ num' \in [Rank -> [Zone -> 0 .. BufSize]]
        /\ \A x \in Rank, z \in Zone : Distinct(host'[x][z], num'[x][z])
        /\ EmptyOnceSent'
    BY <1>1, <1>2, <1>9, <2>1, ReceiveData
  <2>4. DataType'
    <3> HIDE DEF a, b, s, c0
    <3> QED BY <1>1, <1>2, <1>9, <2>3 DEF DataType, Distinct, Buffers, Parcels
  <2>5. \A x \in Rank, z \in Zone, t \in Tag :
          InBuf(t, x, z) => ~(x = r /\ z = a)
    BY <1>7
  <2> HIDE DEF a, b, s, c0
  <2> QED BY <2>2, <2>3, <2>4, <2>5
<1> HIDE DEF a, b, s, c0
<1>10. \A t, x : InArray(t, x)' <=> InArray(t, x)
  BY <1>1 DEF InArray, Among
<1>11. CASE s = Null
  <2>1. Receive(r, host, <<>>) /\ chan' = chan
    BY <1>11 DEF CompleteReceive, s
  <2>2. PICK data \in Seq(Tag) : data = <<>>
    BY EmptySeq
  <2>3. Len(data) = 0 /\ Receive(r, host, data)
    BY <2>1, <2>2
  <2>4. Distinct(data, Len(data)) /\ \A t : ~Among(data, Len(data), t)
    BY <2>3 DEF Distinct, Among
  <2>5. \A p \in Rank \X Rank : Parcels(chan'[p])
    BY <1>2, <2>1 DEF DataType
  <2>6. /\ DataType' /\ EmptyOnceSent'
        /\ \A x \in Rank, z \in Zone, t \in Tag : InBuf(t, x, z)' <=> InBuf(t, x, z)
    BY <1>9, <2>3, <2>4, <2>5
  <2>7. ASSUME NEW t \in Tag, NEW x \in Container
        PROVE  In(t, x)' <=> In(t, x)
    <3>1. CASE \E y \in Rank : x = <<"array", y>>
      BY <1>10, <3>1, InWhat, InWhatNext
    <3>2. CASE \E y \in Rank, z \in Zone : x = <<"buffer", y, z>>
      BY <2>6, <3>2, InWhat, InWhatNext
    <3>3. CASE \E y \in Rank, e \in Rank, c \in Calls : x = <<"message", y, e, c>>
      <4>1. PICK y \in Rank, e \in Rank, c \in Calls : x = <<"message", y, e, c>>
        BY <3>3
      <4>2. InMsg(t, y, e, c)' <=> InMsg(t, y, e, c)
        BY <2>1 DEF InMsg, Carried, Among
      <4> QED BY <4>1, <4>2, InWhat, InWhatNext
    <3> QED BY <3>1, <3>2, <3>3, Containers
  <2>8. AtMostOnce' /\ OnTheWayHome' /\ AtLeastOnce'
    BY <1>1, <1>2, <2>7, RestKeeps
  <2> QED BY <2>6, <2>8 DEF DataInv
<1>12. CASE s # Null
  <2>1. s \in Rank
    BY <1>5, <1>12
  <2>2. PICK p \in Rank \X Rank : p = <<s, r>>
    BY <2>1
  <2>3. PICK q : q = chan[<<s, r>>]
    OBVIOUS
  <2>4. PICK S : q \in Seq(S)
    BY <1>2, <2>1, <2>3 DEF CommType
  <2>5. PICK k \in Receivable(chan, s, r, Op(r).tag) :
          Receive(r, host, chan[<<s, r>>][k].data) /\ chan' = Taken(chan, s, r, k)
    BY <1>12 DEF CompleteReceive, s
  <2>6. k = 1 /\ 1 \in 1 .. Len(q) /\ q[1].turn = c0
    <3>1. k \in DOMAIN q
      BY <2>3, <2>5 DEF Receivable
    <3>2. k = 1 /\ 1 \in DOMAIN q /\ q[1].turn = c0
      BY <1>1, <1>12, <2>3, <2>5, <3>1, FirstOne DEF s, c0
    <3>3. DOMAIN q = 1 .. Len(q)
      BY <2>4
    <3> QED BY <3>2, <3>3
  <2>7. PICK u : u = RemoveAt(q, 1)
    OBVIOUS
  <2>8. \A y \in Rank \X Rank : chan'[y] = IF y = p THEN u ELSE chan[y]
    BY <1>2, <2>2, <2>3, <2>5, <2>6, <2>7 DEF CommType, Taken
  <2>9. \A l \in 1 .. Len(q) : q[l].turn = q[1].turn => l = 1
    <3> SUFFICES ASSUME NEW l \in 1 .. Len(q), q[l].turn = q[1].turn, l # 1
                 PROVE  FALSE
      OBVIOUS
    <3>1. ChannelInv(s, r)
      BY <2>1 DEF MatchInv
    <3>2. 1 < l
      BY <2>6
    <3>3. Earlier(q[1].turn, q[l].turn)
      BY <2>3, <2>6, <3>1, <3>2 DEF ChannelInv
    <3>4. ~Earlier(c0, c0)
      BY <1>3, CallOrder
    <3> QED BY <2>6, <3>3, <3>4
  <2>10. Parcels(q)
    BY <1>2, <2>1, <2>3 DEF DataType
  <2>11. PICK data : data = q[1].data
    OBVIOUS
  <2>12. data \in Seq(Tag) /\ Distinct(data, Len(data)) /\ Receive(r, host, data)
    BY <2>3, <2>5, <2>6, <2>10, <2>11 DEF Parcels
  <2>13. /\ Parcels(u)
         /\ \A t, c : Carried(u, c, t) <=> Carried(q, c, t) /\ c # c0
         /\ \A t : Carried(q, c0, t) <=> Among(data, Len(data), t)
    BY <2>4, <2>6, <2>7, <2>9, <2>10, <2>11, TakenFrom
  <2>14. PICK x0 \in Container, x1 \in Container :
           x0 = <<"message", s, r, c0>> /\ x1 = <<"buffer", r, b>>
    BY <1>3, <1>4, <2>1, AreContainers
  <2>15. \A t : (In(t, x0) <=> Among(data, Len(data), t)) /\ (In(t, x1) <=> InBuf(t, r, b))
    BY <2>3, <2>13, <2>14, InWhat DEF InMsg
  <2>16. x0 # x1 /\ Home(x1) = Home(x0)
    BY <1>6, <2>14, Homes
  <2>17. \A t \in Tag : ~(InBuf(t, r, b) /\ Among(data, Len(data), t))
    BY <1>2, <2>15, <2>16 DEF AtMostOnce
  <2>18. \A y \in Rank \X Rank : Parcels(chan'[y])
    BY <1>2, <2>8, <2>13 DEF DataType
  <2>19. /\ DataType' /\ EmptyOnceSent'
         /\ \A x \in Rank, z \in Zone, t \in Tag : InBuf(t, x, z)' <=>
              InBuf(t, x, z) \/ (x = r /\ z = b /\ Among(data, Len(data), t))
    BY <1>9, <2>12, <2>17, <2>18
  <2>20. ASSUME NEW t \in Tag, NEW x \in Container
         PROVE  In(t, x)' <=> (In(t, x) /\ x # x0) \/ (x = x1 /\ In(t, x0))
    <3>1. CASE \E y \in Rank : x = <<"array", y>>
      <4>1. PICK y \in Rank : x = <<"array", y>>
        BY <3>1
      <4>2. x # x0 /\ x # x1
        BY <2>14, <4>1
      <4> QED BY <1>10, <4>1, <4>2, InWhat, InWhatNext
    <3>2. CASE \E y \in Rank, z \in Zone : x = <<"buffer", y, z>>
      <4>1. PICK y \in Rank, z \in Zone : x = <<"buffer", y, z>>
        BY <3>2
      <4>2. x # x0 /\ (x = x1 <=> y = r /\ z = b)
        BY <2>14, <4>1
      <4>3. (In(t, x)' <=> InBuf(t, y, z)') /\ (In(t, x) <=> InBuf(t, y, z))
        BY <4>1, InWhat, InWhatNext
      <4> QED BY <2>15, <2>19, <4>2, <4>3
    <3>3. CASE \E y \in Rank, e \in Rank, c \in Calls : x = <<"message", y, e, c>>
      <4>1. PICK y \in Rank, e \in Rank, c \in Calls : x = <<"message", y, e, c>>
        BY <3>3
      <4>2. x # x1 /\ (x = x0 <=> y = s /\ e = r /\ c = c0)
        BY <2>14, <4>1
      <4>3. PICK w : w = chan'[<<y, e>>]
        OBVIOUS
      <4>4. InMsg(t, y, e, c)' <=> Carried(w, c, t)
        BY <4>3 DEF InMsg, Carried, Among
      <4>5. InMsg(t, y, e, c) <=> Carried(chan[<<y, e>>], c, t)
        BY DEF InMsg
      <4>6. InMsg(t, y, e, c)' <=> InMsg(t, y, e, c) /\ x # x0
        <5>1. CASE y = s /\ e = r
          <6>1. w = u /\ chan[<<y, e>>] = q
            BY <2>2, <2>3, <2>8, <4>3, <5>1
          <6> QED BY <2>13, <4>2, <4>4, <4>5, <5>1, <6>1
        <5>2. CASE ~(y = s /\ e = r)
          <6>1. <<y, e>> # p /\ <<y, e>> \in Rank \X Rank
            BY <2>2, <5>2
          <6>2. w = chan[<<y, e>>]
            BY <2>8, <4>3, <6>1
          <6> QED BY <4>2, <4>4, <4>5, <5>2, <6>2
        <5> QED BY <5>1, <5>2
      <4>7. (In(t, x)' <=> InMsg(t, y, e, c)') /\ (In(t, x) <=> InMsg(t, y, e, c))
        BY <4>1, InWhat, InWhatNext
      <4> QED BY <4>2, <4>6, <4>7
    <3> QED BY <3>1, <3>2, <3>3, Containers
  <2>21. AtMostOnce' /\ OnTheWayHome' /\ AtLeastOnce'
    BY <1>1, <1>2, <2>16, <2>20, MoveKeeps
  <2> QED BY <2>19, <2>21 DEF DataInv
<1> QED BY <1>11, <1>12

LEMMA UnpackData ==
  ASSUME CopiesWork, CommType, DataInv, NEW r \in Rank, Unpack(r)
  PROVE  DataInv'
<1>1. /\ at[r] = Len(Plan) + 1 /\ at' = [at EXCEPT ![r] = 0]
      /\ dev' = dev /\ num' = [num EXCEPT ![r][Central] = 0]
      /\ UNCHANGED <<goal, host, posted, chan>>
  BY DEF Unpack, CopiesWork
<1>2. DataType /\ EmptyOnceSent /\ AtMostOnce /\ OnTheWayHome /\ AtLeastOnce
  BY DEF DataInv
<1>3. ~posted[r] /\ Central \in Zone /\ Len(Plan) \in Nat
  <2>1. Len(Plan) \in Nat
    BY ThePlan
  <2>2. ~InPlan(r)
    BY <1>1, <2>1 DEF InPlan
  <2> QED BY <2>1, <2>2, TheZones DEF CommType
<1>4. PICK s : s = pool[r]
  OBVIOUS
<1>5. s \in Seq(Tag) /\ Distinct(s, Len(s))
  BY <1>2, <1>4 DEF DataType
<1>6. PICK u : u = Content(host[r][Central], num[r][Central])
  OBVIOUS
<1>7. /\ u \in Seq(Tag) /\ Distinct(u, Len(u))
      /\ \A t : Among(u, Len(u), t) <=> Among(host[r][Central], num[r][Central], t)
  BY <1>2, <1>3, <1>6, ContentIs
<1>8. PICK v : v = Selected(u, Tag)
  OBVIOUS
<1>9. /\ v \in Seq(Tag) /\ Distinct(v, Len(v))
      /\ \A t \in Tag : Among(v, Len(v), t) <=> Among(u, Len(u), t)
  BY <1>7, <1>8, SelectedOnce
<1>10. PICK x0 \in Container, x1 \in Container :
         x0 = <<"buffer", r, Central>> /\ x1 = <<"array", r>>
  BY <1>3, AreContainers
<1>11. /\ \A t \in Tag : In(t, x0) <=> Among(v, Len(v), t)
       /\ \A t \in Tag : In(t, x1) <=> Among(s, Len(s), t)
       /\ x0 # x1 /\ Home(x1) = Home(x0)
  <2>1. \A t \in Tag : In(t, x0) <=> Among(v, Len(v), t)
    BY <1>3, <1>7, <1>9, <1>10, InWhat DEF InBuf
  <2>2. \A t \in Tag : In(t, x1) <=> Among(s, Len(s), t)
    BY <1>4, <1>10, InWhat DEF InArray
  <2>3. x0 # x1 /\ Home(x1) = Home(x0)
    BY <1>10, Homes, CentralStays
  <2> QED BY <2>1, <2>2, <2>3
<1>12. PICK w : w = s \o v
  OBVIOUS
<1>13. /\ w \in Seq(Tag) /\ Distinct(w, Len(w))
       /\ \A t \in Tag : Among(w, Len(w), t) <=> In(t, x1) \/ In(t, x0)
  <2>1. \A t \in Tag : ~(Among(s, Len(s), t) /\ Among(v, Len(v), t))
    BY <1>2, <1>11 DEF AtMostOnce
  <2>2. w \in Seq(Tag) /\ Len(w) = Len(s) + Len(v)
    BY <1>5, <1>9, <1>12
  <2>3. \A k \in 1 .. Len(s) : w[k] = s[k]
    BY <1>5, <1>9, <1>12
  <2>4. \A j \in 1 .. Len(v) : w[Len(s) + j] = v[j]
    <3> SUFFICES ASSUME NEW j \in 1 .. Len(v) PROVE w[Len(s) + j] = v[j]
      OBVIOUS
    <3>1. Len(s) \in Nat /\ Len(v) \in Nat
      BY <1>5, <1>9
    <3>2. Len(s) + j \in 1 .. Len(s) + Len(v) /\ Len(s) + j > Len(s)
          /\ Len(s) + j - Len(s) = j
      BY <3>1
    <3> QED BY <1>5, <1>9, <1>12, <3>1, <3>2, ConcatProperties
  <2>5. Len(s) \in Nat /\ Len(v) \in Nat
    BY <1>5, <1>9
  <2>6. /\ Distinct(w, Len(s) + Len(v))
        /\ \A t \in Tag : Among(w, Len(s) + Len(v), t) <=>
                            Among(s, Len(s), t) \/ Among(v, Len(v), t)
    BY <1>5, <1>9, <2>1, <2>3, <2>4, <2>5, Together
  <2> QED BY <1>11, <2>2, <2>6
<1>14. pool' = [pool EXCEPT ![r] = w]
  BY <1>4, <1>6, <1>8, <1>12 DEF Unpack
<1>15. /\ \A x \in Rank : pool'[x] = IF x = r THEN w ELSE pool[x]
       /\ \A x \in Rank, z \in Zone :
            num'[x][z] = IF x = r /\ z = Central THEN 0 ELSE num[x][z]
       /\ num' \in [Rank -> [Zone -> 0 .. BufSize]]
  <2>1. \A x \in Rank : pool'[x] = IF x = r THEN w ELSE pool[x]
    BY <1>2, <1>14 DEF DataType
  <2>2. 0 \in 0 .. BufSize
    BY BufferAssumption
  <2>3. num \in [Rank -> [Zone -> 0 .. BufSize]]
    BY <1>2 DEF DataType
  <2> QED BY <1>1, <1>3, <2>1, <2>2, <2>3
<1>16. \A f, t : Distinct(f, 0) /\ ~Among(f, 0, t)
  BY DEF Distinct, Among
<1>17. DataType'
  <2>1. pool' \in [Rank -> Seq(Tag)] /\ \A x \in Rank : Distinct(pool'[x], Len(pool'[x]))
    BY <1>2, <1>13, <1>14, <1>15 DEF DataType
  <2>2. \A x \in Rank, z \in Zone : Distinct(host'[x][z], num'[x][z])
    BY <1>1, <1>2, <1>15, <1>16 DEF DataType
  <2>3. \A p \in Rank \X Rank : Parcels(chan'[p])
    BY <1>1, <1>2 DEF DataType
  <2>4. host' \in Buffers /\ dev' \in Buffers
    BY <1>1, <1>2 DEF DataType
  <2> QED BY <1>1, <1>2, <1>15, <2>1, <2>2, <2>3, <2>4
          DEF DataType, Distinct, Buffers, Parcels
<1>18. EmptyOnceSent'
  <2>1. at \in [Rank -> 0 .. Len(Plan) + 1]
    BY DEF CommType
  <2>2. ASSUME NEW x \in Rank, at'[x] = 0, NEW z \in Zone
        PROVE  num'[x][z] = 0
    <3>1. CASE x # r
      BY <1>1, <1>2, <1>15, <2>1, <2>2, <3>1 DEF EmptyOnceSent
    <3>2. CASE x = r /\ z = Central
      BY <1>15, <3>2
    <3>3. CASE x = r /\ z # Central
      <4>1. PICK i \in 1 .. Len(Plan) : Plan[i].send = z
        BY <2>2, <3>3, ThePlan DEF Sends
      <4>2. i < at[r]
        BY <1>1, <1>3
      <4> QED BY <1>2, <1>15, <3>3, <4>1, <4>2 DEF EmptyOnceSent
    <3> QED BY <3>1, <3>2, <3>3
  <2>3. ASSUME NEW x \in Rank, NEW i \in 1 .. Len(Plan), i < at'[x]
        PROVE  num'[x][Plan[i].send] = 0
    <3>1. x # r /\ i < at[x]
      BY <1>1, <1>3, <2>1, <2>3
    <3>2. PICK z \in Zone : z = Plan[i].send
      BY ThePlan DEF Ops
    <3>3. num[x][z] = 0
      BY <1>2, <3>1, <3>2 DEF EmptyOnceSent
    <3>4. num'[x][z] = num[x][z]
      BY <1>15, <3>1
    <3> QED BY <3>2, <3>3, <3>4
  <2> QED BY <2>2, <2>3 DEF EmptyOnceSent
<1>19. \A x \in Rank, z \in Zone, t \in Tag :
         InBuf(t, x, z)' <=> InBuf(t, x, z) /\ ~(x = r /\ z = Central)
  <2> SUFFICES ASSUME NEW x \in Rank, NEW z \in Zone, NEW t \in Tag
               PROVE  InBuf(t, x, z)' <=> InBuf(t, x, z) /\ ~(x = r /\ z = Central)
    OBVIOUS
  <2>1. Among(host[x][z], num[x][z], t)' <=> Among(host[x][z], num'[x][z], t)
    BY <1>1 DEF Among
  <2>2. x # r => Op(x)' = Op(x)
    BY <1>1 DEF Op, CommType
  <2>3. CASE x = r /\ z = Central
    BY <1>15, <1>16, <2>1, <2>3 DEF InBuf
  <2>4. CASE x = r /\ z # Central
    BY <1>1, <1>3, <1>15, <2>1, <2>4 DEF InBuf
  <2>5. CASE x # r
    BY <1>1, <1>15, <2>1, <2>2, <2>5 DEF InBuf
  <2> QED BY <2>3, <2>4, <2>5
<1>20. ASSUME NEW t \in Tag, NEW x \in Container
       PROVE  In(t, x)' <=> (In(t, x) /\ x # x0) \/ (x = x1 /\ In(t, x0))
  <2>1. CASE \E y \in Rank : x = <<"array", y>>
    <3>1. PICK y \in Rank : x = <<"array", y>>
      BY <2>1
    <3>2. x # x0 /\ (x = x1 <=> y = r)
      BY <1>10, <3>1
    <3>3. PICK f : f = pool'[y]
      OBVIOUS
    <3>4. InArray(t, y)' <=> Among(f, Len(f), t)
      BY <3>3 DEF InArray, Among
    <3>5. InArray(t, y) <=> Among(pool[y], Len(pool[y]), t)
      BY DEF InArray
    <3>6. (In(t, x)' <=> InArray(t, y)') /\ (In(t, x) <=> InArray(t, y))
      BY <3>1, InWhat, InWhatNext
    <3>7. CASE y = r
      BY <1>13, <1>15, <3>2, <3>3, <3>4, <3>6, <3>7
    <3>8. CASE y # r
      BY <1>15, <3>2, <3>3, <3>4, <3>5, <3>6, <3>8
    <3> QED BY <3>7, <3>8
  <2>2. CASE \E y \in Rank, z \in Zone : x = <<"buffer", y, z>>
    <3>1. PICK y \in Rank, z \in Zone : x = <<"buffer", y, z>>
      BY <2>2
    <3>2. x # x1 /\ (x = x0 <=> y = r /\ z = Central)
      BY <1>10, <3>1
    <3>3. (In(t, x)' <=> InBuf(t, y, z)') /\ (In(t, x) <=> InBuf(t, y, z))
      BY <3>1, InWhat, InWhatNext
    <3> QED BY <1>19, <3>2, <3>3
  <2>3. CASE \E y \in Rank, e \in Rank, c \in Calls : x = <<"message", y, e, c>>
    <3>1. PICK y \in Rank, e \in Rank, c \in Calls : x = <<"message", y, e, c>>
      BY <2>3
    <3>2. InMsg(t, y, e, c)' <=> InMsg(t, y, e, c)
      BY <1>1 DEF InMsg, Carried, Among
    <3>3. x # x0 /\ x # x1
      BY <1>10, <3>1
    <3> QED BY <3>1, <3>2, <3>3, InWhat, InWhatNext
  <2> QED BY <2>1, <2>2, <2>3, Containers
<1>21. AtMostOnce' /\ OnTheWayHome' /\ AtLeastOnce'
  BY <1>1, <1>2, <1>11, <1>20, MoveKeeps
<1> QED BY <1>17, <1>18, <1>21 DEF DataInv

LEMMA PackData ==
  ASSUME CopiesWork, CommType, DataInv, NEW r \in Rank, Pack(r)
  PROVE  DataInv'
<1> DEFINE sel(zone, z) == Selected(pool[r], {t \in DOMAIN zone : zone[t] = z})
<1>1. /\ at[r] = 0 /\ at' = [at EXCEPT ![r] = 1]
      /\ UNCHANGED <<dev, posted, round, chan>>
  BY DEF Pack, CopiesWork
<1>2. DataType /\ EmptyOnceSent /\ AtMostOnce /\ OnTheWayHome /\ AtLeastOnce
  BY DEF DataInv
<1>3. PICK zone \in [{pool[r][k] : k \in DOMAIN pool[r]} -> Zone] :
        /\ goal' = [t \in Tag |-> IF t \in DOMAIN zone THEN Owner(r, zone[t]) ELSE goal[t]]
        /\ pool' = [pool EXCEPT ![r] = sel(zone, Central)]
        /\ num' = [num EXCEPT ![r] =
             [z \in Zone |-> IF z = Central THEN 0 ELSE Len(sel(zone, z))]]
        /\ host' = [host EXCEPT ![r] =
             [z \in Zone |-> IF z = Central THEN @[z] ELSE Put(@[z], 0, sel(zone, z))]]
  BY DEF Pack, CopiesWork
<1>4. PICK s : s = pool[r]
  OBVIOUS
<1>5. s \in Seq(Tag) /\ Distinct(s, Len(s))
  BY <1>2, <1>4 DEF DataType
<1>6. \A t \in Tag : t \in DOMAIN zone <=> InArray(t, r)
  <2>1. DOMAIN s = 1 .. Len(s)
    BY <1>5
  <2>2. DOMAIN zone = {s[k] : k \in DOMAIN s}
    BY <1>3, <1>4
  <2> QED BY <1>4, <2>1, <2>2 DEF InArray, Among
<1>7. PICK part : part = [z \in Zone |-> sel(zone, z)]
  OBVIOUS
<1>8. ASSUME NEW z \in Zone
      PROVE  /\ part[z] = sel(zone, z) /\ part[z] \in Seq(Tag)
             /\ Distinct(part[z], Len(part[z])) /\ Len(part[z]) \in 0 .. BufSize
             /\ \A t \in Tag : Among(part[z], Len(part[z]), t) <=>
                                 InArray(t, r) /\ zone[t] = z
  <2>1. part[z] = sel(zone, z)
    BY <1>7
  <2>2. PICK T : T = {t \in DOMAIN zone : zone[t] = z}
    OBVIOUS
  <2>3. PICK u : u = Selected(s, T)
    OBVIOUS
  <2>4. /\ u \in Seq(Tag) /\ Distinct(u, Len(u))
        /\ \A t \in Tag : Among(u, Len(u), t) <=> t \in T /\ Among(s, Len(s), t)
    BY <1>5, <2>3, SelectedOnce
  <2>5. part[z] = u
    BY <1>4, <2>1, <2>2, <2>3
  <2>6. Len(u) \in Nat /\ Len(u) <= BufSize
    BY <2>4, FewEnough
  <2>7. \A t \in Tag : t \in T /\ Among(s, Len(s), t) <=> InArray(t, r) /\ zone[t] = z
    BY <1>4, <1>6, <2>2 DEF InArray
  <2>8. Len(u) \in 0 .. BufSize
    BY <2>6, BufferAssumption
  <2> QED BY <2>1, <2>4, <2>5, <2>7, <2>8
<1> HIDE DEF sel
<1>9. Central \in Zone /\ BufSize \in Nat /\ Len(Plan) \in Nat
  BY TheZones, BufferAssumption, ThePlan
<1>10. /\ pool' = [pool EXCEPT ![r] = part[Central]]
       /\ num' = [num EXCEPT ![r] =
            [z \in Zone |-> IF z = Central THEN 0 ELSE Len(part[z])]]
       /\ host' = [host EXCEPT ![r] =
            [z \in Zone |-> IF z = Central THEN host[r][z] ELSE Put(host[r][z], 0, part[z])]]
  <2>1. \A z \in Zone : sel(zone, z) = part[z]
    BY <1>8
  <2>2. [z \in Zone |-> IF z = Central THEN 0 ELSE Len(sel(zone, z))]
          = [z \in Zone |-> IF z = Central THEN 0 ELSE Len(part[z])]
    BY <2>1
  <2>3. [z \in Zone |-> IF z = Central THEN host[r][z] ELSE Put(host[r][z], 0, sel(zone, z))]
          = [z \in Zone |-> IF z = Central THEN host[r][z] ELSE Put(host[r][z], 0, part[z])]
    BY <2>1
  <2> QED BY <1>3, <1>9, <2>1, <2>2, <2>3
<1>11. /\ \A x \in Rank : pool'[x] = IF x = r THEN part[Central] ELSE pool[x]
       /\ \A x \in Rank, z \in Zone : num'[x][z] = IF x # r THEN num[x][z]
                                       ELSE IF z = Central THEN 0 ELSE Len(part[z])
       /\ \A x \in Rank, z \in Zone : host'[x][z] = IF x # r \/ z = Central THEN host[x][z]
                                        ELSE Put(host[x][z], 0, part[z])
  BY <1>2, <1>10 DEF DataType, Buffers
<1>12. \A f, t : Distinct(f, 0) /\ ~Among(f, 0, t)
  BY DEF Distinct, Among
<1>13. ASSUME NEW z \in Zone, NEW f \in [1 .. BufSize -> Tag \cup {Junk}]
       PROVE  /\ Put(f, 0, part[z]) \in [1 .. BufSize -> Tag \cup {Junk}]
              /\ Distinct(Put(f, 0, part[z]), Len(part[z]))
              /\ \A t \in Tag : Among(Put(f, 0, part[z]), Len(part[z]), t) <=>
                                  InArray(t, r) /\ zone[t] = z
  <2>1. PICK u \in Seq(Tag) : u = part[z]
    BY <1>8
  <2>2. PICK n \in 0 .. BufSize : n = Len(u)
    BY <1>8, <2>1
  <2>3. DOMAIN u = 1 .. n /\ \A k \in 1 .. n : u[k] \in Tag /\ k \in 1 .. BufSize /\ k - 0 = k
    BY <1>9, <2>1, <2>2
  <2>4. PICK h : h = Put(f, 0, u)
    OBVIOUS
  <2>5. h = [k \in 1 .. BufSize |-> IF k - 0 \in 1 .. n THEN u[k - 0] ELSE f[k]]
    BY <2>3, <2>4 DEF Put
  <2>6. \A k \in 1 .. n : h[k] = u[k]
    BY <2>3, <2>5
  <2>7. h \in [1 .. BufSize -> Tag \cup {Junk}]
    BY <2>3, <2>5
  <2>8. Distinct(u, n) /\ \A t \in Tag : Among(u, n, t) <=> InArray(t, r) /\ zone[t] = z
    BY <1>8, <2>1, <2>2
  <2>9. Distinct(h, n) /\ \A t \in Tag : Among(h, n, t) <=> Among(u, n, t)
    BY <2>6, <2>8 DEF Distinct, Among
  <2> QED BY <2>1, <2>2, <2>4, <2>7, <2>8, <2>9
<1>14. DataType'
  <2>1. pool' \in [Rank -> Seq(Tag)] /\ \A x \in Rank : Distinct(pool'[x], Len(pool'[x]))
    BY <1>2, <1>8, <1>9, <1>10, <1>11 DEF DataType
  <2>2. goal' \in [Tag -> Rank \cup {Outside}]
    <3>1. \A t \in DOMAIN zone : zone[t] \in Zone
      BY <1>3
    <3> QED BY <1>2, <1>3, <3>1, OwnerType DEF DataType
  <2>3. num' \in [Rank -> [Zone -> 0 .. BufSize]]
    <3>1. [z \in Zone |-> IF z = Central THEN 0 ELSE Len(part[z])] \in [Zone -> 0 .. BufSize]
      <4>1. \A z \in Zone : Len(part[z]) \in 0 .. BufSize
        BY <1>8
      <4>2. 0 \in 0 .. BufSize
        BY <1>9
      <4> QED BY <4>1, <4>2
    <3> QED BY <1>2, <1>10, <3>1 DEF DataType
  <2>4. \A x \in Rank, z \in Zone : host[x][z] \in [1 .. BufSize -> Tag \cup {Junk}]
    BY <1>2 DEF DataType, Buffers
  <2>5. host' \in Buffers
    <3> DEFINE g == [z \in Zone |-> IF z = Central THEN host[r][z]
                                    ELSE Put(host[r][z], 0, part[z])]
    <3>1. g \in [Zone -> [1 .. BufSize -> Tag \cup {Junk}]]
      BY <1>13, <2>4
    <3>2. host' = [host EXCEPT ![r] = g]
      BY <1>10
    <3> HIDE DEF g
    <3> QED BY <1>2, <3>1, <3>2 DEF DataType, Buffers
  <2>6. \A x \in Rank, z \in Zone : Distinct(host'[x][z], num'[x][z])
    <3> SUFFICES ASSUME NEW x \in Rank, NEW z \in Zone
                 PROVE  Distinct(host'[x][z], num'[x][z])
      OBVIOUS
    <3>1. CASE x # r
      BY <1>2, <1>11, <3>1 DEF DataType
    <3>2. CASE x = r /\ z = Central
      BY <1>11, <1>12, <3>2
    <3>3. CASE x = r /\ z # Central
      BY <1>11, <1>13, <2>4, <3>3
    <3> QED BY <3>1, <3>2, <3>3
  <2>7. \A p \in Rank \X Rank : Parcels(chan'[p])
    BY <1>1, <1>2 DEF DataType
  <2> QED BY <1>1, <1>2, <2>1, <2>2, <2>3, <2>5, <2>6, <2>7
          DEF DataType, Distinct, Buffers, Parcels
<1>15. EmptyOnceSent'
  <2>1. at \in [Rank -> 0 .. Len(Plan) + 1] /\ at' = [at EXCEPT ![r] = 1]
    BY <1>1 DEF CommType
  <2>2. \A x \in Rank : at'[x] = IF x = r THEN 1 ELSE at[x]
    BY <2>1
  <2>3. \A i \in 1 .. Len(Plan) : ~(i < 1)
    OBVIOUS
  <2>4. \A i \in 1 .. Len(Plan) : Plan[i].send \in Zone
    BY ThePlan DEF Ops
  <2>5. \A x \in Rank, z \in Zone : x # r => num'[x][z] = num[x][z]
    BY <1>11
  <2>6. ASSUME NEW x \in Rank
        PROVE  /\ at'[x] = 0 => \A z \in Zone : num'[x][z] = 0
               /\ \A i \in 1 .. Len(Plan) : i < at'[x] => num'[x][Plan[i].send] = 0
    <3>1. CASE x = r
      BY <2>2, <2>3, <3>1
    <3>2. CASE x # r
      BY <1>2, <2>2, <2>4, <2>5, <3>2 DEF EmptyOnceSent
    <3> QED BY <3>1, <3>2
  <2> QED BY <2>6 DEF EmptyOnceSent
<1>16. ASSUME NEW t \in Tag, NEW x \in Rank
       PROVE  InArray(t, x)' <=> IF x = r THEN InArray(t, r) /\ zone[t] = Central
                                 ELSE InArray(t, x)
  <2>1. PICK f : f = pool'[x]
    OBVIOUS
  <2>2. InArray(t, x)' <=> Among(f, Len(f), t)
    BY <2>1 DEF InArray, Among
  <2>3. CASE x = r
    BY <1>8, <1>9, <1>11, <2>1, <2>2, <2>3
  <2>4. CASE x # r
    BY <1>11, <2>1, <2>2, <2>4 DEF InArray
  <2> QED BY <2>3, <2>4
<1>17. ASSUME NEW t \in Tag, NEW x \in Rank, NEW z \in Zone
       PROVE  InBuf(t, x, z)' <=> IF x = r THEN InArray(t, r) /\ zone[t] = z /\ z # Central
                                  ELSE InBuf(t, x, z)
  <2>1. PICK f, n : f = host'[x][z] /\ n = num'[x][z]
    OBVIOUS
  <2>2. InBuf(t, x, z)' <=> ~(posted'[x] /\ z = Op(x).send') /\ Among(f, n, t)
    BY <2>1 DEF InBuf, Among
  <2>3. CASE x = r
    <3>1. ~posted'[r]
      BY <1>1, <1>9 DEF CommType, InPlan
    <3>2. CASE z = Central
      BY <1>11, <1>12, <2>1, <2>2, <2>3, <3>2
    <3>3. CASE z # Central
      <4>1. host[r][z] \in [1 .. BufSize -> Tag \cup {Junk}]
        BY <1>2 DEF DataType, Buffers
      <4>2. Among(f, n, t) <=> InArray(t, r) /\ zone[t] = z
        BY <1>11, <1>13, <2>1, <2>3, <3>3, <4>1
      <4> QED BY <2>2, <2>3, <3>1, <3>3, <4>2
    <3> QED BY <3>2, <3>3
  <2>4. CASE x # r
    <3>1. Op(x)' = Op(x) /\ posted'[x] = posted[x]
      BY <1>1, <2>4 DEF Op, CommType
    <3>2. f = host[x][z] /\ n = num[x][z]
      BY <1>11, <2>1, <2>4
    <3> QED BY <2>2, <2>4, <3>1, <3>2 DEF InBuf
  <2> QED BY <2>3, <2>4
<1>18. \A t \in Tag : InArray(t, r) => zone[t] \in Zone
  BY <1>3, <1>6
<1>19. PICK dest : dest = [t \in Tag |-> IF zone[t] = Central THEN <<"array", r>>
                                         ELSE <<"buffer", r, zone[t]>>]
  OBVIOUS
<1>20. \A t \in Tag : InArray(t, r) =>
         dest[t] \in Container /\ Home(dest[t]) = goal'[t]
  <2> SUFFICES ASSUME NEW t \in Tag, InArray(t, r)
               PROVE  dest[t] \in Container /\ Home(dest[t]) = goal'[t]
    OBVIOUS
  <2>1. goal'[t] = Owner(r, zone[t])
    BY <1>3, <1>6
  <2>2. CASE zone[t] = Central
    BY <1>19, <2>1, <2>2, AreContainers, Homes, CentralStays
  <2>3. CASE zone[t] # Central
    BY <1>18, <1>19, <2>1, <2>3, AreContainers, Homes
  <2> QED BY <2>2, <2>3
<1>21. PICK x0 \in Container : x0 = <<"array", r>>
  BY AreContainers
<1>22. \A t \in Tag : In(t, x0) <=> InArray(t, r)
  BY <1>21, InWhat
<1>23. ASSUME NEW t \in Tag, NEW x \in Container
       PROVE  In(t, x)' <=> IF InArray(t, r) THEN x = dest[t] ELSE In(t, x)
  <2>1. InArray(t, r) /\ In(t, x) => x = x0
    BY <1>2, <1>22 DEF AtMostOnce
  <2>2. dest[t] = IF zone[t] = Central THEN <<"array", r>> ELSE <<"buffer", r, zone[t]>>
    BY <1>19
  <2>3. CASE \E y \in Rank : x = <<"array", y>>
    <3>1. PICK y \in Rank : x = <<"array", y>>
      BY <2>3
    <3>2. /\ x = x0 <=> y = r
          /\ x = dest[t] <=> y = r /\ zone[t] = Central
      BY <1>21, <2>2, <3>1
    <3>3. (In(t, x)' <=> InArray(t, y)') /\ (In(t, x) <=> InArray(t, y))
      BY <3>1, InWhat, InWhatNext
    <3> QED BY <1>16, <2>1, <3>2, <3>3
  <2>4. CASE \E y \in Rank, z \in Zone : x = <<"buffer", y, z>>
    <3>1. PICK y \in Rank, z \in Zone : x = <<"buffer", y, z>>
      BY <2>4
    <3>2. x # x0 /\ (x = dest[t] <=> y = r /\ zone[t] # Central /\ z = zone[t])
      BY <1>21, <2>2, <3>1
    <3>3. (In(t, x)' <=> InBuf(t, y, z)') /\ (In(t, x) <=> InBuf(t, y, z))
      BY <3>1, InWhat, InWhatNext
    <3>4. y = r => ~InBuf(t, y, z)
      BY <1>1, <1>2, <1>12 DEF EmptyOnceSent, InBuf
    <3> QED BY <1>17, <2>1, <3>2, <3>3, <3>4
  <2>5. CASE \E y \in Rank, e \in Rank, c \in Calls : x = <<"message", y, e, c>>
    <3>1. PICK y \in Rank, e \in Rank, c \in Calls : x = <<"message", y, e, c>>
      BY <2>5
    <3>2. InMsg(t, y, e, c)' <=> InMsg(t, y, e, c)
      BY <1>1 DEF InMsg, Carried, Among
    <3>3. x # x0 /\ x # dest[t]
      BY <1>21, <2>2, <3>1
    <3>4. In(t, x)' <=> In(t, x)
      BY <3>1, <3>2, InWhat, InWhatNext
    <3> QED BY <2>1, <3>3, <3>4
  <2> QED BY <2>3, <2>4, <2>5, Containers
<1>24. \A t \in Tag : ~InArray(t, r) => goal'[t] = goal[t]
  BY <1>3, <1>6
<1>25. AtMostOnce'
  BY <1>2, <1>23 DEF AtMostOnce
<1>26. OnTheWayHome'
  <2> SUFFICES ASSUME NEW t \in Tag, NEW x \in Container, In(t, x)'
               PROVE  goal'[t] = Home(x)
    BY DEF OnTheWayHome, Home
  <2> QED BY <1>2, <1>20, <1>23, <1>24 DEF OnTheWayHome
<1>27. AtLeastOnce'
  <2> SUFFICES ASSUME NEW t \in Tag, goal'[t] # Outside
               PROVE  \E x \in Container : In(t, x)'
    BY DEF AtLeastOnce
  <2> QED BY <1>2, <1>20, <1>23, <1>24 DEF AtLeastOnce
<1> QED BY <1>14, <1>15, <1>25, <1>26, <1>27 DEF DataInv

LEMMA InitData ==
  ASSUME Init
  PROVE  DataInv
<1>1. /\ pool = [r \in Rank |-> SetToSeq({t \in Tag : Start[t] = r})]
      /\ goal = Start /\ host = [r \in Rank |-> [z \in Zone |-> [k \in 1 .. BufSize |-> Junk]]]
      /\ dev = host /\ num = [r \in Rank |-> [z \in Zone |-> 0]]
      /\ at = [r \in Rank |-> 0] /\ posted = [r \in Rank |-> FALSE]
      /\ chan = [p \in Rank \X Rank |-> <<>>]
  BY DEF Init, NoMessages
<1>2. \A f, t : Distinct(f, 0) /\ ~Among(f, 0, t)
  BY DEF Distinct, Among
<1>3. ASSUME NEW r \in Rank
      PROVE  /\ pool[r] \in Seq(Tag) /\ Distinct(pool[r], Len(pool[r]))
             /\ \A t \in Tag : Among(pool[r], Len(pool[r]), t) <=> Start[t] = r
  <2> DEFINE T == {t \in Tag : Start[t] = r}
  <2>1. IsFiniteSet(T)
    BY BufferAssumption, FS_Subset
  <2>2. PICK q : q = SetToSeq(T)
    OBVIOUS
  <2>3. PICK n \in Nat : n = Cardinality(T)
    BY <2>1, FS_CardinalityType
  <2>4. /\ q \in [1 .. n -> T]
        /\ \A i, j \in 1 .. n : q[i] = q[j] => i = j
        /\ \A x \in T : \E i \in 1 .. n : q[i] = x
    BY <2>1, <2>2, <2>3, SomeOrder
  <2>5. q \in [1 .. n -> Tag]
    BY <2>4
  <2>6. q \in Seq(Tag) /\ Len(q) = n
    BY <2>5, FunctionIsSeq
  <2>7. pool[r] = q
    BY <1>1, <2>2
  <2>8. Distinct(q, n)
    BY <2>4 DEF Distinct
  <2>9. \A t \in Tag : Among(q, n, t) <=> Start[t] = r
    <3>1. \A t \in Tag : Start[t] = r <=> t \in T
      OBVIOUS
    <3> HIDE DEF T
    <3> QED BY <2>4, <3>1 DEF Among
  <2> QED BY <2>6, <2>7, <2>8, <2>9
<1>4. DataType
  <2>1. pool \in [Rank -> Seq(Tag)]
    <3>1. \A r \in Rank : pool[r] \in Seq(Tag)
      BY <1>3
    <3>2. pool = [r \in Rank |-> pool[r]]
      BY <1>1
    <3> QED BY <3>1, <3>2
  <2>2. goal \in [Tag -> Rank \cup {Outside}]
    BY <1>1, ParticleAssumption
  <2>3. host \in Buffers /\ dev \in Buffers
    BY <1>1 DEF Buffers
  <2>4. num \in [Rank -> [Zone -> 0 .. BufSize]]
    <3>1. 0 \in 0 .. BufSize
      BY BufferAssumption
    <3> QED BY <1>1, <3>1
  <2>5. \A r \in Rank, z \in Zone : Distinct(host[r][z], num[r][z])
    BY <1>1, <1>2
  <2>6. \A p \in Rank \X Rank : Len(chan[p]) = 0
    BY <1>1
  <2>7. \A p \in Rank \X Rank : Parcels(chan[p])
    BY <2>6 DEF Parcels
  <2> QED BY <1>3, <2>1, <2>2, <2>3, <2>4, <2>5, <2>7 DEF DataType
<1>5. EmptyOnceSent
  BY <1>1 DEF EmptyOnceSent
<1>6. ASSUME NEW t \in Tag, NEW x \in Container
      PROVE  In(t, x) <=> x = <<"array", Start[t]>>
  <2>1. CASE \E r \in Rank : x = <<"array", r>>
    <3>1. PICK r \in Rank : x = <<"array", r>>
      BY <2>1
    <3>2. InArray(t, r) <=> Start[t] = r
      BY <1>3 DEF InArray
    <3> QED BY <3>1, <3>2, InWhat
  <2>2. CASE \E r \in Rank, z \in Zone : x = <<"buffer", r, z>>
    <3>1. PICK r \in Rank, z \in Zone : x = <<"buffer", r, z>>
      BY <2>2
    <3>2. ~InBuf(t, r, z)
      BY <1>1, <1>2 DEF InBuf
    <3> QED BY <3>1, <3>2, InWhat
  <2>3. CASE \E s \in Rank, d \in Rank, c \in Calls : x = <<"message", s, d, c>>
    <3>1. PICK s \in Rank, d \in Rank, c \in Calls : x = <<"message", s, d, c>>
      BY <2>3
    <3>2. Len(chan[<<s, d>>]) = 0
      BY <1>1
    <3>3. ~InMsg(t, s, d, c)
      BY <3>2 DEF InMsg, Carried
    <3> QED BY <3>1, <3>3, InWhat
  <2> QED BY <2>1, <2>2, <2>3, Containers
<1>7. \A t \in Tag : Start[t] \in Rank
  BY ParticleAssumption
<1>8. AtMostOnce
  BY <1>6 DEF AtMostOnce
<1>9. OnTheWayHome
  BY <1>1, <1>6, <1>7, Homes DEF OnTheWayHome
<1>10. AtLeastOnce
  BY <1>6, <1>7, AreContainers DEF AtLeastOnce
<1> QED BY <1>4, <1>5, <1>8, <1>9, <1>10 DEF DataInv

LEMMA NextData ==
  ASSUME CopiesWork, MatchInv, DataInv, [Next]_vars
  PROVE  DataInv'
<1>1. CommType
  BY DEF MatchInv
<1>2. CASE UNCHANGED vars
  <2>1. UNCHANGED <<pool, goal, host, dev, num, at, posted, chan>>
    BY <1>2 DEF vars
  <2>2. DataType /\ EmptyOnceSent /\ AtMostOnce /\ OnTheWayHome /\ AtLeastOnce
    BY DEF DataInv
  <2>3. DataType' /\ EmptyOnceSent'
    BY <2>1, <2>2 DEF DataType, EmptyOnceSent, Distinct, Buffers, Parcels
  <2>4. ASSUME NEW t, NEW x
        PROVE  In(t, x)' <=> In(t, x)
    BY <2>1 DEF In, InArray, InBuf, InMsg, Carried, Among, Op
  <2>5. AtMostOnce' /\ OnTheWayHome' /\ AtLeastOnce'
    BY <2>1, <2>2, <2>4, RestKeeps
  <2> QED BY <2>3, <2>5 DEF DataInv
<1> QED BY <1>1, <1>2, PackData, CopyToSelfData, PostSendData, CompleteReceiveData,
           UnpackData DEF Next, Step

THEOREM Data ==
  ASSUME CopiesWork
  PROVE  Spec => [](MatchInv /\ DataInv)
<1>1. Init => MatchInv /\ DataInv
  BY InitMatch, InitData
<1>2. (MatchInv /\ DataInv) /\ [Next]_vars => (MatchInv /\ DataInv)'
  BY NextMatch, NextData
<1> QED BY <1>1, <1>2, PTL DEF Spec

--------------------------------------------------------------------------------
\* Everything has the type it should have; in particular no buffer overflows, whatever
\* comes in behind what it holds.
THEOREM TypeCorrect ==
  ASSUME CopiesWork
  PROVE  Spec => []TypeOK
<1>1. MatchInv /\ DataInv => TypeOK
  <2> SUFFICES ASSUME MatchInv, DataInv PROVE TypeOK
    OBVIOUS
  <2>1. CommType /\ DataType
    BY DEF MatchInv, DataInv
  <2>2. \A r \in Rank : \A k \in DOMAIN pool[r] : pool[r][k] \in Tag
    <3> SUFFICES ASSUME NEW r \in Rank, NEW k \in DOMAIN pool[r] PROVE pool[r][k] \in Tag
      OBVIOUS
    <3>1. pool[r] \in Seq(Tag)
      BY <2>1 DEF DataType
    <3> QED BY <3>1
  <2>3. \A r \in Rank : \A z \in Zone : num[r][z] \in 0 .. BufSize
    BY <2>1 DEF DataType
  <2> QED BY <2>1, <2>2, <2>3 DEF TypeOK, CommType, DataType
<1> QED BY <1>1, Data, PTL

\* Whoever is between two exchanges holds only particles of its own grid.
THEOREM OnlyOwnHolds ==
  ASSUME CopiesWork
  PROVE  Spec => []OnlyOwn
<1>1. MatchInv /\ DataInv => OnlyOwn
  <2> SUFFICES ASSUME DataInv, NEW r \in Rank, NEW k \in DOMAIN pool[r]
               PROVE  goal[pool[r][k]] = r
    BY DEF OnlyOwn
  <2>1. pool[r] \in Seq(Tag)
    BY DEF DataInv, DataType
  <2>2. pool[r][k] \in Tag /\ k \in 1 .. Len(pool[r])
    BY <2>1
  <2>3. In(pool[r][k], <<"array", r>>)
    BY <2>2, InWhat DEF InArray, Among
  <2> QED BY <2>2, <2>3, AreContainers, Homes DEF DataInv, OnTheWayHome
<1> QED BY <1>1, Data, PTL

\* Once all have made all calls, nothing is in buffers or under way any more.
LEMMA AllInArrays ==
  ASSUME MatchInv, DataInv, AllDone, NEW t \in Tag, NEW x \in Container, In(t, x)
  PROVE  \E r \in Rank : x = <<"array", r>>
<1>1. CommType /\ EmptyOnceSent
  BY DEF MatchInv, DataInv
<1>2. \A f : ~Among(f, 0, t)
  BY DEF Among
<1>3. \A r \in Rank : at[r] = 0 /\ round[r] = Rounds
  BY DEF AllDone, Idle
<1>4. ASSUME NEW r \in Rank, NEW z \in Zone, x = <<"buffer", r, z>>
      PROVE  FALSE
  <2>1. InBuf(t, r, z)
    BY <1>4, InWhat
  <2>2. num[r][z] = 0
    BY <1>1, <1>3 DEF EmptyOnceSent
  <2> QED BY <1>2, <2>1, <2>2 DEF InBuf
<1>5. ASSUME NEW s \in Rank, NEW d \in Rank, NEW c \in Calls, x = <<"message", s, d, c>>
      PROVE  FALSE
  <2>1. InMsg(t, s, d, c)
    BY <1>5, InWhat
  <2>2. PICK k \in 1 .. Len(chan[<<s, d>>]) : TRUE
    BY <2>1 DEF InMsg, Carried
  <2>3. PICK e : e = chan[<<s, d>>][k].turn
    OBVIOUS
  <2>4. e \in Calls /\ IsPosted(e, s) /\ ~Earlier(e, Turn(d))
    BY <2>2, <2>3 DEF MatchInv, ChannelInv, MessageInv
  <2>5. Turn(s) = <<Rounds, 0>> /\ Turn(d) = <<Rounds, 0>>
    BY <1>3 DEF Turn
  <2>6. e # <<Rounds, 0>>
    BY <2>4, ThePlan, ParticleAssumption, Advance
  <2> QED BY <2>4, <2>5, <2>6 DEF IsPosted
<1> QED BY <1>4, <1>5, Containers

\* After all calls every particle is on the rank whose grid it is in, once; and one that
\* has left the domain is on none.
THEOREM DeliveredHolds ==
  ASSUME CopiesWork
  PROVE  Spec => []Delivered
<1>1. MatchInv /\ DataInv => Delivered
  <2> SUFFICES ASSUME MatchInv, DataInv, AllDone, NEW r \in Rank, NEW t \in Tag
               PROVE  Cardinality({k \in DOMAIN pool[r] : pool[r][k] = t}) =
                        IF goal[t] = r THEN 1 ELSE 0
    BY DEF Delivered
  <2>1. /\ DataType /\ AtMostOnce /\ OnTheWayHome /\ AtLeastOnce
    BY DEF DataInv
  <2>2. PICK s \in Seq(Tag) : s = pool[r] /\ Distinct(s, Len(s))
    BY <2>1 DEF DataType
  <2>3. DOMAIN s = 1 .. Len(s)
    BY <2>2
  <2>4. PICK K : K = {k \in DOMAIN pool[r] : pool[r][k] = t}
    OBVIOUS
  <2>5. K = {k \in 1 .. Len(s) : s[k] = t}
    BY <2>2, <2>3, <2>4
  <2>6. InArray(t, r) <=> Among(s, Len(s), t)
    BY <2>2 DEF InArray
  <2>7. CASE goal[t] = r
    <3>1. r # Outside
      BY ParticleAssumption
    <3>2. PICK x \in Container : In(t, x)
      BY <2>1, <2>7, <3>1 DEF AtLeastOnce
    <3>3. PICK y \in Rank : x = <<"array", y>>
      BY <3>2, AllInArrays
    <3>4. y = r
      BY <2>1, <2>7, <3>2, <3>3, Homes DEF OnTheWayHome
    <3>5. Among(s, Len(s), t)
      BY <2>6, <3>2, <3>3, <3>4, InWhat
    <3>6. PICK k \in 1 .. Len(s) : s[k] = t
      BY <3>5 DEF Among
    <3>7. K = {k}
      BY <2>2, <2>5, <3>6 DEF Distinct
    <3>8. Cardinality(K) = 1
      BY <3>7, FS_Singleton
    <3> QED BY <2>4, <2>7, <3>8
  <2>8. CASE goal[t] # r
    <3>1. ~In(t, <<"array", r>>)
      BY <2>1, <2>8, AreContainers, Homes DEF OnTheWayHome
    <3>2. ~Among(s, Len(s), t)
      BY <2>6, <3>1, InWhat
    <3>3. K = {}
      BY <2>5, <3>2 DEF Among
    <3>4. Cardinality(K) = 0
      BY <3>3, FS_EmptySet
    <3> QED BY <2>4, <2>8, <3>4
  <2> QED BY <2>7, <2>8
<1> QED BY <1>1, Data, PTL

--------------------------------------------------------------------------------
\* The places of OneCopy, one by one.
ArrayPlace(t, w) == \E r \in Rank : \E k \in 1 .. Len(pool[r]) :
                      pool[r][k] = t /\ w = <<"array", <<r, k>>>>
BufferPlace(t, w) == \E r \in Rank, z \in Zone : \E k \in 1 .. num[r][z] :
                       /\ ~(posted[r] /\ z = Op(r).send) /\ host[r][z][k] = t
                       /\ w = <<"buffer", <<<<r, z>>, k>>>>
MessagePlace(t, w) == \E s \in Rank, d \in Rank : \E k \in 1 .. Len(chan[<<s, d>>]) :
                      \E l \in 1 .. Len(chan[<<s, d>>][k].data) :
                        /\ chan[<<s, d>>][k].data[l] = t
                        /\ w = <<"message", <<<<s, d>>, <<k, l>>>>>>

LEMMA ThePlaces ==
  ASSUME CopiesWork, CommType, DataType, NEW t \in Tag, NEW w
  PROVE  w \in Places(t) <=> ArrayPlace(t, w) \/ BufferPlace(t, w) \/ MessagePlace(t, w)
<1>1. w \in {"array"} \X InArrays(t) <=> ArrayPlace(t, w)
  <2>1. \A r \in Rank : DOMAIN pool[r] = 1 .. Len(pool[r])
    <3> SUFFICES ASSUME NEW r \in Rank PROVE DOMAIN pool[r] = 1 .. Len(pool[r])
      OBVIOUS
    <3>1. pool[r] \in Seq(Tag)
      BY DEF DataType
    <3> QED BY <3>1
  <2>2. \A v : v \in InArrays(t) <=>
          \E r \in Rank : \E k \in 1 .. Len(pool[r]) : pool[r][k] = t /\ v = <<r, k>>
    BY <2>1 DEF InArrays
  <2> QED BY <2>2 DEF ArrayPlace
<1>2. w \in {"buffer"} \X InBuffers(t) <=> BufferPlace(t, w)
  <2>1. \A k : \A r \in Rank, z \in Zone :
          k \in InBuffer(r, z, t) <=> k \in 1 .. num[r][z] /\ host[r][z][k] = t
    <3> SUFFICES ASSUME NEW r \in Rank, NEW z \in Zone, NEW k
                 PROVE  k \in InBuffer(r, z, t) <=> k \in 1 .. num[r][z] /\ host[r][z][k] = t
      OBVIOUS
    <3>1. Memory(r, z) = host[r][z]
      BY DEF Memory, CopiesWork
    <3>2. num[r][z] \in 0 .. BufSize /\ BufSize \in Nat
      BY BufferAssumption DEF DataType
    <3>3. k \in 1 .. BufSize /\ k <= num[r][z] <=> k \in 1 .. num[r][z]
      BY <3>2
    <3> QED BY <3>1, <3>3 DEF InBuffer
  <2>2. \A v : v \in InBuffers(t) <=>
          \E r \in Rank, z \in Zone : \E k \in InBuffer(r, z, t) :
            ~(posted[r] /\ z = Op(r).send) /\ v = <<<<r, z>>, k>>
    BY DEF InBuffers
  <2>3. \A v : v \in InBuffers(t) <=>
          \E r \in Rank, z \in Zone : \E k \in 1 .. num[r][z] :
            /\ ~(posted[r] /\ z = Op(r).send) /\ host[r][z][k] = t
            /\ v = <<<<r, z>>, k>>
    <3> SUFFICES ASSUME NEW v
                 PROVE  (\E r \in Rank, z \in Zone : \E k \in InBuffer(r, z, t) :
                           ~(posted[r] /\ z = Op(r).send) /\ v = <<<<r, z>>, k>>)
                        <=> \E r \in Rank, z \in Zone : \E k \in 1 .. num[r][z] :
                              /\ ~(posted[r] /\ z = Op(r).send) /\ host[r][z][k] = t
                              /\ v = <<<<r, z>>, k>>
      BY <2>2
    <3>1. ASSUME NEW r \in Rank, NEW z \in Zone
          PROVE  (\E k \in InBuffer(r, z, t) : v = <<<<r, z>>, k>>)
                 <=> \E k \in 1 .. num[r][z] : host[r][z][k] = t /\ v = <<<<r, z>>, k>>
      BY <2>1
    <3> QED BY <3>1
  <2> QED BY <2>3 DEF BufferPlace
<1>3. w \in {"message"} \X InMessages(t) <=> MessagePlace(t, w)
  <2>1. ASSUME NEW v, NEW s \in Rank, NEW d \in Rank
        PROVE  v \in InMessage(<<s, d>>, t) <=>
                 \E k \in 1 .. Len(chan[<<s, d>>]) :
                 \E l \in 1 .. Len(chan[<<s, d>>][k].data) :
                   chan[<<s, d>>][k].data[l] = t /\ v = <<k, l>>
    <3>1. PICK q : q = chan[<<s, d>>]
      OBVIOUS
    <3>2. PICK S : q \in Seq(S)
      BY <3>1 DEF CommType
    <3>3. DOMAIN q = 1 .. Len(q)
      BY <3>2
    <3>4. Parcels(q)
      BY <3>1 DEF DataType
    <3>5. \A k \in 1 .. Len(q) : DOMAIN q[k].data = 1 .. Len(q[k].data)
      BY <3>4 DEF Parcels
    <3>6. v \in InMessage(<<s, d>>, t) <=>
            \E k \in DOMAIN q : \E l \in DOMAIN q[k].data : q[k].data[l] = t /\ v = <<k, l>>
      BY <3>1 DEF InMessage
    <3> QED BY <3>1, <3>3, <3>5, <3>6
  <2>2. \A v : v \in InMessages(t) <=>
          \E p \in Rank \X Rank : \E e \in InMessage(p, t) : v = <<p, e>>
    BY DEF InMessages
  <2>3. ASSUME NEW p \in Rank \X Rank, NEW e \in InMessage(p, t),
               w = <<"message", <<p, e>>>>
        PROVE  MessagePlace(t, w)
    <3>1. PICK s, d \in Rank : p = <<s, d>>
      BY <2>3
    <3>2. e \in InMessage(<<s, d>>, t)
      BY <2>3, <3>1
    <3>3. PICK k \in 1 .. Len(chan[<<s, d>>]) : \E l \in 1 .. Len(chan[<<s, d>>][k].data) :
            chan[<<s, d>>][k].data[l] = t /\ e = <<k, l>>
      BY <2>1, <3>2
    <3> QED BY <2>3, <3>1, <3>3 DEF MessagePlace
  <2>4. ASSUME MessagePlace(t, w)
        PROVE  \E p \in Rank \X Rank : \E e \in InMessage(p, t) : w = <<"message", <<p, e>>>>
    <3>1. PICK s \in Rank, d \in Rank : \E k \in 1 .. Len(chan[<<s, d>>]) :
            \E l \in 1 .. Len(chan[<<s, d>>][k].data) :
              chan[<<s, d>>][k].data[l] = t /\ w = <<"message", <<<<s, d>>, <<k, l>>>>>>
      BY <2>4 DEF MessagePlace
    <3>2. PICK k \in 1 .. Len(chan[<<s, d>>]) : \E l \in 1 .. Len(chan[<<s, d>>][k].data) :
            chan[<<s, d>>][k].data[l] = t /\ w = <<"message", <<<<s, d>>, <<k, l>>>>>>
      BY <3>1
    <3>3. PICK l \in 1 .. Len(chan[<<s, d>>][k].data) :
            chan[<<s, d>>][k].data[l] = t /\ w = <<"message", <<<<s, d>>, <<k, l>>>>>>
      BY <3>2
    <3>4. <<k, l>> \in InMessage(<<s, d>>, t)
      BY <2>1, <3>3
    <3>5. PICK p \in Rank \X Rank : p = <<s, d>>
      OBVIOUS
    <3>6. PICK e \in InMessage(p, t) : e = <<k, l>>
      BY <3>4, <3>5
    <3> QED BY <3>3, <3>5, <3>6
  <2>5. w \in {"message"} \X InMessages(t) <=>
          \E p \in Rank \X Rank : \E e \in InMessage(p, t) : w = <<"message", <<p, e>>>>
    BY <2>2
  <2> QED BY <2>3, <2>4, <2>5
<1> QED BY <1>1, <1>2, <1>3 DEF Places

\* A particle is in the container that a place of it is in.
LEMMA PlaceHolds ==
  ASSUME MatchInv, NEW t, NEW v
  PROVE  /\ ArrayPlace(t, v) => \E r \in Rank : In(t, <<"array", r>>)
         /\ BufferPlace(t, v) => \E r \in Rank, z \in Zone : In(t, <<"buffer", r, z>>)
         /\ MessagePlace(t, v) =>
              \E s, d \in Rank, c \in Calls : In(t, <<"message", s, d, c>>)
<1>1. ASSUME ArrayPlace(t, v)
      PROVE  \E r \in Rank : In(t, <<"array", r>>)
  BY <1>1, InWhat DEF ArrayPlace, InArray, Among
<1>2. ASSUME BufferPlace(t, v)
      PROVE  \E r \in Rank, z \in Zone : In(t, <<"buffer", r, z>>)
  BY <1>2, InWhat DEF BufferPlace, InBuf, Among
<1>3. ASSUME MessagePlace(t, v)
      PROVE  \E s, d \in Rank, c \in Calls : In(t, <<"message", s, d, c>>)
  <2>1. PICK s \in Rank, d \in Rank : \E k \in 1 .. Len(chan[<<s, d>>]) :
          \E l \in 1 .. Len(chan[<<s, d>>][k].data) : chan[<<s, d>>][k].data[l] = t
    BY <1>3 DEF MessagePlace
  <2>2. PICK k \in 1 .. Len(chan[<<s, d>>]) :
          \E l \in 1 .. Len(chan[<<s, d>>][k].data) : chan[<<s, d>>][k].data[l] = t
    BY <2>1
  <2>3. PICK c \in Calls : c = chan[<<s, d>>][k].turn
    BY <2>2 DEF MatchInv, ChannelInv, MessageInv
  <2>4. In(t, <<"message", s, d, c>>)
    BY <2>2, <2>3, InWhat DEF InMsg, Carried, Among
  <2> QED BY <2>4
<1> QED BY <1>1, <1>2, <1>3

\* As long as a particle belongs to some rank there is exactly one copy of it.
THEOREM OneCopyHolds ==
  ASSUME CopiesWork
  PROVE  Spec => []OneCopy
<1>1. ASSUME MatchInv, DataInv, NEW t \in Tag, goal[t] # Outside
      PROVE  Cardinality(Places(t)) = 1
  <2>1. CommType /\ DataType /\ AtMostOnce /\ OnTheWayHome /\ AtLeastOnce
    BY <1>1 DEF MatchInv, DataInv
  <2>2. PICK x \in Container : In(t, x) /\ \A y \in Container : In(t, y) => y = x
    BY <1>1, <2>1 DEF AtLeastOnce, AtMostOnce
  <2>3. \E w : \A v : v \in Places(t) <=> v = w
    <3>1. ASSUME NEW r \in Rank, x = <<"array", r>>
          PROVE  \E w : \A v : v \in Places(t) <=> v = w
      <4>1. PICK k \in 1 .. Len(pool[r]) : pool[r][k] = t
        BY <2>2, <3>1, InWhat DEF InArray, Among
      <4>2. \A l \in 1 .. Len(pool[r]) : pool[r][l] = t => l = k
        BY <2>1, <4>1 DEF DataType, Distinct
      <4>3. ASSUME NEW v
            PROVE  ArrayPlace(t, v) <=> v = <<"array", <<r, k>>>>
        <5>1. ASSUME NEW s \in Rank, NEW l \in 1 .. Len(pool[s]), pool[s][l] = t
              PROVE  s = r /\ l = k
          <6>1. In(t, <<"array", s>>)
            BY <5>1, InWhat DEF InArray, Among
          <6>2. <<"array", s>> = <<"array", r>>
            BY <2>2, <3>1, <6>1, AreContainers
          <6> QED BY <4>2, <5>1, <6>2
        <5> QED BY <4>1, <5>1 DEF ArrayPlace
      <4>4. \A v : ~BufferPlace(t, v)
        BY <1>1, <2>2, <3>1, PlaceHolds, AreContainers
      <4>5. \A v : ~MessagePlace(t, v)
        BY <1>1, <2>2, <3>1, PlaceHolds, AreContainers
      <4> QED BY <2>1, <4>3, <4>4, <4>5, ThePlaces
    <3>2. ASSUME NEW r \in Rank, NEW z \in Zone, x = <<"buffer", r, z>>
          PROVE  \E w : \A v : v \in Places(t) <=> v = w
      <4>1. InBuf(t, r, z)
        BY <2>2, <3>2, InWhat
      <4>2. PICK k \in 1 .. num[r][z] : host[r][z][k] = t
        BY <4>1 DEF InBuf, Among
      <4>3. \A l \in 1 .. num[r][z] : host[r][z][l] = t => l = k
        BY <2>1, <4>2 DEF DataType, Distinct
      <4>4. ASSUME NEW v
            PROVE  BufferPlace(t, v) <=> v = <<"buffer", <<<<r, z>>, k>>>>
        <5>1. ASSUME NEW s \in Rank, NEW y \in Zone, NEW l \in 1 .. num[s][y],
                     ~(posted[s] /\ y = Op(s).send), host[s][y][l] = t
              PROVE  s = r /\ y = z /\ l = k
          <6>1. In(t, <<"buffer", s, y>>)
            BY <5>1, InWhat DEF InBuf, Among
          <6>2. <<"buffer", s, y>> = <<"buffer", r, z>>
            BY <2>2, <3>2, <6>1, AreContainers
          <6>3. s = r /\ y = z
            BY <6>2
          <6> QED BY <4>3, <5>1, <6>3
        <5>2. ~(posted[r] /\ z = Op(r).send)
          BY <4>1 DEF InBuf
        <5>3. ASSUME v = <<"buffer", <<<<r, z>>, k>>>>
              PROVE  BufferPlace(t, v)
          BY <4>2, <5>2, <5>3 DEF BufferPlace
        <5>4. ASSUME BufferPlace(t, v)
              PROVE  v = <<"buffer", <<<<r, z>>, k>>>>
          <6>1. PICK s \in Rank, y \in Zone : \E l \in 1 .. num[s][y] :
                  /\ ~(posted[s] /\ y = Op(s).send) /\ host[s][y][l] = t
                  /\ v = <<"buffer", <<<<s, y>>, l>>>>
            BY <5>4 DEF BufferPlace
          <6>2. PICK l \in 1 .. num[s][y] :
                  /\ ~(posted[s] /\ y = Op(s).send) /\ host[s][y][l] = t
                  /\ v = <<"buffer", <<<<s, y>>, l>>>>
            BY <6>1
          <6>3. s = r /\ y = z /\ l = k
            BY <5>1, <6>2
          <6> QED BY <6>2, <6>3
        <5> QED BY <5>3, <5>4
      <4>5. \A v : ~ArrayPlace(t, v)
        BY <1>1, <2>2, <3>2, PlaceHolds, AreContainers
      <4>6. \A v : ~MessagePlace(t, v)
        BY <1>1, <2>2, <3>2, PlaceHolds, AreContainers
      <4> QED BY <2>1, <4>4, <4>5, <4>6, ThePlaces
    <3>3. ASSUME NEW s \in Rank, NEW d \in Rank, NEW c \in Calls, x = <<"message", s, d, c>>
          PROVE  \E w : \A v : v \in Places(t) <=> v = w
      <4>1. PICK q : q = chan[<<s, d>>]
        OBVIOUS
      <4>2. Parcels(q)
        BY <2>1, <4>1 DEF DataType
      <4>3. PICK k \in 1 .. Len(q) : q[k].turn = c /\ Among(q[k].data, Len(q[k].data), t)
        BY <2>2, <3>3, <4>1, InWhat DEF InMsg, Carried
      <4>4. PICK l \in 1 .. Len(q[k].data) : q[k].data[l] = t
        BY <4>3 DEF Among
      <4>5. \A j \in 1 .. Len(q) : q[j].turn = c => j = k
        <5> SUFFICES ASSUME NEW j \in 1 .. Len(q), q[j].turn = c, j # k PROVE FALSE
          OBVIOUS
        <5>1. j < k \/ k < j
          OBVIOUS
        <5>2. Earlier(c, c)
          BY <1>1, <4>1, <4>3, <5>1 DEF MatchInv, ChannelInv
        <5> QED BY <5>2, CallOrder
      <4>6. \A i \in 1 .. Len(q[k].data) : q[k].data[i] = t => i = l
        BY <4>2, <4>4 DEF Parcels, Distinct
      <4>7. ASSUME NEW y \in Rank, NEW e \in Rank, NEW j \in 1 .. Len(chan[<<y, e>>]),
                   NEW i \in 1 .. Len(chan[<<y, e>>][j].data), chan[<<y, e>>][j].data[i] = t
            PROVE  y = s /\ e = d /\ j = k /\ i = l
        <5>1. PICK b : b = chan[<<y, e>>][j].turn
          OBVIOUS
        <5>2. b \in Calls
          BY <1>1, <5>1 DEF MatchInv, ChannelInv, MessageInv
        <5>3. In(t, <<"message", y, e, b>>)
          BY <4>7, <5>1, InWhat DEF InMsg, Carried, Among
        <5>4. <<"message", y, e, b>> = <<"message", s, d, c>>
          BY <2>2, <3>3, <5>2, <5>3, AreContainers
        <5>5. y = s /\ e = d /\ b = c
          BY <5>4
        <5>6. j = k
          BY <4>1, <4>5, <5>1, <5>5
        <5> QED BY <4>1, <4>6, <4>7, <5>5, <5>6
      <4>8. ASSUME NEW v
            PROVE  MessagePlace(t, v) <=> v = <<"message", <<<<s, d>>, <<k, l>>>>>>
        <5>1. ASSUME v = <<"message", <<<<s, d>>, <<k, l>>>>>>
              PROVE  MessagePlace(t, v)
          BY <4>1, <4>4, <5>1 DEF MessagePlace
        <5>2. ASSUME MessagePlace(t, v)
              PROVE  v = <<"message", <<<<s, d>>, <<k, l>>>>>>
          <6>1. PICK y \in Rank, e \in Rank : \E j \in 1 .. Len(chan[<<y, e>>]) :
                  \E i \in 1 .. Len(chan[<<y, e>>][j].data) :
                    /\ chan[<<y, e>>][j].data[i] = t
                    /\ v = <<"message", <<<<y, e>>, <<j, i>>>>>>
            BY <5>2 DEF MessagePlace
          <6>2. PICK j \in 1 .. Len(chan[<<y, e>>]) :
                  \E i \in 1 .. Len(chan[<<y, e>>][j].data) :
                    /\ chan[<<y, e>>][j].data[i] = t
                    /\ v = <<"message", <<<<y, e>>, <<j, i>>>>>>
            BY <6>1
          <6>3. PICK i \in 1 .. Len(chan[<<y, e>>][j].data) :
                  /\ chan[<<y, e>>][j].data[i] = t
                  /\ v = <<"message", <<<<y, e>>, <<j, i>>>>>>
            BY <6>2
          <6>4. y = s /\ e = d /\ j = k /\ i = l
            BY <4>7, <6>3
          <6> QED BY <6>3, <6>4
        <5> QED BY <5>1, <5>2
      <4>9. \A v : ~ArrayPlace(t, v)
        BY <1>1, <2>2, <3>3, PlaceHolds, AreContainers
      <4>10. \A v : ~BufferPlace(t, v)
        BY <1>1, <2>2, <3>3, PlaceHolds, AreContainers
      <4> QED BY <2>1, <4>8, <4>9, <4>10, ThePlaces
    <3> QED BY <3>1, <3>2, <3>3, Containers
  <2>4. PICK w : \A v : v \in Places(t) <=> v = w
    BY <2>3
  <2>5. Places(t) = {w}
    BY <2>4
  <2> QED BY <2>5, FS_Singleton
<1>2. MatchInv /\ DataInv => OneCopy
  BY <1>1 DEF OneCopy
<1> QED BY <1>2, Data, PTL

================================================================================
