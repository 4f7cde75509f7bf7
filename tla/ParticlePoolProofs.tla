-------------------------- MODULE ParticlePoolProofs ---------------------------
(***************************************************************************)
(* Proofs about ParticlePool.  The invariant is that the array "holds" the *)
(* tags in alive: each one in exactly one slot, and all of them among the  *)
(* counted slots.  For each operation on the array a lemma says what the   *)
(* array holds afterwards; the theorems put them together.                 *)
(***************************************************************************)
EXTENDS ParticlePool, TLAPS

Holds(s, n, T) ==
  /\ s \in Array
  /\ \A i \in Slots : i >= n => s[i] = Empty
  /\ Tags(s) = T
  /\ \A i, j \in Live(s) : s[i].tag = s[j].tag => i = j

\* A slot of an array is empty or holds a particle, and Empty is not a particle.
LEMMA SlotCases ==
  ASSUME NEW s \in Array, NEW i \in Slots
  PROVE  /\ i \in Live(s) => s[i] \in Particle
         /\ i \notin Live(s) => s[i] = Empty
BY DEF Array, Live, Particle

\* Particles with new tags, written behind the counted slots (ptc_append,
\* inject_pairs, ptc_copy_from_buffer), are added to what the array holds.
LEMMA WriteHolds ==
  ASSUME NEW s, NEW n \in 0 .. Size, NEW T, T \subseteq Tag, Holds(s, n, T),
         NEW len \in Nat, n + len <= Size,
         NEW C, C \subseteq Cell, NEW ps \in NewParticles(T, C, len),
         NEW k \in n + len .. Size
  PROVE  Holds(Write(s, n, ps, len), k, T \cup TagsIn(ps, len))
PROOF
<1> DEFINE t == Write(s, n, ps, len)
<1> USE SizeAssumption, EmptyAssumption
<1>1. /\ s \in [Slots -> Particle \cup {Empty}]
      /\ \A i \in Slots : i >= n => s[i] = Empty
      /\ Tags(s) = T
      /\ \A i, j \in Live(s) : s[i].tag = s[j].tag => i = j
  BY DEF Holds, Array
<1>2. /\ \A j \in 1 .. len : /\ ps[j] \in Particle /\ ps[j] # Empty
                             /\ ps[j].tag \in Tag /\ ps[j].tag \notin T
      /\ \A i, j \in 1 .. len : ps[i].tag = ps[j].tag => i = j
  BY DEF NewParticles, Particle, Fresh
<1>3. \A i \in Slots : t[i] = IF i >= n /\ i < n + len THEN ps[i - n + 1] ELSE s[i]
  BY DEF Write
<1>4. \A i \in Slots : i >= n /\ i < n + len => i - n + 1 \in 1 .. len
  BY DEF Slots
<1>5. t \in Array
  <2>1. \A i \in Slots : (IF i >= n /\ i < n + len THEN ps[i - n + 1] ELSE s[i])
                           \in Particle \cup {Empty}
    BY <1>1, <1>2, <1>4
  <2> QED BY <2>1 DEF Write, Array
<1>6. \A i \in Slots : i >= k => t[i] = Empty
  BY <1>1, <1>3 DEF Slots
<1>7. \A i \in Live(t) : \/ i < n /\ i \in Live(s) /\ t[i] = s[i]
                         \/ i >= n /\ i < n + len /\ t[i] = ps[i - n + 1]
  BY <1>1, <1>3 DEF Live, Slots
<1>8. \A i \in Live(s) : i < n /\ i \in Live(t) /\ t[i] = s[i]
  BY <1>1, <1>3 DEF Live, Slots
<1>9. \A i \in Live(s) : s[i].tag \in T
  BY <1>1 DEF Tags
<1>10. Tags(t) = T \cup TagsIn(ps, len)
  <2>1. ASSUME NEW x \in Tags(t) PROVE x \in T \cup TagsIn(ps, len)
    <3>1. PICK i \in Live(t) : x = t[i].tag
      BY DEF Tags
    <3>2. i \in Slots
      BY DEF Live
    <3> QED BY <3>1, <3>2, <1>4, <1>7, <1>9 DEF TagsIn
  <2>2. ASSUME NEW x \in T PROVE x \in Tags(t)
    <3>1. PICK i \in Live(s) : x = s[i].tag
      BY <1>1 DEF Tags
    <3> QED BY <3>1, <1>8 DEF Tags
  <2>3. ASSUME NEW j \in 1 .. len PROVE ps[j].tag \in Tags(t)
    <3>1. /\ n + j - 1 \in Slots /\ n + j - 1 >= n /\ n + j - 1 < n + len
          /\ (n + j - 1) - n + 1 = j
      BY DEF Slots
    <3>2. t[n + j - 1] = ps[j]
      BY <3>1, <1>3
    <3>3. n + j - 1 \in Live(t)
      BY <3>1, <3>2, <1>2 DEF Live
    <3> QED BY <3>2, <3>3 DEF Tags
  <2> QED BY <2>1, <2>2, <2>3 DEF TagsIn
<1>11. ASSUME NEW i \in Live(t), NEW j \in Live(t), t[i].tag = t[j].tag PROVE i = j
  <2>1. i \in Slots /\ j \in Slots
    BY DEF Live
  <2>2. CASE i < n /\ j < n
    BY <2>1, <2>2, <1>1, <1>7, <1>11 DEF Slots
  <2>3. CASE i >= n /\ j >= n
    <3>1. /\ i - n + 1 \in 1 .. len /\ j - n + 1 \in 1 .. len
          /\ ps[i - n + 1].tag = ps[j - n + 1].tag
      BY <2>1, <2>3, <1>4, <1>7, <1>11 DEF Slots
    <3>2. i - n + 1 = j - n + 1
      BY <3>1, <1>2
    <3> QED BY <3>2, <2>1 DEF Slots
  <2>4. CASE i < n /\ j >= n
    BY <2>1, <2>4, <1>2, <1>4, <1>7, <1>9, <1>11 DEF Slots
  <2>5. CASE i >= n /\ j < n
    BY <2>1, <2>5, <1>2, <1>4, <1>7, <1>9, <1>11 DEF Slots
  <2> QED BY <2>1, <2>2, <2>3, <2>4, <2>5 DEF Slots
<1> QED BY <1>5, <1>6, <1>10, <1>11 DEF Holds

\* Erasing slots (clear_guard_cells, copy_to_comm_buffers) takes their tags away.
LEMMA EraseHolds ==
  ASSUME NEW s, NEW n \in 0 .. Size, NEW T, Holds(s, n, T),
         NEW I \in SUBSET Live(s)
  PROVE  Holds(Erase(s, I), n, T \ {s[i].tag : i \in I})
PROOF
<1> DEFINE t == Erase(s, I)
<1>1. /\ s \in [Slots -> Particle \cup {Empty}]
      /\ \A i \in Slots : i >= n => s[i] = Empty
      /\ Tags(s) = T
      /\ \A i, j \in Live(s) : s[i].tag = s[j].tag => i = j
  BY DEF Holds, Array
<1>2. t \in Array
  BY <1>1 DEF Erase, Array
<1>3. \A i \in Slots : t[i] = IF i \in I THEN Empty ELSE s[i]
  BY DEF Erase
<1>4. \A i \in Slots : i >= n => t[i] = Empty
  BY <1>1, <1>3
<1>5. \A i : i \in Live(t) <=> i \in Live(s) /\ i \notin I
  BY <1>3 DEF Live
<1>6. \A i \in Live(t) : t[i] = s[i]
  BY <1>3, <1>5 DEF Live
<1>7. Tags(t) = T \ {s[i].tag : i \in I}
  BY <1>1, <1>5, <1>6 DEF Tags
<1>8. \A i, j \in Live(t) : t[i].tag = t[j].tag => i = j
  BY <1>1, <1>5, <1>6
<1> QED BY <1>2, <1>4, <1>7, <1>8 DEF Holds

\* Moving the particles changes where they are, not which ones there are.
LEMMA MoveHolds ==
  ASSUME NEW s, NEW n \in 0 .. Size, NEW T, Holds(s, n, T),
         NEW to \in [Counted(s, n) -> Cell], NEW t,
         t = [i \in Slots |-> IF i \in Counted(s, n) THEN [s[i] EXCEPT !.cell = to[i]]
                              ELSE s[i]]
  PROVE  Holds(t, n, T)
PROOF
<1>1. /\ s \in [Slots -> Particle \cup {Empty}]
      /\ \A i \in Slots : i >= n => s[i] = Empty
      /\ Tags(s) = T
      /\ \A i, j \in Live(s) : s[i].tag = s[j].tag => i = j
  BY DEF Holds, Array
<1>2. \A i \in Counted(s, n) : i \in Slots /\ i \in Live(s) /\ i < n
  BY DEF Counted, Live
<1>3. \A i \in Live(s) : s[i] \in Particle
  BY <1>1, SlotCases DEF Array, Live
<1>4. ASSUME NEW i \in Counted(s, n)
      PROVE  /\ [s[i] EXCEPT !.cell = to[i]] \in Particle
             /\ [s[i] EXCEPT !.cell = to[i]].tag = s[i].tag
  BY <1>2, <1>3 DEF Particle
<1>5. \A i \in Slots : t[i] = IF i \in Counted(s, n)
                              THEN [s[i] EXCEPT !.cell = to[i]] ELSE s[i]
  OBVIOUS
<1>6. t \in Array
  BY <1>1, <1>4 DEF Array
<1>7. \A i \in Slots : i >= n => t[i] = Empty
  BY <1>1, <1>2, <1>5, SizeAssumption DEF Slots
<1>8. Live(t) = Live(s)
  BY <1>2, <1>4, <1>5, EmptyAssumption DEF Live, Particle
<1>9. \A i \in Live(s) : t[i].tag = s[i].tag
  BY <1>4, <1>5 DEF Live
<1>10. Tags(t) = T
  <2>1. ASSUME NEW x \in Tags(t) PROVE x \in Tags(s)
    BY <1>8, <1>9 DEF Tags
  <2>2. ASSUME NEW x \in Tags(s) PROVE x \in Tags(t)
    BY <1>8, <1>9 DEF Tags
  <2> QED BY <2>1, <2>2, <1>1
<1> QED BY <1>1, <1>6, <1>7, <1>8, <1>9, <1>10 DEF Holds

\* Sorting and compacting (ptc_sort_by_cell) keeps what the array holds.
LEMMA PackHolds ==
  ASSUME NEW s, NEW n \in 0 .. Size, NEW T, Holds(s, n, T),
         NEW m \in 0 .. n, NEW f \in Orders(s, n, m)
  PROVE  Holds(Packed(s, n, m, f), m, T)
PROOF
<1> DEFINE t == Packed(s, n, m, f)
<1> USE SizeAssumption
<1>1. /\ s \in [Slots -> Particle \cup {Empty}]
      /\ \A i \in Slots : i >= n => s[i] = Empty
      /\ Tags(s) = T
      /\ \A i, j \in Live(s) : s[i].tag = s[j].tag => i = j
  BY DEF Holds, Array
<1>2. /\ f \in [0 .. m - 1 -> Counted(s, n)]
      /\ \A i, j \in 0 .. m - 1 : f[i] = f[j] => i = j
      /\ \A k \in Counted(s, n) : \E i \in 0 .. m - 1 : f[i] = k
  BY DEF Orders
<1>3. \A k : k \in Counted(s, n) <=> k \in Live(s)
  BY <1>1 DEF Counted, Live, Slots
<1>4. \A i \in Slots : t[i] = IF i < m THEN s[f[i]] ELSE Empty
  BY <1>1 DEF Packed, Slots
<1>5. \A i \in 0 .. m - 1 : i \in Slots /\ f[i] \in Live(s) /\ f[i] \in Slots
  BY <1>2, <1>3 DEF Slots, Live
<1>6. \A i \in Slots : i < m <=> i \in 0 .. m - 1
  BY DEF Slots
<1>7. t \in Array
  <2>1. \A i \in Slots : t[i] \in Particle \cup {Empty}
    BY <1>1, <1>4, <1>5, <1>6
  <2> QED BY <2>1 DEF Packed, Array
<1>8. \A i \in Slots : i >= m => t[i] = Empty
  BY <1>4 DEF Slots
<1>9. \A i : i \in Live(t) <=> i \in 0 .. m - 1
  BY <1>4, <1>5, <1>6 DEF Live
<1>10. \A i \in 0 .. m - 1 : t[i] = s[f[i]]
  BY <1>4, <1>5, <1>6
<1>11. Tags(t) = T
  <2>1. ASSUME NEW x \in Tags(t) PROVE x \in T
    BY <1>1, <1>5, <1>9, <1>10 DEF Tags
  <2>2. ASSUME NEW x \in T PROVE x \in Tags(t)
    <3>1. PICK k \in Live(s) : x = s[k].tag
      BY <1>1 DEF Tags
    <3>2. PICK i \in 0 .. m - 1 : f[i] = k
      BY <3>1, <1>2, <1>3
    <3> QED BY <3>1, <3>2, <1>9, <1>10 DEF Tags
  <2> QED BY <2>1, <2>2
<1>12. \A i, j \in Live(t) : t[i].tag = t[j].tag => i = j
  BY <1>1, <1>2, <1>5, <1>9, <1>10
<1> QED BY <1>7, <1>8, <1>11, <1>12 DEF Holds
--------------------------------------------------------------------------------
\* The inductive invariant of the pool: the typing of its variables, and that the
\* array holds exactly the particles in alive.
PoolInv == TypeOK /\ Holds(slot, number, alive)

\* Holds, of the variables, is what the two safety invariants and the type say.
LEMMA PoolInvSays == PoolInv <=> TypeOK /\ TailEmpty /\ HoldsExactlyAlive
BY DEF PoolInv, TypeOK, Holds, TailEmpty, HoldsExactlyAlive

\* What a sequence of new particles brings is a set of tags.
LEMMA NewTags ==
  ASSUME NEW T, NEW C, NEW len \in Nat, NEW ps \in NewParticles(T, C, len)
  PROVE  TagsIn(ps, len) \subseteq Tag
BY DEF NewParticles, TagsIn, Fresh

\* SetNum caps a count at the size of the array (particles_base::set_num).
LEMMA SetNumCaps ==
  ASSUME NEW n \in Nat
  PROVE  /\ SetNum(n) \in 0 .. Size
         /\ n <= Size => SetNum(n) = n
         /\ \A m \in 0 .. Size : m <= n => m <= SetNum(n)
BY SizeAssumption DEF SetNum

\* The pairs inject_pairs writes fit into the array and into what it counts.
LEMMA PairsFit ==
  ASSUME NEW n \in 0 .. Size, NEW want \in Nat
  PROVE  LET fit == IF want < (Size - n) \div 2 THEN want ELSE (Size - n) \div 2
         IN  /\ 2 * fit \in Nat
             /\ n + 2 * fit <= Size
             /\ n + 2 * fit <= n + 2 * want
<1>1. Size - n \in Nat
  BY SizeAssumption
<1>2. \A d \in Nat : d \div 2 \in Nat /\ 2 * (d \div 2) <= d
  OBVIOUS
<1> QED BY <1>1, <1>2, SizeAssumption

\* Tags new to a set are new to a smaller one.
LEMMA StillNew ==
  ASSUME NEW T, NEW U, U \subseteq T, NEW C, NEW len \in Nat,
         NEW ps \in NewParticles(T, C, len)
  PROVE  ps \in NewParticles(U, C, len)
BY DEF NewParticles, Fresh

\* The fresh array holds nothing.
LEMMA InitInv == Init => PoolInv
<1> SUFFICES ASSUME Init PROVE PoolInv
  OBVIOUS
<1> USE SizeAssumption, IntervalAssumption DEF Init
<1>1. slot \in Array
  BY DEF Array
<1>2. Live(slot) = {}
  BY DEF Live
<1>3. Tags(slot) = {}
  BY <1>2 DEF Tags
<1>4. TypeOK
  <2>1. 0 \in 0 .. Size /\ 0 \in 0 .. SortInterval - 1
    OBVIOUS
  <2>2. alive \subseteq Tag
    OBVIOUS
  <2> QED BY <1>1, <2>1, <2>2 DEF TypeOK
<1> QED BY <1>1, <1>2, <1>3, <1>4 DEF PoolInv, Holds

\* ptc_append
LEMMA AppendInv == PoolInv /\ Append1 /\ UNCHANGED comm => PoolInv'
<1> SUFFICES ASSUME PoolInv, Append1, UNCHANGED comm PROVE PoolInv'
  OBVIOUS
<1> USE DEF PoolInv
<1>1. CASE number = Size /\ UNCHANGED <<slot, number, alive>>
  BY <1>1 DEF Append1, TypeOK, Holds
<1>2. CASE /\ number < Size
           /\ \E ps \in NewParticles(alive, Cell, 1) :
                /\ slot' = Write(slot, number, ps, 1)
                /\ number' = SetNum(number + 1)
                /\ alive' = alive \cup TagsIn(ps, 1)
  <2>1. PICK ps \in NewParticles(alive, Cell, 1) :
          /\ slot' = Write(slot, number, ps, 1)
          /\ number' = SetNum(number + 1)
          /\ alive' = alive \cup TagsIn(ps, 1)
    BY <1>2
  <2>2. number \in 0 .. Size /\ alive \subseteq Tag /\ number + 1 <= Size
    BY <1>2, SizeAssumption DEF TypeOK
  <2>3. number' \in number + 1 .. Size
    BY <2>1, <2>2, SizeAssumption DEF SetNum
  <2>4. Holds(slot, number, alive)'
    BY <2>1, <2>2, <2>3, WriteHolds
  <2>5. alive' \subseteq Tag
    BY <2>1, <2>2, NewTags
  <2>6. TypeOK'
    BY <1>2, <2>2, <2>3, <2>4, <2>5, SizeAssumption DEF Append1, TypeOK, Holds
  <2> QED BY <2>4, <2>6
<1> QED BY <1>1, <1>2 DEF Append1

\* ptc_injector::inject_pairs
LEMMA InjectInv == PoolInv /\ InjectPairs /\ UNCHANGED comm => PoolInv'
<1> SUFFICES ASSUME PoolInv, InjectPairs, UNCHANGED comm PROVE PoolInv'
  OBVIOUS
<1> USE DEF PoolInv
<1>1. PICK want \in 1 .. MaxPairs :
        LET fit == PairsThatFit(want)
        IN  /\ \E ps \in NewParticles(alive, Cell \ Guard, 2 * fit) :
                 /\ SameCell(ps, fit)
                 /\ slot' = Write(slot, number, ps, 2 * fit)
                 /\ alive' = alive \cup TagsIn(ps, 2 * fit)
            /\ number' = SetNum(number + 2 * want)
  BY DEF InjectPairs
<1> DEFINE len == 2 * PairsThatFit(want)
<1>2. PICK ps \in NewParticles(alive, Cell \ Guard, len) :
        /\ slot' = Write(slot, number, ps, len)
        /\ alive' = alive \cup TagsIn(ps, len)
  BY <1>1
<1>3. number \in 0 .. Size /\ alive \subseteq Tag /\ want \in Nat
  BY <1>1, BoundAssumption DEF TypeOK
<1>4. len \in Nat /\ number + len <= Size /\ number + len <= number + 2 * want
  BY <1>3, PairsFit DEF PairsThatFit
<1>5. number' \in number + len .. Size
  BY <1>1, <1>3, <1>4, SizeAssumption DEF SetNum
<1> HIDE DEF len
<1>6. Holds(slot, number, alive)'
  BY <1>2, <1>3, <1>4, <1>5, WriteHolds
<1>7. alive' \subseteq Tag
  BY <1>2, <1>3, <1>4, NewTags
<1>8. number' \in 0 .. Size
  BY <1>3, <1>4, <1>5, SizeAssumption
<1>9. TypeOK'
  BY <1>6, <1>7, <1>8 DEF InjectPairs, TypeOK, Holds
<1> QED BY <1>6, <1>9

\* update_particles
LEMMA MoveInv == PoolInv /\ MoveParticles /\ UNCHANGED comm => PoolInv'
<1> SUFFICES ASSUME PoolInv, MoveParticles, UNCHANGED comm PROVE PoolInv'
  OBVIOUS
<1> USE DEF PoolInv
<1>1. PICK to \in [Counted(slot, number) -> Cell] :
        slot' = [i \in Slots |-> IF i \in Counted(slot, number)
                                 THEN [slot[i] EXCEPT !.cell = to[i]]
                                 ELSE slot[i]]
  BY DEF MoveParticles
<1>2. number \in 0 .. Size
  BY DEF TypeOK
<1>3. Holds(slot', number, alive)
  BY <1>1, <1>2, MoveHolds
<1>4. Holds(slot, number, alive)'
  BY <1>3 DEF MoveParticles
<1>5. TypeOK'
  BY <1>3 DEF MoveParticles, TypeOK, Holds
<1> QED BY <1>4, <1>5

\* send_particles: what the neighbours sent is new to this rank even after the
\* particles that left are forgotten.
LEMMA SendInv == PoolInv /\ SendParticles /\ UNCHANGED comm => PoolInv'
<1> SUFFICES ASSUME PoolInv, SendParticles, UNCHANGED comm PROVE PoolInv'
  OBVIOUS
<1> USE DEF PoolInv
<1>1. CASE ~comm
  BY <1>1 DEF SendParticles, TypeOK, Holds
<1>2. CASE comm
  <2> DEFINE gone == InGuard(slot, number)
             left == {slot[i].tag : i \in gone}
             stay == Erase(slot, gone)
             room == Size - number
  <2>1. PICK come \in 0 .. MaxArrivals :
          LET fit == IF come < room THEN come ELSE room
          IN  /\ \E ps \in NewParticles(alive, Cell \ Guard, fit) :
                   /\ slot' = Write(stay, number, ps, fit)
                   /\ alive' = (alive \ left) \cup TagsIn(ps, fit)
              /\ number' = SetNum(number + come)
    BY <1>2 DEF SendParticles
  <2> DEFINE fit == IF come < room THEN come ELSE room
  <2>2. PICK ps \in NewParticles(alive, Cell \ Guard, fit) :
          /\ slot' = Write(stay, number, ps, fit)
          /\ alive' = (alive \ left) \cup TagsIn(ps, fit)
    BY <2>1
  <2>3. number \in 0 .. Size /\ alive \subseteq Tag /\ come \in Nat
    BY <2>1, BoundAssumption DEF TypeOK
  <2>4. fit \in Nat /\ number + fit <= Size
    BY <2>3, SizeAssumption
  <2>5. number' \in number + fit .. Size
    BY <2>1, <2>3, SizeAssumption DEF SetNum
  <2>7. gone \in SUBSET Live(slot)
    BY DEF InGuard, Counted
  <2>8. Holds(stay, number, alive \ left)
    BY <2>3, <2>7, EraseHolds
  <2> HIDE DEF gone, left, stay, fit
  <2>9. ps \in NewParticles(alive \ left, Cell \ Guard, fit)
    BY <2>2, <2>4, StillNew
  <2>10. Holds(slot, number, alive)'
    BY <2>2, <2>3, <2>4, <2>5, <2>8, <2>9, WriteHolds
  <2>11. alive' \subseteq Tag
    BY <2>2, <2>3, <2>4, NewTags
  <2>12. number' \in 0 .. Size
    BY <2>3, <2>4, <2>5, SizeAssumption
  <2>13. TypeOK'
    BY <2>10, <2>11, <2>12 DEF SendParticles, TypeOK, Holds
  <2> QED BY <2>10, <2>13
<1> QED BY <1>1, <1>2

\* clear_guard_cells
LEMMA ClearInv == PoolInv /\ ClearGuardCells /\ UNCHANGED comm => PoolInv'
<1> SUFFICES ASSUME PoolInv, ClearGuardCells, UNCHANGED comm PROVE PoolInv'
  OBVIOUS
<1> USE DEF PoolInv
<1>1. InGuard(slot, number) \in SUBSET Live(slot) /\ number \in 0 .. Size
  BY DEF InGuard, Counted, TypeOK
<1>2. Holds(slot', number, alive')
  BY <1>1, EraseHolds DEF ClearGuardCells
<1>3. Holds(slot, number, alive)'
  BY <1>2 DEF ClearGuardCells
<1>4. TypeOK'
  BY <1>2 DEF ClearGuardCells, TypeOK, Holds
<1> QED BY <1>3, <1>4

\* sort_particles
LEMMA SortInv == PoolInv /\ SortParticles /\ UNCHANGED comm => PoolInv'
<1> SUFFICES ASSUME PoolInv, SortParticles, UNCHANGED comm PROVE PoolInv'
  OBVIOUS
<1> USE DEF PoolInv
<1>1. number \in 0 .. Size
  BY DEF TypeOK
<1>2. Holds(slot, number, alive)' /\ number' \in 0 .. Size
  <2>1. CASE Sorting
    <3>1. PICK m \in 0 .. number : \E f \in Orders(slot, number, m) :
            slot' = Packed(slot, number, m, f) /\ number' = m
      BY <2>1 DEF SortParticles
    <3>2. Holds(slot', m, alive)
      BY <1>1, <3>1, PackHolds
    <3>3. m \in 0 .. Size
      BY <1>1, SizeAssumption
    <3> QED BY <3>1, <3>2, <3>3 DEF SortParticles
  <2>2. CASE ~Sorting
    BY <1>1, <2>2 DEF SortParticles, Holds
  <2> QED BY <2>1, <2>2
<1>3. tick' \in 0 .. SortInterval - 1
  <2>1. tick \in Nat
    BY IntervalAssumption DEF TypeOK
  <2> QED BY <2>1, IntervalAssumption DEF SortParticles
<1>4. TypeOK'
  BY <1>2, <1>3 DEF SortParticles, TypeOK, Holds
<1> QED BY <1>2, <1>4

\* PoolInv is inductive.
LEMMA Inductive == PoolInv /\ [Next]_vars => PoolInv'
<1> SUFFICES ASSUME PoolInv, [Next]_vars PROVE PoolInv'
  OBVIOUS
<1>1. CASE UNCHANGED vars
  BY <1>1 DEF vars, PoolInv, TypeOK, Holds
<1> QED BY <1>1, AppendInv, InjectInv, MoveInv, SendInv, ClearInv, SortInv DEF Next, Update

\* The variables keep their types: in particular number() stays within the array
\* through every append, injection, migration and sort.
THEOREM TypeCorrect == Spec => []TypeOK
<1>1. PoolInv => TypeOK
  BY DEF PoolInv
<1> QED BY InitInv, Inductive, <1>1, PTL DEF Spec

\* No particle ever lies beyond the counted slots, whatever the size of the array
\* and the sort interval are.
THEOREM TailStaysEmpty == Spec => []TailEmpty
<1>1. PoolInv => TailEmpty
  BY PoolInvSays
<1> QED BY InitInv, Inductive, <1>1, PTL DEF Spec

\* The array always holds exactly the particles that it was given and that have
\* not left: none is lost, none comes back, none is there twice.
THEOREM NothingLost == Spec => []HoldsExactlyAlive
<1>1. PoolInv => HoldsExactlyAlive
  BY PoolInvSays
<1> QED BY InitInv, Inductive, <1>1, PTL DEF Spec

\* With a communicator, what is left after send_particles is inside: the counted
\* slots it did not take from or write to are empty or hold a particle that was
\* not in a guard cell.
LEMMA SendClears ==
  PoolInv /\ SendParticles /\ comm => (InGuard(slot, number) = {})'
<1> SUFFICES ASSUME PoolInv, SendParticles, comm, NEW i \in InGuard(slot', number')
             PROVE  FALSE
  BY DEF InGuard, Counted, Live
<1> USE DEF PoolInv
<1> DEFINE gone == InGuard(slot, number)
           stay == Erase(slot, gone)
           room == Size - number
<1>1. PICK come \in 0 .. MaxArrivals :
        LET fit == IF come < room THEN come ELSE room
        IN  \E ps \in NewParticles(alive, Cell \ Guard, fit) :
              slot' = Write(stay, number, ps, fit)
  BY DEF SendParticles
<1> DEFINE fit == IF come < room THEN come ELSE room
<1>2. PICK ps \in NewParticles(alive, Cell \ Guard, fit) :
        slot' = Write(stay, number, ps, fit)
  BY <1>1
<1>3. i \in Slots /\ slot'[i] # Empty /\ slot'[i].cell \in Guard
  BY DEF InGuard, Counted, Live
<1>4. fit \in Nat /\ number \in 0 .. Size
  BY <1>1, BoundAssumption, SizeAssumption DEF TypeOK
<1>5. CASE i >= number /\ i < number + fit
  <2>1. slot'[i] = ps[i - number + 1]
    BY <1>2, <1>3, <1>5 DEF Write
  <2>2. i - number + 1 \in 1 .. fit
    BY <1>3, <1>4, <1>5 DEF Slots
  <2>3. ps[i - number + 1].cell \notin Guard
    BY <2>2, <1>4 DEF NewParticles
  <2> QED BY <2>1, <2>3, <1>3
<1>6. CASE ~(i >= number /\ i < number + fit)
  <2>1. slot'[i] = stay[i]
    BY <1>2, <1>3, <1>6 DEF Write
  <2>2. i \notin gone /\ slot[i] = slot'[i]
    BY <2>1, <1>3 DEF Erase
  <2>3. i < number
    BY <2>2, <1>3, <1>4 DEF Holds, Slots
  <2> QED BY <2>2, <2>3, <1>3 DEF InGuard, Counted, Live
<1> QED BY <1>5, <1>6

\* clear_guard_cells visits the same slots that it is judged by.
LEMMA ClearClears == ClearGuardCells => (InGuard(slot, number) = {})'
BY DEF ClearGuardCells, InGuard, Counted, Live, Erase

\* When update comes to sort, no particle is in a guard cell.
THEOREM GuardsCleared == Spec => []NoneInGuard
<1> DEFINE Inv == PoolInv /\ NoneInGuard
<1>1. Init => Inv
  BY InitInv DEF Init, NoneInGuard
<1>2. Inv /\ [Next]_vars => Inv'
  <2> SUFFICES ASSUME Inv, [Next]_vars PROVE Inv'
    OBVIOUS
  <2>0. UNCHANGED comm
    BY DEF Next, vars
  <2>1. PoolInv'
    BY Inductive
  <2>2. CASE UNCHANGED vars
    BY <2>1, <2>2 DEF vars, NoneInGuard
  <2>3. CASE Append1 \/ InjectPairs
    BY <2>1, <2>3 DEF Append1, InjectPairs, NoneInGuard
  <2>4. CASE MoveParticles \/ SortParticles
    BY <2>1, <2>4 DEF MoveParticles, SortParticles, NoneInGuard
  <2>5. CASE SendParticles
    BY <2>0, <2>1, <2>5, SendClears DEF SendParticles, NoneInGuard
  <2>6. CASE ClearGuardCells
    BY <2>1, <2>6, ClearClears DEF NoneInGuard
  <2> QED BY <2>2, <2>3, <2>4, <2>5, <2>6 DEF Next, Update
<1> QED BY <1>1, <1>2, PTL DEF Spec

================================================================================
