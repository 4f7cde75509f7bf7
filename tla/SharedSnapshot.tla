----------------------------- MODULE SharedSnapshot ----------------------------
(***************************************************************************)
(* What the ranks of a run write together into one file, and read back     *)
(* from it: the snapshot of a field, of the particles and of the random    *)
(* number generators, and the downsampled output of a field.  Each rank    *)
(* writes its part of a data set (H5File::write_parallel) and has to find  *)
(* the same part again after a restart (H5File::read_subset), when its     *)
(* memory is full of other things: the exporter loads the snapshot after   *)
(* the initial conditions have been set up and every other system has run. *)
(* When files are created, and what a crash does to them, is in module     *)
(* Checkpoint.                                                             *)
(***************************************************************************)
EXTENDS LocalGrid

CONSTANTS PtcSize,   \* particles_base::size()
          Numbers,   \* bound: how many particles the ranks have in the snapshot
          Down,      \* m_downsample
          Unset,     \* what is in a file where nobody has written
          Empty      \* an unoccupied particle slot

ASSUME SizeAssumption == PtcSize \in Nat \ {0} /\ Numbers \subseteq [Rank -> 0 .. PtcSize]
ASSUME UnsetAssumption == Unset \notin [run : {1, 2}, cell : [Axis -> Int]]
                                       \cup [run : {1, 2}, rank : Rank, slot : Nat]
\* Every rank averages whole blocks of its own cells.  The code does not check it.
ASSUME DownAssumption == Down \in Nat \ {0} /\ \A k \in Axis : Inner[k] % Down = 0

VARIABLES device,    \* the systems run on the device (data_mem_type is host_device)
          run,       \* 1, or 2 after the restart
          field,     \* the two copies of each rank's field
          slot,      \* the particle array of each rank
          number,    \* particles_base::number()
          rng,       \* the two copies of each rank's rng_states
          snapshot,  \* the snapshot file
          output,    \* a field in a file of the regular output
          at,        \* how far each rank has come
          saved      \* history: number, when the snapshot was written

vars == <<device, run, field, slot, number, rng, snapshot, output, at, saved>>

--------------------------------------------------------------------------------
\* A buffer has a copy on the host and, if the systems run on the device, another one
\* there, which is the one they use.
Both(x) == [host |-> x, dev |-> x]
InUse(b) == IF device THEN b.dev ELSE b.host
CopyToHost(b) == IF device THEN [b EXCEPT !.host = b.dev] ELSE b
\* Mutant of CopyToDevice: the copy is forgotten.
NoCopyToDevice(b) == b
CopyToDevice(b) == IF device THEN [b EXCEPT !.dev = b.host] ELSE b

\* Data sets and arrays are boxes of cells: ext cells along each axis, from "from" on.
InBox(c, from, ext) == \A k \in Axis : from[k] <= c[k] /\ c[k] < from[k] + ext[k]
Cells(ext) == {c \in [Axis -> 0 .. Max({ext[k] : k \in Axis}) - 1] :
                 \A k \in Axis : c[k] < ext[k]}
Shift(c, from, to) == [k \in Axis |-> c[k] - from[k] + to[k]]

\* H5File::write_parallel: the box at "from" of the array a goes to the box at "to".
WriteBox(file, a, to, ext, from) ==
  [c \in DOMAIN file |-> IF InBox(c, to, ext) THEN a[Shift(c, to, from)] ELSE file[c]]
\* H5File::read_subset: the box at "from" of the file goes to the box at "to" of a.
ReadBox(a, file, from, ext, to) ==
  [c \in DOMAIN a |-> IF InBox(c, to, ext) THEN file[Shift(c, to, from)] ELSE a[c]]

\* compute_snapshot_ext_offset: besides its own cells a rank at an end of the domain
\* has the guard cells there, also when the axis is periodic.
Zero == [k \in Axis |-> 0]
Offset(r) == [k \in Axis |-> r[k] * Inner[k]]
ExtTotal == [k \in Axis |-> Extent[k] * Inner[k] + 2 * GuardOf[k]]
\* Mutant of Ext: the guard cells at the right end are left out.
ExtShort(r) == [k \in Axis |-> Inner[k] + (IF r[k] = 0 THEN GuardOf[k] ELSE 0)]
Ext(r) == [k \in Axis |-> Inner[k] + (IF r[k] = 0 THEN GuardOf[k] ELSE 0)
                          + (IF r[k] = Extent[k] - 1 THEN GuardOf[k] ELSE 0)]
PosArray(r) == [k \in Axis |-> IF Offset(r)[k] > 0 THEN GuardOf[k] ELSE 0]
PosFile(r) == [k \in Axis |-> Offset(r)[k] + PosArray(r)[k]]

\* send_guard_cells, axis by axis, by what it achieves (module GuardCells): the guard
\* cells of a rank become what its neighbour has in those cells.
RefilledAlong(f, k) ==
  [r \in Rank |-> [c \in Local |->
     LET dir == IF c[k] < GuardOf[k] THEN -1
                ELSE IF c[k] >= Dims(k) - GuardOf[k] THEN 1 ELSE 0
         nb  == IF dir = 0 THEN Null ELSE Neighbour(r, k, dir)
     IN  IF nb = Null THEN f[r][c] ELSE f[nb][[c EXCEPT ![k] = @ - dir * Inner[k]]]]]
Refilled(f) ==
  LET g[k \in 0 .. Dim] == IF k = 0 THEN f ELSE RefilledAlong(g[k - 1], k) IN g[Dim]

\* Ranks count as MPI_Cart_create numbers them: the last axis runs fastest.
RankNo(r) ==
  LET n[k \in 0 .. Dim] == IF k = 0 THEN 0 ELSE n[k - 1] * Extent[k] + r[k] IN n[Dim]
\* MPI_Scan: what the first ranks have together.
Scan(num) ==
  LET sum[n \in 0 .. Cardinality(Rank)] == IF n = 0 THEN 0 ELSE sum[n - 1] + num[n - 1]
  IN  sum
\* Mutant of ScanOffset: every rank begins at the front.
ScanOffsetNone(r, num) == 0
ScanOffset(r, num) == Scan(num)[RankNo(r)]
Total(num) == Scan(num)[Cardinality(Rank)]
RankNos == {RankNo(r) : r \in Rank}

--------------------------------------------------------------------------------
\* The fields when a snapshot is written: solvers and updater have filled the guard
\* cells, so every cell has the value that belongs to its place in the domain.
\* What other data there is in a run is known by the run's number.
OwnField(r) == [c \in Local |-> [run |-> 1, cell |-> Global[r, c]]]
OwnSlots(r, n, i) == [k \in 0 .. PtcSize - 1 |->
                        IF k < n THEN [run |-> i, rank |-> r, slot |-> k] ELSE Empty]
NoSnapshot == [field |-> [c \in Cells(ExtTotal) |-> Unset],
               num   |-> [n \in RankNos |-> Unset],
               ptc   |-> <<>>,
               rng   |-> [n \in RankNos |-> Unset]]
OutExt == [k \in Axis |-> Inner[k] \div Down]
OutTotal == [k \in Axis |-> (Extent[k] * Inner[k]) \div Down]

\* The ranks at a step at which output and a snapshot are due.
Init ==
  /\ device \in BOOLEAN
  /\ run = 1
  /\ field = [r \in Rank |-> Both(OwnField(r))]
  /\ number \in Numbers
  /\ slot = [r \in Rank |-> OwnSlots(r, number[r], 1)]
  /\ rng = [r \in Rank |-> Both([run |-> 1, rank |-> r])]
  /\ snapshot = NoSnapshot
  /\ output = [c \in Cells(OutTotal) |-> Unset]
  /\ at = [r \in Rank |-> "stepping"]
  /\ saved = number

All(where) == \A r \in Rank : at[r] = where
Moves(r, from, to) == at[r] = from /\ at' = [at EXCEPT ![r] = to]

\* write_grid_multiarray: every block of Down cells along each axis, of the rank's own
\* cells, becomes one cell of the output.  A block is known by the cell it begins at.
\* Mutant of Resampled: blocks begin in the guard cells.
ResampledFromGuards(r) ==
  [p \in Cells(OutExt) |-> InUse(field[r])[[k \in Axis |-> p[k] * Down]]]
Resampled(r) ==
  [p \in Cells(OutExt) |->
     InUse(field[r])[[k \in Axis |-> p[k] * Down + GuardOf[k]]]]
\* Mutant of OutOffset: the offset is not downsampled.
OutOffsetFull(r) == Offset(r)
OutOffset(r) == [k \in Axis |-> Offset(r)[k] \div Down]
WriteOutput(r) ==
  /\ Moves(r, "stepping", "output")
  /\ output' = WriteBox(output, Resampled(r), OutOffset(r), OutExt, Zero)
  /\ UNCHANGED <<device, run, field, slot, number, rng, snapshot, saved>>

\* write_snapshot.  All ranks create a data set together, and each writes its part.
\* The particles of a rank begin behind those of the ranks before it.
WriteSnapshot(r) ==
  /\ All("output") \/ \E s \in Rank : at[s] = "written"
  /\ Moves(r, "output", "written")
  /\ field' = [field EXCEPT ![r] = CopyToHost(@)]
  /\ rng' = [rng EXCEPT ![r] = CopyToHost(@)]
  /\ LET nums == [n \in RankNos |-> number[CHOOSE s \in Rank : RankNo(s) = n]]
         from == ScanOffset(r, nums)
         ptc  == IF snapshot.ptc = <<>> THEN [k \in 1 .. Total(nums) |-> Unset]
                 ELSE snapshot.ptc
     IN  snapshot' =
           [field |-> WriteBox(snapshot.field, field'[r].host,
                               PosFile(r), Ext(r), PosArray(r)),
            num   |-> [snapshot.num EXCEPT ![RankNo(r)] = number[r]],
            ptc   |-> [k \in DOMAIN ptc |->
                         IF k - 1 \in from .. from + number[r] - 1
                         THEN slot[r][k - 1 - from] ELSE ptc[k]],
            rng   |-> [snapshot.rng EXCEPT ![RankNo(r)] = rng'[r].host]]
  /\ UNCHANGED <<device, run, slot, number, output, saved>>

\* The run ends, at its end or by a crash, and is started again with --restart: when
\* the exporter comes to load the snapshot, memory holds what the initial conditions
\* put there.
Restart ==
  /\ All("written")
  /\ run' = 2
  /\ field' = [r \in Rank |-> Both([c \in Local |-> [run |-> 2, cell |-> Zero]])]
  /\ \E n \in {0, PtcSize} :
       /\ number' = [r \in Rank |-> n]
       /\ slot' = [r \in Rank |-> OwnSlots(r, n, 2)]
  /\ rng' = [r \in Rank |-> Both([run |-> 2, rank |-> r])]
  /\ at' = [r \in Rank |-> "restarted"]
  /\ UNCHANGED <<device, snapshot, output, saved>>

\* load_snapshot, the fields: read_subset reads into the host copy.
ReadField(r) ==
  /\ Moves(r, "restarted", "read")
  /\ LET host == ReadBox(field[r].host, snapshot.field, PosFile(r), Ext(r), PosArray(r))
     IN  field' = [field EXCEPT ![r] = CopyToDevice([@ EXCEPT !.host = host])]
  /\ UNCHANGED <<device, run, slot, number, rng, snapshot, output, saved>>

\* send_guard_cells, in which every rank waits for its neighbours.
ExchangeGuards ==
  /\ All("read")
  /\ LET f == Refilled([r \in Rank |-> InUse(field[r])])
     IN  field' = [r \in Rank |-> IF device THEN [field[r] EXCEPT !.dev = f[r]]
                                            ELSE [field[r] EXCEPT !.host = f[r]]]
  /\ at' = [r \in Rank |-> "exchanged"]
  /\ UNCHANGED <<device, run, slot, number, rng, snapshot, output, saved>>

\* load_snapshot, particles and generators.  The number comes from the file, the offset
\* is scanned anew, and the slots behind the number stay as they are.  The states of
\* the generators are read to the host, and copy_to_host is called after it.
ReadRest(r) ==
  /\ Moves(r, "exchanged", "resumed")
  /\ LET n    == snapshot.num[RankNo(r)]
         from == ScanOffset(r, snapshot.num)
     IN  /\ slot' = [slot EXCEPT ![r] =
               [k \in DOMAIN @ |-> IF k < n THEN snapshot.ptc[from + k + 1] ELSE @[k]]]
         /\ number' = [number EXCEPT ![r] = n]
  /\ rng' = [rng EXCEPT ![r] = CopyToHost([@ EXCEPT !.host = snapshot.rng[RankNo(r)]])]
  /\ UNCHANGED <<device, run, field, snapshot, output, saved>>

Next == \/ \E r \in Rank : \/ WriteOutput(r) \/ WriteSnapshot(r)
                           \/ ReadField(r) \/ ReadRest(r)
        \/ Restart \/ ExchangeGuards

Spec == Init /\ [][Next]_vars

--------------------------------------------------------------------------------
Value == [run : {1, 2},
          cell : [Axis -> -Max({GuardOf[k] : k \in Axis}) ..
                          Max({Extent[k] * Inner[k] + GuardOf[k] : k \in Axis})]]
Interiors == {v \in Value : \A k \in Axis : v.cell[k] \in 0 .. Extent[k] * Inner[k] - 1}
TypeOK ==
  /\ device \in BOOLEAN /\ run \in {1, 2}
  /\ \A r \in Rank : \A c \in Local : field[r].host[c] \in Value /\ field[r].dev[c] \in Value
  /\ \A c \in DOMAIN output : output[c] \in Interiors \cup {Unset}
  /\ slot \in [Rank -> [0 .. PtcSize - 1 ->
                 [run : {1, 2}, rank : Rank, slot : 0 .. PtcSize - 1] \cup {Empty}]]
  /\ number \in [Rank -> 0 .. PtcSize]
  /\ at \in [Rank -> {"stepping", "output", "written", "restarted", "read",
                      "exchanged", "resumed"}]

\* Once all ranks have written, no place of the snapshot is left out, and what lies in
\* a cell is the value of that cell of the domain: the parts the ranks write fit
\* together, at the boundaries and between ranks, whoever writes first.
SnapshotComplete ==
  All("written") =>
    /\ \A c \in DOMAIN snapshot.field :
         /\ snapshot.field[c] # Unset
         /\ \A k \in Axis : LET x == c[k] - GuardOf[k]
                            IN  snapshot.field[c].cell[k] =
                                  IF Periodic[k] THEN x % (Extent[k] * Inner[k]) ELSE x
    /\ \A k \in DOMAIN snapshot.ptc : snapshot.ptc[k] # Unset

\* After a restart a field is what it was in every cell of every rank, guard cells
\* and corners included, though the guard cells between ranks are not in the file.
FieldRestored == \A r \in Rank : at[r] \in {"exchanged", "resumed"} =>
                   InUse(field[r]) = OwnField(r)

\* After a restart each rank has its own particles again, all of them, in the order
\* they had, with none of those the initial conditions made among the counted ones.
ParticlesRestored ==
  \A r \in Rank : at[r] = "resumed" =>
    /\ number[r] = saved[r]
    /\ \A k \in 0 .. number[r] - 1 : slot[r][k] = [run |-> 1, rank |-> r, slot |-> k]

\* The field output has the block of cells that belongs there at every place.
OutputComplete ==
  All("output") =>
    \A c \in DOMAIN output :
      output[c] = [run |-> 1, cell |-> [k \in Axis |-> c[k] * Down]]

\* After a restart the generators that the systems use continue where they were when
\* the snapshot was written.
RngRestored == \A r \in Rank : at[r] = "resumed" =>
                 InUse(rng[r]) = [run |-> 1, rank |-> r]
================================================================================
