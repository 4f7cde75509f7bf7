# Aperture: a TLA+ verification project

Aperture 4 is a particle-in-cell code for plasmas around compact objects. A run
keeps electromagnetic fields and charged particles on a grid that is divided among
MPI ranks, and repeats one step: every *system* (field solver, particle updater,
injectors, photon emission, output ...) updates the data it shares with the others.

The numerics are floating-point stencils and are not a subject for TLA+. What is
modelled here is the control around them, where a mistake loses particles, blocks
ranks, or ruins a run that took weeks: the bookkeeping of the particle array, its
in-place sort, the exchange of particles and of guard cells between ranks, the parallel
loops that create particles, the files that ranks write together, and output with
snapshots and restart. Paths below are relative to `src/src/` unless they begin otherwise.

## 1. Inventory

| Component | State | Operations | Made correct by |
|---|---|---|---|
| Particle array (`core/particles.{h,cpp}`, `core/particles_functions.cpp`) | fixed number of slots, `number()` of them counted; a slot with `cell == empty_cell` is free; `segment_nums` | `ptc_append`, `set_num`/`add_num`, `erase`, `ptc_sort_by_cell`, `ptc_copy_to_comm_buffers`, `ptc_copy_from_buffer` | no particle lost, doubled, or lying where no loop visits it; the count stays within the size |
| Particle update (`systems/ptc_updater_impl.hpp`) | the step, `m_sort_interval`, `m_comm` | `update`: push and deposit, `send_particles`, `clear_guard_cells`, `sort_particles` | the order of these calls: no particle in a guard cell at the next deposit; holes taken out again |
| Pair injection (`systems/ptc_injector_host.hpp`, `_gpu.hpp`) | a counter of particle ids | `inject_pairs` | complete pairs, counts that agree with what was written, unique ids |
| Exchange between ranks (`systems/domain_comm_impl.hpp`) | Cartesian communicator, one particle buffer and count per zone (3^dim), field buffers | `send_particles`, `send_guard_cells`, `send_add_guard_cells`, `setup_domain` | each particle gets to its owner exactly once, also over corners; cells that ranks share have the same, complete sums; no deadlock |
| Environment (`framework/environment.cpp`) | step and time, registries of systems and data, the restart flag | `register_system`, `init`, `update`, `run` | order of systems; each step done once |
| Output and restart (`systems/data_exporter_impl.hpp`) | counters of field output, special output and snapshots, the open `data.xmf`; the files | `update`, `write_snapshot`, `load_snapshot` | always a recent snapshot to restart from; one series of output files |
| Photon emission, pair creation (`systems/radiative_transfer_impl.hpp`) | photon array, its atomic counter | `emit_photons`, `create_pairs` | slots claimed by different iterations differ and are free; counts and tallies agree with what was made; a photon that became a pair is gone |
| Tracked particles (`systems/gather_tracked_ptc_impl.hpp`) | the list of flagged particles, copies of them | `gather_tracked_ptc_index`, output | the list has existing particles only, each once, as many as fit |
| GPU versions of the particle functions (`core/particles_functions.hip.cpp`) | as on the host | as on the host, with threads | as on the host |
| Local grid (`systems/grid_impl.hpp`, `core/grid.hpp`) | cells, guard cells and offset of a rank | constructor | the ranks' grids fit together |
| Files shared by ranks (`utils/hdf_wrapper_impl.hpp`, `systems/data_exporter_impl.hpp`) | data sets of fields, particles, generator states | `write_parallel`, `read_subset`, `compute_snapshot_ext_offset`, `get_total_num_offset` | the parts cover the whole without overlap; a rank gets back what it wrote |
| Random number generators (`data/rng_states.*`) | states, on the host or the device | snapshot and restart | continue where they were |
| Buffers (`core/buffer.hpp`, `core/multi_array.hpp`) | a host and a device copy | `copy_to_host`, `copy_to_device`, `resize` | the copy that is read is the current one |
| Grids, index types, field solvers, moments, physics schemes, parameters, HDF5 wrapper, logging | | | numerics, pure functions, or libraries |

How they interact. `sim_environment::run` calls `update` until `max_steps`; `update`
calls the systems in order of registration, and the exporter has to be the last of
them. There are no threads between systems: a system reads and writes the shared
data directly. Within a system, loops over particles are parallel (`ExecPolicy::loop`). Within `ptc_updater::update` the deposited current and charge go through
`send_add_guard_cells` and `send_guard_cells` and the array of particles is handed to
`send_particles`, all of `domain_comm`; these calls (which solvers and output make too)
are where ranks meet. The exporter reads
all data that asks for output, and on a restart overwrites all data that is marked
`include_in_snapshot`.

What is hard, and listed as hazards at its lines in `PROJECT.json`: ranks that run
at different speeds, possibly a whole exchange apart; particles that are forwarded
over up to three hops; buffers with two copies; an array at its limit; a sort in
place with one particle in hand; iterations that claim slots at the same time and fill them
in any order; parts of a file that have to fit together; a crash at any point of an output or a snapshot;
a restart that itself crashes.

## 2. Modules

| Module | Models | Kind |
|---|---|---|
| `ParticleArray` | the array and its operations, as operators on (slots, count) | pure |
| `ParticlePool` | one rank's array through steps of `update`, injection and the environment | state machine, the abstract specification of the sort |
| `ParticleSort` | `ptc_sort_by_cell` and `ptc_rearrange_arrays`, loop by loop | state machine, implements `ParticlePool`'s compaction |
| `CartesianComm` | the grid of ranks, and messages as `MPI_Sendrecv` exchanges them | operators |
| `ParticleExchange` | `send_particles` by all ranks, on `CartesianComm` | processes and messages |
| `LocalGrid` | the cells of a rank and where they are in the domain, on `CartesianComm` | operators |
| `GuardCells` | `send_add_guard_cells`, then `send_guard_cells`, by all ranks, on `LocalGrid` | processes and messages |
| `RadiativeTransfer` | photon emission, pair creation and the gathering of tracked photons, as parallel loops on one rank | concurrent iterations |
| `SharedSnapshot` | all ranks write and read one snapshot and one output file, on `LocalGrid` | processes and files |
| `Checkpoint` | the step loop with the exporter, crash and restart | state machine with crashes |
| `ParticlePoolProofs`, `ParticleSortProofs`, `ParticleExchangeProofs`, `GuardCellsProofs`, `RadiativeTransferProofs`, `SharedSnapshotProofs`, `CheckpointProofs` | theorems about the modules they are named after | proofs |
| `CountingLemmas` | finite sets, intervals, counting, least numbers | lemmas |
| `MCParticlePool`, `MCParticleSort`, `MCParticleExchange`, `MCGuardCells`, `MCRadiativeTransfer`, `MCSharedSnapshot`, `MCCheckpoint` | instances for TLC | |

### ParticleArray, ParticlePool

A particle is its cell and a *tag*, which stands for all else it carries. An empty
slot is the single value `Empty`: no loop of the code reads the other fields of a
slot whose cell is `empty_cell`. Cells are split into inner and guard cells
(`grid_t::is_in_bound`). One action is one call that another system could observe:
`Append1` (`ptc_append`), `InjectPairs` (`inject_pairs`), and the four stages of
`ptc_updater::update`: `MoveParticles`, `SendParticles`, `ClearGuardCells`,
`SortParticles`. `phase` is where `update` has come to, so injections happen only
outside of it, as in the code. `tick` is `step % m_sort_interval`. `comm` is whether
there is a communicator; it is chosen at the start and never changes. `alive` is a
history variable: the tags given to this rank and not taken from it.

Three things are kept exactly because they are easy to get wrong. `inject_pairs`
writes only the pairs that fit, but counts all it was asked for, cut to the size:
counted slots may have never been written. `ptc_copy_from_buffer` cuts off what does
not fit (the sending rank has given those particles away, and the receiving rank
never holds them). `ptc_copy_to_comm_buffers` and `clear_guard_cells` look at counted
slots only and do not lower the count. Arrivals from other ranks are any short
sequence of particles with inner cells, as `ptc_copy_to_comm_buffers` translates the
cell before it sends.

### ParticleSort

One action is one round of a loop. `IndexSegment` is the counting sort of a segment
(`m_index`); `StartCycle`, `Swap`, `CloseCycle` are `ptc_rearrange_arrays`, with
`hand` for `p_tmp`; `SkipFullSegment`, `FillHoles`, `Finish` are the compaction that
fills the holes of a segment from the end of the last one. A number of particles
that is a multiple of the segment size leaves a last segment with no slots, as in
the code. The call starts from any array that satisfies `ParticlePool`'s `TailEmpty`, and
with any counts in `segment_nums` that an earlier call can have left (`EarlierCounts`):
the code does not clear them, so a segment it forgets to count would be taken to hold
particles it no longer has.

`ImplementsSort` is the refinement: `Caller` instantiates `ParticlePool` with the
array the call was given until the call is done, and says that its end is a
`SortParticles` step.

### ParticleExchange

`Plan` is the list of `send_particle_array` calls of `send_particles_impl`, with the
buffer numbers, tags and axes of the code: 2·3^(Dim-1) operations along x, 2·3^(Dim-2)
along y, two along z. `Pack` is `ptc_copy_to_comm_buffers`, with every particle moved
to any zone; `PostSend` and `CompleteReceive` are the two halves of `MPI_Sendrecv`,
`CopyToSelf` is the copy a rank makes when it is its own neighbour; `Unpack` is
`ptc_copy_from_buffer`. `Mode` selects the three variants of the source:

- `host`: buffers on the host;
- `cuda_mpi`: buffers on the device, given to MPI;
- `staged`: a device buffer and a host copy, `copy_to_host` before a send and, for
  the variant for single buffers, `copy_to_device` after a receive.

MPI is external (`CartesianComm`) and modelled as the code may rely on it: messages between two ranks
with the same tag arrive in order; a send may complete at once or only when it has
been received (`Rendezvous`); `MPI_Sendrecv` receives while its own send is pending.
`goal` is a history variable: the rank whose grid a particle is in; `turn` in a message is
another: the call and operation it was sent in, which MPI knows nothing of. A particle is
in the array, in a buffer, or under way; a buffer that has been posted counts as its
message, although its number is reset only when the receive has completed.

### GuardCells

`ptc_updater::update` makes ranks agree on a deposited field with two calls:
`send_add_guard_cells` adds what lies in a rank's guard cells to the rank that owns those
cells, `send_guard_cells` copies the sums back out. `Plan` is the list of the
`..._single_dir` calls of both, with the slabs each sends (`SendFrom`) and receives into
(`RecvAt`); slabs span the guard cells of the other axes, which is how corners travel.
`PostSend`, `CompleteReceive` and `CopyToSelf` are as in `ParticleExchange`. Scalar and
vector fields differ in the tags (`Vector`); their three components are sent together
and handled alike, so one is enough. The variants of where buffers live need no modes
here: a buffer is filled anew right before it is sent and emptied right after it is
received, so no old copy can be read.

The code moves values and adds them, and decides nothing by them. A value is therefore
the bag of what has been added up in it: every local cell of every rank starts with a
deposit of its own, so the bag tells where each part of a sum comes from and how often
it is in it.

### RadiativeTransfer

`ExecPolicy::loop` is an OpenMP or GPU loop, so its iterations interleave. An iteration
is `Skip` (one of the early returns), or `Claim` (up to and with the `atomic_add`) and
later `Fill` (the slots, and what follows from the offset); `Join` is `sync()` and
`add_num`. `stage` is the loop that runs: `emit_photons`, then `create_pairs`, then from
time to time `gather_tracked_ptc_index` for photons. Whether a lepton emits is decided
by energies and is left open; a photon becomes a pair when its path is used up, which
the model keeps as a small number of steps. `OtherSystems` is all that happens between
two updates, with module `ParticlePool` as what is known about it.

The loops of emission and pair creation pass over particles outside the grid's bounds
(`systems/radiative_transfer_impl.hpp:190`, `:262`), and the model has no positions. A
lepton that is passed over looks like one that does not emit. A photon in a guard cell is
not in the model at all: `clear_guard_cells`, at the end of the update before, has deleted
it, and a new photon is in the cell of the particle that emitted it. Photons that arrive
from other ranks are left out: they would only be further photons among the counted
slots, and with them a run with two pairs under way at once is too large.

Kept exactly: the offset of a claim is also the answer whether anything was made, and 0
means no. Into an empty array the first claim is at 0, so its photons are not tallied or
marked, and the photon behind the first pair is not deleted. A slot's flag is only ever
set (for photons that are chosen to be tracked), so a slot keeps the flag of an earlier
photon. Slots beyond the array are not undone by `add_num`, which cuts the count: from
the claim of such a slot on (`overrun`) nothing is defined, and the model stops.

### SharedSnapshot

Every rank writes its box of cells, its particles and its generator states into data
sets that are common to all, in any order, and after a restart reads them again
when its memory is full of other things. `Ext`, `PosArray` and `PosFile` are the results
of `compute_snapshot_ext_offset`, `ScanOffset` and `Total` (entries of one sequence of sums,
`Scan`) those of `get_total_num_offset`, `WriteBox` and `ReadBox` are the hyperslabs of `write_parallel` and `read_subset`. A cell's value is
the run it comes from and the place in the domain it belongs to, so a misplaced cell shows.
Fields and generator states have a host and a device copy; `device` says which of them
the systems use. The exchange of guard cells that follows the reading is taken from
`GuardCells`, by what it achieves (`Refilled`).

### Checkpoint

All data in a snapshot is abstracted to `evolved`, the number of updates applied to
it; data that is reset after each output and accumulates in between is `acc`. A file
is `None`, `Partial` between its creation and its closing, or its content, so a
crash between two actions leaves what the code would leave. `Systems` are the systems
before the exporter: on a restart they run once *before* the snapshot is loaded, and
then `EndStep` counts a step, which the model keeps. `Load` is `load_snapshot`, with
its failure when `snapshotN.xmf` is missing. `CreateFields`/`CloseFields`,
`SpecialOutput`, `CreateSnapshot`/`CloseSnapshot`/`CopyXmf` follow `update`.
`FlushXmf` stands for the buffer of the output stream, which is written to disk at
points the program does not choose. `Crash` is possible at every point; then the user
restarts from a usable snapshot (`RecoverUsable`) or tries one that fails
(`RecoverInVain`). `older` remembers whether a restart was ever from a snapshot other
than the newest usable one.

## 3. Runs and what they show

| Run | Instance | Distinct states | Shows |
|---|---|---|---|
| `pool` | 4 slots, 4 particles, 2 cells, sort every 2nd step, both with and without communicator | 14668 | counts, tails, contents and guard cells stay right in every order of operations; holes are reclaimed again and again |
| `sort` | every array of up to 5 slots, 2 cells, segments of 2, after every earlier sort | 26347 | the sort is stable and sorted by segment, loses nothing at any moment, ends, and implements the compaction |
| `exchange_2d` | 2x2 ranks, periodic in x, 2 particles, rendezvous | 195111 | edges, corners, the open boundary; exactly one copy at any time; no deadlock, with every send held back until it is received |
| `exchange_3d` | 1x1x2 ranks, `cuda_mpi`, 2 calls, eager sends | 572077 | three sweeps, self-copies, ranks in different calls at once; messages matched; all delivered, and all calls end |
| `exchange_3d_host` | one rank, its own neighbour, `host`, 2 particles | violation | second message along z overwrites the first |
| `exchange_staged` | 1x2 ranks, `staged` | violation | forwarded particles are overwritten before they are sent |
| `guard_cells` | 2x1x2 ranks of 3x1x2 cells, 2, 1 and 1 guard cells, rendezvous, a deposit in every cell | 3607 | edges and corners over two and three hops; each deposit summed once and copied to all; no deadlock |
| `checkpoint` | 9 steps, snapshot every 2nd, 3 files, 2 crashes | 44105 | at most one interval lost; no step skipped or done twice; one series of field files; what is not in the snapshot spoils one output per restart; the run ends |
| `radiation` | 4 particle and 4 photon slots, 2 photons per scattering, a list of 2 | 2921462 | claims are disjoint and free, counts and tallies are right, converted photons are gone, the list is exact |
| `shared_snapshot` | 3x2 ranks of 2x4 cells, 1 and 2 guard cells, periodic in y, up to 3 particles each, on host and device | 2298 | the parts of the ranks fit together, and fields and particles are restored |
| `rng_restored` | as `shared_snapshot` | violation | generator states are overwritten on the device |
| `xmf_timeline` | 7 steps, 2 files, 1 crash | violation | see section 6 |

### Properties

- `TailEmpty`, `HoldsExactlyAlive` (`ParticlePool`): the unwritten slots that
  `inject_pairs` counts are empty ones, and the array holds what the rank owns, each
  particle once. They depend on each other and on every operation: a compaction that
  leaves its sources behind breaks both, many steps later.
- `NoneInGuard`: after the exchange (with a communicator) and after
  `clear_guard_cells` (always) no counted slot is in a guard cell.
- `HolesReclaimed`: again and again the count equals the particles there are.
- `NoneLost`, `SegmentsSorted`, `ImplementsSort`, `Terminates` (`ParticleSort`). The counts
  of the segments are part of `SegmentsSorted`: none is left over from an earlier sort.
- `OneCopy` (`ParticleExchange`): a particle that some rank owns is in exactly one place, of
  all in arrays, buffers and messages, at every moment. `OnlyOwn`: between two exchanges a
  rank holds only particles of its own grid, whatever the other ranks are doing.
  `Delivered`: when all are done every particle is where it belongs. `Matched`: the message
  a rank gets is of the operation and call it is in itself, although tags recur.
  `NoDeadlock`: ranks never all wait for one another. `ExchangesEnd`: all calls end.
- `SumComplete` (`GuardCells`): a rank through the sums has all of what any rank deposited
  in its own cells, while others are still at it. `Agree`: a rank through the copies has
  the sums in its guard cells too. `TypeOK` says that no cell has a deposit twice.
  `SweepsEnd`: no rank waits for ever.
- `ClaimsFree` (`RadiativeTransfer`): iterations that run at the same time never write
  to one slot, nor to one that is in use, which `produce_pair` asserts in debug builds.
  `CountCovers`: what is behind the counted slots is what was claimed and filled, without
  a gap when the loop is over, so `add_num` counts just that. `TallyRight`,
  `ConvertedGone`: the tallies and the deletion of photons are right up to the one slot
  that looks like "nothing made". `TrackedListed`: the list for output has existing tracked
  photons only, each once, and all of them if they fit, whatever flags slots still have.
- `SnapshotComplete` (`SharedSnapshot`): no place of the file is left out, and at each lies
  the value that belongs there. `FieldRestored`: after reading and the exchange of guard
  cells, every cell of every rank is right in the copy the systems use, guard cells and
  corners too. `ParticlesRestored`: each rank has its own particles, in order.
  `OutputComplete`: downsampled blocks of all ranks fit together.
- `EvolvedMatchesStep`, `BoundedLoss`, `FieldSeries`, `Finishes` (`Checkpoint`).
  `FewSpoiled`: data that accumulates is wrong in at most one output per crash.
  `SpecialSeries`: the special outputs of one process have no gap.

### Bounds and why they are enough

- *pool*. Four slots are two pairs. The array fills up from a single particle, half
  full and full; a pair may not fit although one slot is free; two arrivals may be cut
  to one or none. Two cells are one of each kind, as no property tells more apart.
  There are as many tags as slots. No symmetry, because of the liveness property.
- *sort*. Five slots in segments of two are three segments: one being filled, one that
  is full and skipped, one that is drained, and the drained one changes. All numbers of
  particles from 0 to 5 occur, multiples of the segment size among them, every pattern of
  cells and holes, and every count an earlier sort can have left in each segment: with
  four particles the last segment has none, and its old count, 1, must not be used.
- *exchange*. Two ranks per axis are the smallest grid on which left and right
  neighbour are one rank, so that messages meet in one channel and the tag has to tell
  them apart. With three in a line they have a channel each, which is easier to get right.
  Two particles meet in a buffer. `Rounds = 2` lets a rank be a call ahead. `BufSize` is as large as the
  number of particles, because the code writes the buffers unchecked.
- *guard cells*. Along the three axes a rank has another rank, itself, or a boundary next
  to it, which are all the cases of `dest` and `origin`; each combines with the others in
  edges and corners. Slabs are as thick as the grid (one cell), thinner than it, and more
  than one cell thick. `GridAssumption` says that a rank has at least as many cells as
  guard cells along each axis; the code does not check it.
- *radiation*. Two claims fit into either array when it is empty and one behind others,
  so claims are under way at the same time, at slot 0 and elsewhere, and the next one
  overruns the array. `MaxPath = 1` lets photons wait while new ones are emitted. More
  photons can be tracked than the list holds.
- *shared_snapshot*. Along x there is a rank in the middle and a boundary at each end,
  along y two ranks and a periodic axis, where a rank has guard cells in the file all the
  same. Slots, guard cells and cells differ between the axes. Ranks have none, some, or
  all slots taken, differently from each other (`Numbers`); after the restart arrays are
  empty or full. Blocks of 2 cells are the smallest to average. `DownAssumption`: a
  rank's cells are whole blocks; the code does not check it.
- *checkpoint*. Two crashes include a crash during a restart's own output; nine steps
  are four snapshots, so the rotation of three wraps around; the intervals 2 and 3 make
  output, special output and snapshots coincide and not coincide.

### Fairness

- `ParticlePool`: weak fairness of `Update`. `run` calls `update` in a loop and
  `update` has no waiting in it. Injection is not fair: a run need not inject.
- `ParticleSort`: weak fairness of `Next`: a sequential function that runs to its end.
- `ParticleExchange`, `GuardCells`: weak fairness of `Next`: while some rank can go on, one
  does. Every rank keeps running, which is more, but all runs of these modules have
  finitely many steps, so this much is enough. The code blocks only in `MPI_Sendrecv`,
  and a rank is enabled there as soon as its message has come.
- `Checkpoint`: weak fairness of `Work` (a running process goes on). Strong fairness of
  `RecoverUsable`: the user may try snapshots that do not load, but not for ever.
  Crashes are bounded by `MaxCrashes`. Nothing is assumed of `FlushXmf`.
- `RadiativeTransfer`, `SharedSnapshot`: only safety is stated, without fairness.

`CHECK_DEADLOCK FALSE` is used where the program ends: a finished sort, exchange or run,
a restart that is complete, and in `radiation` an overrun, after which nothing is defined.

## 4. Proofs

TLC checks the instances of section 3; the theorems below hold for every value of the
constants that satisfies the named assumptions of the modules. Every proof of a safety
property has the same shape: an inductive invariant, which TLC has checked on the
module's instance, one lemma per action that says the action keeps it, and a theorem
that draws the property from it.

### ParticlePoolProofs

For every size of the array, sort interval, set of cells, set of particles and bounds:

| Theorem | States |
|---|---|
| `TypeCorrect` | `Spec => []TypeOK`; in particular `number <= Size` |
| `TailStaysEmpty` | `Spec => []TailEmpty` |
| `NothingLost` | `Spec => []HoldsExactlyAlive` |
| `GuardsCleared` | `Spec => []NoneInGuard` |

Assumptions: those of `ParticleArray` and `ParticlePool` on their constants (`Size` and
`SortInterval` positive, `Guard` a set of cells, `Empty` not a particle).

The argument. Neither `TailEmpty` nor `HoldsExactlyAlive` is inductive alone.
`TailEmpty` is what makes it harmless that `inject_pairs` counts unwritten slots, and it
is also needed for contents: a sort compacts the counted slots only, so its result holds
all particles only if there are none beyond. In the other direction, that new particles
do not double old ones needs the tags in the array to be exactly `alive`. The predicate
`Holds(s, n, T)` puts the three together (typed slots, empty tail, tags `T` without
repetition), and the invariant is `TypeOK` with `Holds(slot, number, alive)`. There is
one lemma for each thing the code does to an array (`WriteHolds`, `EraseHolds`,
`MoveHolds`, `PackHolds`), one for each action on top of these, and the theorems combine
them. `GuardsCleared` follows from what the erasure of the guard cells leaves
(`SendClears`, `ClearClears`), given the same invariant: arrivals have inner cells.

### ParticleSortProofs

For arrays and segments of every size, every number of cells and every content, whatever
the counts of earlier sorts:

| Theorem | States |
|---|---|
| `TypeCorrect` | `Spec => []TypeOK` |
| `NothingLost` | `Spec => []NoneLost`: slots and hand hold every particle once, in the middle of a cycle too |
| `SortedBySegments` | `Spec => []SegmentsSorted`: stable, and sorted by segment |
| `SortIsCompaction` | `Spec => ImplementsSort`: the refinement of `ParticlePool!SortParticles` |

Assumptions: `Size` and `Seg` positive with `Seg <= Size`, and cells are numbers from 0 to
`NumCells - 1`.

The argument. *Nothing is lost* does not come from the algorithm but from the shape of
its steps: whatever indices it uses, a step exchanges two of the things in play or leaves
them (`PermInv`: what is in play is the array of the call, permuted). *Sorted* needs the
algorithm: the counting sort sends slot `k` of a segment to `Goal(s, k)`, the number of
slots that precede it; a permutation of the segment, because precedence is a strict
order (`CountingLemmas`). `CyclesInv` says which slots of the permutation still have to
move (`Pending`), that their targets are among them, and that the one in hand has left
the only target outside: so a cycle can end only where it began, and what is not pending
lies at its goal. *Compaction* is `HolesInv`: in every segment particles come first,
segments before the one being filled are full, and those behind the one being drained
are empty; of the counts beyond the last segment, which are from earlier sorts, it says
nothing, only that the slots there are empty. When the two meet, the particles are exactly
the slots below the new count. For the refinement the permutation of `PermInv`, restricted to the counted slots, is the
witness that `SortParticles` asks for.

### RadiativeTransferProofs

For arrays of every size, with iterations interleaved in every order:

| Theorem | States |
|---|---|
| `TypeCorrect` | `Spec => []TypeOK` |
| `ClaimsAreFree` | `Spec => []ClaimsFree` |
| `CountIsRight` | `Spec => []CountCovers` |
| `TallyIsRight` | `Spec => []TallyRight` |
| `FewOutliveTheirPair` | `Spec => []ConvertedGone` |
| `ListIsRight` | `Spec => []TrackedListed` |

Assumptions: those on the sizes, and that the value of an empty slot is no kind of
particle (`EmptyIsNoKind`).

The argument. `ClaimInv`: the claims of the iterations that are under way are intervals
of `[Base, Base + pos)`, disjoint, of the length a claim has. `FilledInv`: from `Base` on, the occupied
slots are exactly those claimed by iterations that have finished, so a claim is of free
slots and `add_num` counts what was made. `BehindInv` is the state between the loops:
there is nothing behind the counted slots, which is what makes the next claim free, and
it does not hold any more after an overrun. `PairedInv` is about the offset 0: a photon
that stays after its pair was made got the first slot of an empty array, and of those
there is one per loop; the next loop removes it. `ListInv` counts the tracked photons that
the loop is done with, so entries of the list and photons correspond one to one.

### ParticleExchangeProofs

For every grid of ranks in one, two or three dimensions, periodic or not along each axis,
every number of particles and calls, and for sends that complete at once or wait:

| Theorem | States |
|---|---|
| `MatchedHolds` | `Spec => []Matched` |
| `NoDeadlockHolds` | `Spec => []NoDeadlock` |
| `TypeCorrect` | `CopiesWork => (Spec => []TypeOK)`; in particular no buffer overflows |
| `OneCopyHolds` | `CopiesWork => (Spec => []OneCopy)` |
| `OnlyOwnHolds` | `CopiesWork => (Spec => []OnlyOwn)` |
| `DeliveredHolds` | `CopiesWork => (Spec => []Delivered)` |

Assumptions: those of `CartesianComm` on the grid (`DimAssumption`, `GridOfRanks`,
`NullIsNoRank`), and of `ParticleExchange` (`BufferAssumption`: buffers have room for all
particles, which the code relies on without a check; `ParticleAssumption`). `CopiesWork` is
the variant of the source: buffers on the device and given to MPI in any dimension, or
buffers on the host in less than three. It cannot be dropped: in the other variants particles are
overwritten, and `exchange_3d_host` and `exchange_staged` show how (section 6).
`MatchedHolds` and `NoDeadlockHolds` hold in all of them.

The argument has three parts.

1. *Geometry*, without states. Every operation of `Plan` sends a zone that has nothing
   left to go along the axes before, and receives into the zone that has the same way left
   except along its own axis (`Ops`, `ThePlan`); so a particle that is forwarded belongs to
   the same rank, seen from the neighbour (`Forwarded`), also across a periodic boundary
   and on an axis with one or two ranks. Every zone but the central one is sent
   (`ThePlan`), and nothing is received where something has been sent from before
   (`NoReturn`): the order x, y, z is right.
2. *Calls* (`MatchInv`). A call is a round and an operation. The messages under way from
   `s` to `d` are exactly those of the calls `s` has posted and `d` is not through with, in
   their order; and `d` is through with a call only if `s` has posted it. Hence the oldest message
   with the tag of `d`'s call is the one of that call, and the first of its channel
   (`FirstOne`). A rank that no other is behind can go on: what it has
   sent before has been received, and its source has posted or can post (`SomeRankGoesOn`).
3. *Data* (`DataInv`). `Container` is what can hold a particle: an array, a buffer, or the
   message of a call. A particle is in at most one container, in at least one as long as
   it belongs to some rank, and in none that does not lead to that rank (`Home`). With that,
   every action but `Pack` moves what is in one container to another with the same `Home`
   (`MoveKeeps`), drops what is on its way out of the domain (`DropKeeps`), or moves nothing. That
   what a rank has sent stays empty until its next call (`EmptyOnceSent`) is needed for
   `Pack`, which overwrites the buffers. A buffer never overflows because what it holds
   and what comes in are different particles (`FewEnough`).

### GuardCellsProofs

For every grid of ranks in one, two or three dimensions, periodic or not along each axis,
every number of cells and of guard cells, and for sends that complete at once or wait:

| Theorem | States |
|---|---|
| `AsExpected` | `Spec => []IInv`: values and messages are those of the calls the ranks are at |
| `TypeCorrect` | `Spec => []TypeOK` |
| `SumsComplete` | `Spec => []SumComplete` |
| `RanksAgree` | `Spec => []Agree` |
| `NeverAllWaitHolds` | `Spec => []NeverAllWait`: as long as a rank has a call left, some rank can go on |

Assumptions: those of `CartesianComm` on the grid, that `Vector` is a Boolean, and
`GridAssumption` of `LocalGrid`: along each axis a rank has at least as many cells as guard
cells. The code does not check this, and it cannot be dropped: with fewer cells a slab
reaches past the neighbour (`systems/domain_comm_impl.hpp:269` among the hazards).

The argument.

1. *The value of a cell is a product.* What a cell of rank `r` has at call `a` is the set of
   deposits which, along every axis `k`, have come as far as the operations along `k` before
   `a` bring them (`Has`, `Expected`). An operation along one axis changes the factor of that
   axis only (`OneAxis`), where it adds disjoint sets (`AxisAdd`), copies (`AxisCopy`) or has
   no neighbour (`AxisQuiet`, `NothingComes`); so a rank with the expected values that
   receives the expected message has the expected values of the next call
   (`ReceiveExpected`). That slabs include the guard cells of the other axes is
   used here: without them the factors would depend on each other.
2. *Messages.* `ChannelInv` is `MatchInv` of `ParticleExchange` for calls that
   are numbers, and in addition every message has the values its sender is expected to have
   had at its call: a rank that is several operations ahead has already changed them.
   With both parts `IInv` is inductive, and determines all values by `at` alone.
3. *One axis.* After both additions, a cell of a rank's own has, along an axis, exactly the
   deposits of the cells that are copies of it (`SameCell`); after both copies every cell
   that is a copy of one in the domain has (`Copied`). The arithmetic is first done
   on an axis without end (`SameAlong`) and then wound up (`Unrolled`), which covers
   periodic axes with one rank, its own neighbour on both sides, and with two ranks,
   neighbours on both sides.

### SharedSnapshotProofs

For every grid of ranks in one, two or three dimensions, periodic or not along each axis,
all numbers of cells and of guard cells, all numbers of particles, on host and device, and
for every order in which the ranks write and read:

| Theorem | States |
|---|---|
| `AsExpected` | `Spec => []IInv`: memory and files are as the places of the ranks demand |
| `TypeCorrect` | `Spec => []TypeOK` |
| `SnapshotSound` | `Spec => []SnapshotComplete` |
| `FieldsBack` | `Spec => []FieldRestored` |
| `ParticlesBack` | `Spec => []ParticlesRestored` |
| `OutputSound` | `Spec => []OutputComplete` |

Assumptions: those of `CartesianComm` and `LocalGrid` on the grid; that no rank has more
particles than its array has slots (`SizeAssumption`); that `Unset`, the mark of a place in
a file nobody has written to, is not a value that is written (`UnsetAssumption`); and that
along each axis the cells of a rank are whole blocks of the output (`DownAssumption`). As
with `GridAssumption`, the code does not check this. What it is for is `OutputSound` and the
output's part of `TypeCorrect`: without it blocks of neighbours overlap or leave a gap.

The argument.

1. *One axis.* The part of a rank in the file, along one axis, is an interval (`InPart`).
   The intervals of all ranks cover the axis of the file (`FileCovered`), and the cell of a
   rank that goes to a place of the file has the value that belongs there (`FileCell`). They
   may overlap as far as the argument goes; it is enough that all agree. A box is what its
   intervals are (`Parts`), and intervals chosen axis by axis belong to one rank (`SomeRank`):
   hence `FileFull` and `RightPlace`. `Blocked`, `BlockCell`, `OutputFull` and `RightBlock` are
   the same for the output.
2. *Guard cells.* A cell that is not in a rank's part along an axis has a neighbour there
   (`NoneBeside`), in whose part its copy is, with the same value (`NeighbourCell`; around a
   periodic axis the coordinates are wound up, `Unrolled`). So each sweep makes right what
   is right along the axes still to come (`RightUpTo`, `AlongRight`), and the last one
   everything (`RefillRight`). This is why one exchange after reading is enough, for
   corners too.
3. *Particles.* The ranks are numbered from 0 without a gap (`Numbering`, digit by digit with
   `Digits`), and the sums of their numbers cut the data set into parts that are disjoint and
   cover it (`ScanParts`, `PlacesOf`), also when some of them are empty.
4. *Invariant.* The ranks are in one of four phases (`Phases`): a rank may be one place ahead
   of another, not two. `SnapshotInv` and `OutputInv` say of every rank that has written
   that its part of the file is right. A rank that writes leaves the parts of the others
   right: in a field because both write the same values there, in the particles because
   the parts are disjoint. When a rank reads, all have written, so what it
   finds is what it had.

The operators `Scan`, `RankNo` and `Refilled` are recursive functions on a finite domain. That
such functions exist is proved and not assumed: for the axes by writing them down for one, two
and three dimensions, for the sums by going through the ranks (`ScanExists`).

### CheckpointProofs

For a run of every length, all intervals, every number of snapshot files and of crashes:

| Theorem | States |
|---|---|
| `TypeCorrect` | `Spec => []TypeOK` |
| `UpdatesMatchSteps` | `Spec => []EvolvedMatchesStep` |
| `LossIsBounded` | `NumSnapshots >= 2 => (Spec => []BoundedLoss)` |
| `FieldFilesInOrder` | `Spec => []FieldSeries` |
| `SpoiledAreFew` | `Spec => []FewSpoiled` |
| `SpecialFilesInSeries` | `Spec => []SpecialSeries` |

Assumptions: the intervals and the number of snapshots are positive, and `None` and
`Partial` are not contents of files (`ContentAssumption`). `LossIsBounded` needs two
snapshot files or more: with one, a crash while it is written leaves nothing, which the code
permits (its default is two), and `BoundedLoss` is then false.

The argument. `CountInv` gives every counter in terms of the step and the phase;
`SnapInv` says the same of the content of each closed snapshot, so that a restart from
any of them gets back to a state in which `CountInv` holds. This is the point: the
process after a restart must not be told apart, in its counters, from one that was never
interrupted. `StartInv` covers the steps between, with the update that is made before
loading. `LossInv`: the newest usable snapshot is at most an interval old and is not the
next one to be overwritten. `SeriesInv` needs that no usable snapshot knows more outputs
than the process has made (`~older`). `SpoiledInv` is an account: spoiled outputs, and one
more while the process is not `OnTrack`, are no more than the crashes.

### What is not proved

Not provable here and left to TLC: liveness (`HolesReclaimed`, `Terminates`, `ExchangesEnd`,
`SweepsEnd`, `Finishes`). `NoDeadlockHolds` is the part of `ExchangesEnd` that is a safety
property, and `NeverAllWaitHolds` the one of `SweepsEnd`. Every invariant that a passing run
checks is proved, and so is the refinement. Nothing is claimed of the data of
`ParticleExchange` in the variants that `CopiesWork` excludes, where the properties fail,
nor of the generator states in `SharedSnapshot`, which a run shows not to be restored
(section 6).

## 5. Not modelled

- Floating-point numerics: solvers, pushers, deposition, moments, radiation physics.
- `m_sort_interval = 0`, which turns sorting off: without it holes are never reclaimed.
- An odd number of particles asked of `inject_pairs` for a cell: the code would count one
  less than it writes. All callers in the repository ask for twice a number of pairs.
- Communication buffers that are too small: they are written unchecked, so the model
  assumes they are large enough (`BufferAssumption`).
- The exchange of phase-space data, which repeats `send_guard_cells` on its own buffers;
  grids with fewer cells than guard cells along an axis (`GridAssumption`).
- Particles that leave the array of their rank for a place outside the whole domain: they
  count as gone (`Outside`), as in the code, which sends them to `MPI_PROC_NULL`.
- Output of tracked particles, which follows the rule of field output, and the copies of
  their attributes. `gather_tracked_ptc_index` is modelled for photons and is the same for
  particles.
- Particle and photon ids. They are not unique: the host's injector counts in a local copy
  of the counter that is never written back (`systems/ptc_injector_host.hpp:61`), and the
  counter is not in the snapshot.
- Radiation schemes other than the default one; a capacity that is exceeded by photons or
  pairs, as the code then writes outside of its arrays.
- What is behind the counted slots after a restart: `ParticlesRestored` is about the
  counted ones.
- A restart with another number of ranks; cells that the ranks cannot divide evenly; an
  extent rounded up for z-order indices.
- `fill_multiplicity`, which only performance tests call.
- GPU kernels: they follow the contract of the host code with atomic claims like those in
  `RadiativeTransfer`.
- Legacy code, problem set-ups, Python tools, vendored libraries.

A restart from a snapshot that is *not* the newest can leave a gap: a second crash while
an earlier field file is written again, and then a restart from the newer snapshot, which
does not write it. `FieldSeries` therefore speaks of runs without such a restart
(`~older`); the other properties hold for restarts from any snapshot.

## 6. Disagreements found

Each is a run of its own, with the line quoted in `PROJECT.json`.

- `exchange_3d_host`: in the `send_particle_array` for one buffer, used along z, the
  offset behind what the buffer holds is added to the device pointer only
  (`systems/domain_comm_impl.hpp:808`). On the host a second arrival overwrites the first.
- `exchange_staged`: with staged buffers, `send_buffer.copy_to_host()` (line 749)
  overwrites what has just been received, before it is forwarded.
- `rng_restored`: the states of the generators are read to the host copy and then
  overwritten by `copy_to_host()`, which should be `copy_to_device()`
  (`systems/data_exporter_impl.hpp:1270`), while the documentation promises exact
  continuation (`src/docs/docsrc/3.4-data-output.rst:237`). On the CPU there is one copy and
  nothing is lost.
- `xmf_timeline`: `data.xmf` is restored and then emptied by the first output, after which
  a seek before its beginning fails and nothing is written any more.

Others the models have in them, without a run of their own:

- Data with `reset_after_output` is not part of the snapshot, and neither is
  `m_special_output_num`: the first output after a restart covers the wrong number of steps,
  and special output begins to overwrite its first files. `FewSpoiled` and `SpecialSeries`
  state what is left.
- The offset 0 of `emit_photon` and `produce_pair` means both "nothing" and "the first slot"
  (`systems/radiative_transfer_impl.hpp:198`, `:268`).
- With the default radiation scheme a photon inherits the tracked flag and the id of the
  photon that was in its slot before (`systems/radiative_transfer_impl.hpp:207`).
- The capacity of the photon array is not checked, while
  `src/docs/docsrc/7.3-radiative-transfer.rst:148` speaks of automatic resizing.

## 7. Plan

1. `ParticlePool` with a restart into a populated array (`systems/data_exporter_impl.hpp:797`):
   `set_num` to the snapshot's count leaves stale slots behind it.
2. Ids given out by ranks, injectors and appends, with their width.
3. The set-up of the domain: `MPI_Dims_create` on preset dimensions, and a communicator
   that may reorder ranks while the world rank is used.
4. The index types as operators against a reference.

Composition: a module of several ranks' pools with the exchange as one step would be
implemented by `ParticleExchange` and used by `ParticlePool` for its environment.

## 8. Running

    tlc -config MCParticlePool.cfg MCParticlePool.tla
    tlapm ParticlePoolProofs.tla

and likewise for the other runs of section 3 (module and configuration are in
`PROJECT.json`) and for `CountingLemmas` and the other modules of proofs.

`PROJECT.json` has the table of runs, the source lines of every definition (`map`), the
hazards, and for each property a plausible bug of the code (`mutants`, defined next to
the definition they replace) that makes the property fail.
