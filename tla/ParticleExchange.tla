--------------------------- MODULE ParticleExchange ----------------------------
(***************************************************************************)
(* domain_comm::send_particles: how particles that have left a rank's part *)
(* of the grid get to the rank that owns their new cell.  Particles are    *)
(* sorted into one buffer per zone (3^Dim of them, the middle one being    *)
(* the rank itself), then swept along x, along y and along z, each time to *)
(* the left and to the right: a buffer is sent to the neighbour, which     *)
(* adds it to its own buffer of the zone that remains.  A particle that    *)
(* goes to a diagonal neighbour is forwarded.  The ranks are processes     *)
(* that only meet in MPI_Sendrecv.                                         *)
(***************************************************************************)
EXTENDS CartesianComm

CONSTANTS Mode,         \* where buffers live and what MPI is given, see below
          Tag,          \* identities of particles
          Start,        \* the rank each particle is on at first
          BufSize,      \* ptc_buffer_size
          Rounds,       \* bound: calls of send_particles
          Junk,         \* the content of a buffer slot never written
          Outside       \* where a particle is that has left the whole domain

\* "host": CPU build.  "cuda_mpi": buffers on the device, which MPI reads and writes
\* (use_cuda_mpi).  "staged": buffers on the device, with a copy on the host for MPI.
ASSUME ModeAssumption == Mode \in {"host", "cuda_mpi", "staged"}
\* The code writes to the buffers without a check, so they have to be large enough.
ASSUME BufferAssumption ==
  IsFiniteSet(Tag) /\ BufSize \in Nat /\ BufSize >= Cardinality(Tag)
ASSUME ParticleAssumption == /\ Start \in [Tag -> Rank] /\ Rounds \in Nat
                             /\ Junk \notin Tag /\ Outside \notin Rank

VARIABLES pool,     \* the particles of each rank's particle array
          goal,     \* history: the rank whose grid each particle is in
          host,     \* m_ptc_buffers of each rank, on the host
          dev,      \* their copies on the device (used when Mode = "staged")
          num,      \* m_ptc_buffer_num
          at,       \* 0, or which operation of Plan the rank is at
          posted,   \* the rank is in MPI_Sendrecv
          round,    \* calls of send_particles the rank has completed
          chan      \* messages between ranks that have not been received

vars == <<pool, goal, host, dev, num, at, posted, round, chan>>

--------------------------------------------------------------------------------
\* Zones are numbered as in grid_t::find_zone, with three per axis.
\* Stride[k] is how far apart neighbours along axis k are.
Stride == <<1, 3, 9, 27>>
Zone == 0 .. Stride[Dim + 1] - 1
Central == (Stride[Dim + 1] - 1) \div 2
Along(z, k) == ((z \div Stride[k]) % 3) - 1

\* The rank whose grid a particle in zone z of rank r is in.
Owner(r, z) ==
  LET c == [k \in Axis |-> r[k] + Along(z, k)]
  IN  IF \A k \in Axis : Periodic[k] \/ c[k] \in 0 .. Extent[k] - 1
      THEN [k \in Axis |-> c[k] % Extent[k]] ELSE Outside

\* The operations of send_particles_impl, in their order.  "batched" ones are those
\* of the send_particle_array that takes lists of buffers.
SweepX(dir) == [i \in 1 .. Stride[Dim] |->
  [axis |-> 1, dir |-> dir, send |-> (i - 1) * 3 + 1 + dir, recv |-> (i - 1) * 3 + 1,
   tag |-> i - 1, batched |-> TRUE]]
\* Mutant of SweepY: the buffers of the opposite side.
SweepYSwapped(dir) == [i \in 1 .. Stride[Dim - 1] |->
  [axis |-> 2, dir |-> dir, send |-> 4 + (i - 1) * 9 - 3 * dir,
   recv |-> 4 + (i - 1) * 9, tag |-> i - 1, batched |-> TRUE]]
SweepY(dir) == [i \in 1 .. Stride[Dim - 1] |->
  [axis |-> 2, dir |-> dir, send |-> 4 + (i - 1) * 9 + 3 * dir,
   recv |-> 4 + (i - 1) * 9, tag |-> i - 1, batched |-> TRUE]]
\* Mutant of SweepZ: the buffers of the y axis.
SweepZOfY(dir) ==
  <<[axis |-> 3, dir |-> dir, send |-> 13 + 3 * dir, recv |-> 13, tag |-> 13,
     batched |-> FALSE]>>
SweepZ(dir) ==
  <<[axis |-> 3, dir |-> dir, send |-> 13 + 9 * dir, recv |-> 13, tag |-> 13,
     batched |-> FALSE]>>
Plan == SweepX(-1) \o SweepX(1)
        \o (IF Dim >= 2 THEN SweepY(-1) \o SweepY(1) ELSE <<>>)
        \o (IF Dim = 3 THEN SweepZ(-1) \o SweepZ(1) ELSE <<>>)

Op(r) == Plan[at[r]]
InPlan(r) == at[r] \in 1 .. Len(Plan)
Dst(r) == Neighbour(r, Op(r).axis, Op(r).dir)
Src(r) == Neighbour(r, Op(r).axis, -Op(r).dir)
Turn(r) == <<round[r], at[r]>>

Init ==
  /\ pool = [r \in Rank |-> SetToSeq({t \in Tag : Start[t] = r})]
  /\ goal = Start
  /\ host = [r \in Rank |-> [z \in Zone |-> [k \in 1 .. BufSize |-> Junk]]]
  /\ dev = host
  /\ num = [r \in Rank |-> [z \in Zone |-> 0]]
  /\ at = [r \in Rank |-> 0]
  /\ posted = [r \in Rank |-> FALSE]
  /\ round = [r \in Rank |-> 0]
  /\ chan = NoMessages

--------------------------------------------------------------------------------
\* buf with the particles of "data" written from position "from" on.
Put(buf, from, data) ==
  [k \in 1 .. BufSize |-> IF k - from \in DOMAIN data THEN data[k - from] ELSE buf[k]]
\* Mutant of Content: the whole buffer is sent.
ContentWhole(buf, len) == buf
Content(buf, len) == [k \in 1 .. len |-> buf[k]]

\* The entries of s that are in T.  Their order is left open, as no property depends on it
\* (the GPU takes them in any order).
Selected(s, T) ==
  LET q == SetToSeq({k \in DOMAIN s : s[k] \in T}) IN [j \in DOMAIN q |-> s[q[j]]]

\* The particles have moved, some to another zone, and ptc_copy_to_comm_buffers
\* takes those out of the array.
Pack(r) ==
  /\ at[r] = 0 /\ round[r] < Rounds
  /\ \E zone \in [{pool[r][k] : k \in DOMAIN pool[r]} -> Zone] :
       LET in(z) == Selected(pool[r], {t \in DOMAIN zone : zone[t] = z})
           filled(b) == [b EXCEPT ![r] =
             [z \in Zone |-> IF z = Central THEN @[z] ELSE Put(@[z], 0, in(z))]]
       IN  /\ goal' = [t \in Tag |-> IF t \in DOMAIN zone THEN Owner(r, zone[t])
                                     ELSE goal[t]]
           /\ pool' = [pool EXCEPT ![r] = in(Central)]
           /\ num' = [num EXCEPT ![r] =
                [z \in Zone |-> IF z = Central THEN 0 ELSE Len(in(z))]]
           /\ IF Mode = "staged" THEN dev' = filled(dev) /\ UNCHANGED host
                                 ELSE host' = filled(host) /\ UNCHANGED dev
  /\ at' = [at EXCEPT ![r] = 1]
  /\ UNCHANGED <<posted, round, chan>>

\* send_buffer.copy_to_host(), which copies only between two memories: the host's
\* buffer becomes what the device has.
ToHost(r) == IF Mode = "staged"
             THEN [host EXCEPT ![r][Op(r).send] = dev[r][Op(r).send]] ELSE host

\* Mutants of Receive: at the front of the buffer; without resetting the count of
\* what was sent.
ReceiveAtFront(r, mem, data) ==
  LET got == [mem EXCEPT ![r][Op(r).recv] = Put(@, 0, data)]
  IN  /\ host' = got
      /\ dev' = dev
      /\ num' = [num EXCEPT ![r][Op(r).recv] = @ + Len(data), ![r][Op(r).send] = 0]
      /\ at' = [at EXCEPT ![r] = @ + 1]
ReceiveKeepingCount(r, mem, data) ==
  LET op == Op(r)
  IN  /\ host' = [mem EXCEPT ![r][op.recv] = Put(@, num[r][op.recv], data)]
      /\ dev' = dev
      /\ num' = [num EXCEPT ![r][op.recv] = @ + Len(data)]
      /\ at' = [at EXCEPT ![r] = @ + 1]

\* What rank r receives goes behind what the buffer holds; except that the variant
\* for a single buffer leaves out the offset when it writes to the host.
Receive(r, mem, data) ==
  LET op == Op(r)
      from == IF op.batched \/ Mode = "cuda_mpi" THEN num[r][op.recv] ELSE 0
      got == [mem EXCEPT ![r][op.recv] = Put(@, from, data)]
  IN  /\ host' = got
      /\ dev' = IF Mode = "staged" /\ ~op.batched
                THEN [dev EXCEPT ![r][op.recv] = got[r][op.recv]] ELSE dev
      /\ num' = [num EXCEPT ![r][op.recv] = @ + Len(data), ![r][op.send] = 0]
      /\ at' = [at EXCEPT ![r] = @ + 1]

ToSelf(r) == Op(r).batched /\ Src(r) = Dst(r) /\ Src(r) = r

CopyToSelf(r) ==
  /\ InPlan(r) /\ ToSelf(r) /\ SendsDone(chan, r)
  /\ Receive(r, ToHost(r), Content(ToHost(r)[r][Op(r).send], num[r][Op(r).send]))
  /\ UNCHANGED <<pool, goal, posted, round, chan>>

PostSend(r) ==
  /\ InPlan(r) /\ ~ToSelf(r) /\ ~posted[r] /\ SendsDone(chan, r)
  /\ host' = ToHost(r)
  /\ chan' = Post(chan, r, Dst(r), Op(r).tag,
                  Content(ToHost(r)[r][Op(r).send], num[r][Op(r).send]), Turn(r))
  /\ posted' = [posted EXCEPT ![r] = TRUE]
  /\ UNCHANGED <<pool, goal, dev, num, at, round>>

\* Mutant of MayReceive: synchronous sends, followed by receives, instead of Sendrecv.
MayReceiveOnceSent(r) ==
  InPlan(r) /\ posted[r] /\ \A d \in Rank : chan[<<r, d>>] = <<>>
MayReceive(r) == InPlan(r) /\ posted[r]

CompleteReceive(r) ==
  /\ MayReceive(r)
  /\ \/ /\ Src(r) = Null
        /\ Receive(r, host, <<>>)
        /\ UNCHANGED chan
     \/ /\ Src(r) # Null
        /\ \E k \in Receivable(chan, Src(r), r, Op(r).tag) :
             /\ Receive(r, host, chan[<<Src(r), r>>][k].data)
             /\ chan' = Taken(chan, Src(r), r, k)
  /\ posted' = [posted EXCEPT ![r] = FALSE]
  /\ UNCHANGED <<pool, goal, round>>

\* The central buffer goes to the end of the particle array (ptc_copy_from_buffer).
\* A slot never written has an empty cell and is a hole in the array.
Unpack(r) ==
  /\ at[r] = Len(Plan) + 1 /\ SendsDone(chan, r)
  /\ pool' = [pool EXCEPT ![r] =
       @ \o Selected(Content(host[r][Central], num[r][Central]), Tag)]
  /\ dev' = IF Mode = "staged" THEN [dev EXCEPT ![r][Central] = host[r][Central]]
            ELSE dev
  /\ num' = [num EXCEPT ![r][Central] = 0]
  /\ at' = [at EXCEPT ![r] = 0]
  /\ round' = [round EXCEPT ![r] = @ + 1]
  /\ UNCHANGED <<goal, host, posted, chan>>

Step(r) == CopyToSelf(r) \/ PostSend(r) \/ CompleteReceive(r) \/ Unpack(r)
Next == \E r \in Rank : Pack(r) \/ Step(r)

Spec == Init /\ [][Next]_vars

\* As long as some rank can go on, one does.  (Every rank keeps running, which is more;
\* a run has finitely many steps, so that this much is enough.)
FairSpec == Spec /\ WF_vars(Next)

--------------------------------------------------------------------------------
Buffers == [Rank -> [Zone -> [1 .. BufSize -> Tag \cup {Junk}]]]
TypeOK ==
  /\ \A r \in Rank : \A k \in DOMAIN pool[r] : pool[r][k] \in Tag
  /\ goal \in [Tag -> Rank \cup {Outside}]
  /\ host \in Buffers /\ dev \in Buffers
  /\ \A r \in Rank : \A z \in Zone : num[r][z] \in 0 .. BufSize
  /\ at \in [Rank -> 0 .. Len(Plan) + 1]
  /\ posted \in [Rank -> BOOLEAN]
  /\ round \in [Rank -> 0 .. Rounds]

\* Where particle t is: in the arrays, in buffers that still have to be sent or unpacked
\* (a posted one is counted as a message), and under way.
Memory(r, z) == IF Mode = "staged" /\ z # Central THEN dev[r][z] ELSE host[r][z]
InArrays(t) == UNION {{r} \X {k \in DOMAIN pool[r] : pool[r][k] = t} : r \in Rank}
InBuffer(r, z, t) == {k \in 1 .. BufSize : k <= num[r][z] /\ Memory(r, z)[k] = t}
InBuffers(t) == UNION {{p} \X InBuffer(p[1], p[2], t) :
                         p \in {q \in Rank \X Zone : ~(posted[q[1]] /\ q[2] = Op(q[1]).send)}}
InMessage(p, t) == UNION {{k} \X {l \in DOMAIN chan[p][k].data : chan[p][k].data[l] = t} :
                            k \in DOMAIN chan[p]}
InMessages(t) == UNION {{p} \X InMessage(p, t) : p \in Rank \X Rank}
Places(t) == ({"array"} \X InArrays(t)) \cup ({"buffer"} \X InBuffers(t))
             \cup ({"message"} \X InMessages(t))

\* Nowhere on its way, over however many ranks, is a particle lost or doubled: as
\* long as it belongs to some rank there is exactly one copy of it.
OneCopy == \A t \in Tag : goal[t] # Outside => Cardinality(Places(t)) = 1

\* A particle is not delivered anywhere but where it belongs: whoever is between two
\* exchanges holds only particles of its own grid, whatever the others are doing.
Idle(r) == at[r] = 0
OnlyOwn == \A r \in Rank : Idle(r) =>
             \A k \in DOMAIN pool[r] : goal[pool[r][k]] = r

\* MPI matches messages by their source and tag only, and sender and receiver may be far
\* apart in their calls.  Still the message a rank gets is always the one that its source
\* has sent in the same operation of the same call.
Matched ==
  \A r \in Rank : MayReceive(r) /\ Src(r) # Null =>
    \A k \in Receivable(chan, Src(r), r, Op(r).tag) :
      chan[<<Src(r), r>>][k].turn = Turn(r)

\* When all ranks have made the same calls, every particle is where it belongs, once.
AllDone == \A r \in Rank : Idle(r) /\ round[r] = Rounds
Delivered == AllDone => \A r \in Rank : \A t \in Tag :
               Cardinality({k \in DOMAIN pool[r] : pool[r][k] = t}) =
                 IF goal[t] = r THEN 1 ELSE 0

\* As long as there is something left to do, the ranks do not all wait for one another.
CanGoOn(r) ==
  \/ at[r] = 0 /\ round[r] < Rounds
  \/ at[r] # 0 /\ ~posted[r] /\ SendsDone(chan, r)
  \/ MayReceive(r) /\ (Src(r) # Null => Receivable(chan, Src(r), r, Op(r).tag) # {})
NoDeadlock == AllDone \/ \E r \in Rank : CanGoOn(r)

\* No rank waits for ever: all calls come to an end.
ExchangesEnd == <>AllDone
================================================================================
