------------------------------ MODULE GuardCells -------------------------------
(***************************************************************************)
(* How ranks make a field agree where their grids overlap, as              *)
(* ptc_updater::update does with the current and the charge density:       *)
(* send_add_guard_cells adds what a rank deposited in its guard cells to   *)
(* the rank that owns those cells, and send_guard_cells then copies the    *)
(* sums to the guard cells of the others.  Both sweep the axes one by one, *)
(* to the left and to the right, and send slabs that contain the guard     *)
(* cells of the other axes too, so that corners travel over two ranks.     *)
(*                                                                         *)
(* All the code does to values is to move and to add them, and no decision *)
(* depends on them.  A value is therefore taken for what has been added up *)
(* in it: the bag of the deposits, one in every local cell of every rank.  *)
(***************************************************************************)
EXTENDS LocalGrid, Bags

CONSTANT Vector     \* the field is a vector field (the tags differ)
ASSUME VectorAssumption == Vector \in BOOLEAN

VARIABLES field,     \* the values in each rank's local array
          at,        \* the operation of Plan the rank is at
          posted,    \* the rank is in MPI_Sendrecv
          chan       \* messages between ranks that have not been received

vars == <<field, at, posted, chan>>

\* Slabs of guard-cell thickness along an axis begin here.
SendFrom(op) ==
  LET k == op.axis
  IN  IF op.add THEN IF op.dir = -1 THEN 0 ELSE Dims(k) - GuardOf[k]
                ELSE IF op.dir = -1 THEN GuardOf[k] ELSE Dims(k) - 2 * GuardOf[k]
\* Mutant of RecvAt: the slab the values come from, on the other side.
RecvAtSource(op) ==
  LET k == op.axis
  IN  IF op.add THEN IF op.dir = -1 THEN Dims(k) - GuardOf[k] ELSE 0
                ELSE IF op.dir = -1 THEN Dims(k) - GuardOf[k] ELSE 0
RecvAt(op) ==
  LET k == op.axis
  IN  IF op.add THEN IF op.dir = -1 THEN Dims(k) - 2 * GuardOf[k] ELSE GuardOf[k]
                ELSE IF op.dir = -1 THEN Dims(k) - GuardOf[k] ELSE 0

\* Mutant of Slab: without the guard cells of the other axes.
SlabInner == [k \in Axis |-> {c \in Local :
                /\ c[k] < GuardOf[k]
                /\ \A l \in Axis \ {k} : c[l] \in GuardOf[l] .. Dims(l) - GuardOf[l] - 1}]
Slab == [k \in Axis |-> {c \in Local : c[k] < GuardOf[k]}]

\* What an operation sends of the values f, and the values after it has received.
Outgoing(op, f) ==
  [c \in Slab[op.axis] |-> f[[c EXCEPT ![op.axis] = @ + SendFrom(op)]]]
\* Mutant of Combined: the copy adds too.
CombinedAdding(op, old, new) == old (+) new
Combined(op, old, new) == IF op.add THEN old (+) new ELSE new
Incoming(op, f, data) ==
  [c \in Local |->
     LET d == [c EXCEPT ![op.axis] = @ - RecvAt(op)]
     IN  IF d \in DOMAIN data THEN Combined(op, f[c], data[d]) ELSE f[c]]

\* Each function goes through the axes in order, left before right.
Sweep(add) ==
  [i \in 1 .. 2 * Dim |->
     [axis |-> (i + 1) \div 2, dir |-> IF i % 2 = 1 THEN -1 ELSE 1, add |-> add,
      tag |-> IF add \/ Vector THEN 0 ELSE (i - 1) \div 2]]
Plan == Sweep(TRUE) \o Sweep(FALSE)

Op(r) == Plan[at[r]]
Dest(r) == Neighbour(r, Op(r).axis, Op(r).dir)
Origin(r) == Neighbour(r, Op(r).axis, -Op(r).dir)
InPlan(r) == at[r] \in 1 .. Len(Plan)

--------------------------------------------------------------------------------
Init ==
  /\ field = [r \in Rank |-> [c \in Local |-> SetToBag({<<r, c>>})]]
  /\ at = [r \in Rank |-> 1]
  /\ posted = [r \in Rank |-> FALSE]
  /\ chan = NoMessages

Receive(r, data) == /\ field' = [field EXCEPT ![r] = Incoming(Op(r), @, data)]
                    /\ at' = [at EXCEPT ![r] = @ + 1]

\* A rank that is its own neighbour on both sides copies within its array.
ToSelf(r) == Dest(r) = r /\ Origin(r) = r
CopyToSelf(r) ==
  /\ InPlan(r) /\ ToSelf(r) /\ SendsDone(chan, r)
  /\ Receive(r, Outgoing(Op(r), field[r]))
  /\ UNCHANGED <<posted, chan>>

PostSend(r) ==
  /\ InPlan(r) /\ ~ToSelf(r) /\ ~posted[r] /\ SendsDone(chan, r)
  /\ chan' = Post(chan, r, Dest(r), Op(r).tag, Outgoing(Op(r), field[r]), at[r])
  /\ posted' = [posted EXCEPT ![r] = TRUE]
  /\ UNCHANGED <<field, at>>

\* Mutant of MayReceive: a send that blocks, followed by a receive, instead of Sendrecv.
MayReceiveOnceSent(r) == InPlan(r) /\ posted[r] /\ SendsDone(chan, r)
MayReceive(r) == InPlan(r) /\ posted[r]

\* With no neighbour on that side nothing comes, and the array stays as it is.
CompleteReceive(r) ==
  /\ MayReceive(r)
  /\ \/ Origin(r) = Null /\ at' = [at EXCEPT ![r] = @ + 1] /\ UNCHANGED <<field, chan>>
     \/ /\ Origin(r) # Null
        /\ \E k \in Receivable(chan, Origin(r), r, Op(r).tag) :
             /\ Receive(r, chan[<<Origin(r), r>>][k].data)
             /\ chan' = Taken(chan, Origin(r), r, k)
  /\ posted' = [posted EXCEPT ![r] = FALSE]

Step(r) == CopyToSelf(r) \/ PostSend(r) \/ CompleteReceive(r)
Next == \E r \in Rank : Step(r)

Spec == Init /\ [][Next]_vars

\* As long as some rank can go on, one does.  (Every rank keeps running, which is more;
\* a sweep has finitely many steps, so that this much is enough.)
FairSpec == Spec /\ WF_vars(Next)

--------------------------------------------------------------------------------
\* No cell ever has a deposit in it twice.
Deposit == Rank \X Local
TypeOK == /\ \A r \in Rank : \A c \in Local :
               DOMAIN field[r][c] \subseteq Deposit /\ Range(field[r][c]) \subseteq {1}
          /\ at \in [Rank -> 1 .. Len(Plan) + 1]
          /\ posted \in [Rank -> BOOLEAN]

InDomain(g) == \A k \in Axis : g[k] \in 0 .. Extent[k] * Inner[k] - 1
Sum == [g \in Range(Global) |-> SetToBag({p \in Deposit : Global[p] = g})]

\* As soon as a rank is through send_add_guard_cells, and from then on, its own cells
\* have all that was deposited in them by any rank, also over a corner, whatever the
\* other ranks are doing.
SumComplete ==
  \A r \in Rank : at[r] > 2 * Dim =>
    \A c \in Local : Interior(c) => field[r][c] = Sum[Global[r, c]]

\* When a rank is through send_guard_cells, its guard cells have the sums too: the
\* copies that different ranks have of a cell agree before the solver reads them.
Agree ==
  \A r \in Rank : at[r] > 4 * Dim =>
    \A c \in Local : InDomain(Global[r, c]) => field[r][c] = Sum[Global[r, c]]

\* No rank waits for ever in either function.
SweepsEnd == <>(\A r \in Rank : at[r] > Len(Plan))
================================================================================
