----------------------------- MODULE CartesianComm -----------------------------
(***************************************************************************)
(* The ranks of a run on their Cartesian grid (domain_comm::setup_domain), *)
(* and messages between them as MPI_Sendrecv exchanges them.  A rank posts *)
(* its message, and completes the call when the message it expects has     *)
(* come.  MPI may hold a message until the receiver takes it (Rendezvous)  *)
(* or let the sender go on; messages between two ranks with the same tag   *)
(* do not overtake each other.                                             *)
(***************************************************************************)
EXTENDS Integers, SequencesExt

CONSTANTS Dim,          \* Conf::dim
          Extent,       \* m_domain_info.mpi_dims: ranks along each axis
          Periodic,     \* m_domain_info.is_periodic
          Rendezvous,   \* MPI completes a send only when it is received
          Null          \* MPI_PROC_NULL

ASSUME DimAssumption == Dim \in 1 .. 3

Axis == 1 .. Dim
ASSUME GridOfRanks == Extent \in [Axis -> Nat \ {0}] /\ Periodic \in [Axis -> BOOLEAN]

Rank == {c \in [Axis -> 0 .. Max({Extent[k] : k \in Axis}) - 1] :
           \A k \in Axis : c[k] < Extent[k]}
ASSUME NullIsNoRank == Null \notin Rank

\* MPI_Cart_shift: the neighbour along axis k, to the left (-1) or right (1).
Neighbour(r, k, dir) ==
  LET c == r[k] + dir
  IN  IF Periodic[k] THEN [r EXCEPT ![k] = c % Extent[k]]
      ELSE IF c \in 0 .. Extent[k] - 1 THEN [r EXCEPT ![k] = c] ELSE Null

--------------------------------------------------------------------------------
\* ch[<<s, r>>] is the sequence of messages from s that r has not received.
NoMessages == [p \in Rank \X Rank |-> <<>>]

\* MPI_Sendrecv returns only when its own message is on its way.
SendsDone(ch, r) == Rendezvous => \A d \in Rank : ch[<<r, d>>] = <<>>

\* "turn" is a history component: which call a message belongs to.  MPI knows nothing
\* of it.
Post(ch, s, d, tag, data, turn) ==
  IF d = Null THEN ch
  ELSE [ch EXCEPT ![<<s, d>>] =
          Append(@, [tag |-> tag, data |-> data, turn |-> turn])]

\* Mutant of Receivable: messages with the same tag may overtake each other.
ReceivableAny(ch, s, r, tag) == {k \in DOMAIN ch[<<s, r>>] : ch[<<s, r>>][k].tag = tag}
\* The positions of the message r can receive from s: the oldest with that tag.
Receivable(ch, s, r, tag) ==
  {k \in DOMAIN ch[<<s, r>>] :
     /\ ch[<<s, r>>][k].tag = tag
     /\ \A l \in 1 .. k - 1 : ch[<<s, r>>][l].tag # tag}

Taken(ch, s, r, k) == [ch EXCEPT ![<<s, r>>] = RemoveAt(@, k)]
================================================================================
