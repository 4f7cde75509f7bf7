--------------------------- MODULE CheckpointProofs ----------------------------
(***************************************************************************)
(* Proofs about Checkpoint: for every number of steps, every interval and  *)
(* any number of crashes.  The inductive invariant says for each phase of  *)
(* update what the counters are, in terms of the step; what a snapshot has *)
(* in it; and which of the files are in order.  It is a conjunction of     *)
(* parts, each with what it is for.                                        *)
(***************************************************************************)
EXTENDS Checkpoint, FiniteSetTheorems, TLAPS

FieldsDone == phase \in {"special", "snapshot", "closeSnapshot", "copyXmf", "endStep"}
SpecialDone == phase \in {"snapshot", "closeSnapshot", "copyXmf", "endStep"}

\* Outputs are due at multiples of the interval, and n of them have been made by the
\* processes whose state this is, before step s.
OutputsBefore(n, s) == s <= n * FldInterval /\ n * FldInterval < s + FldInterval

\* What a snapshot file has in it once it is closed.
Valid(k) ==
  /\ snap[k] \in Snapshot
  /\ snap[k].step \in 1 .. MaxSteps /\ snap[k].step % SnapInterval = 0
  /\ snap[k].evolved = snap[k].step + 1
  /\ OutputsBefore(snap[k].fldNum, snap[k].step + 1)
  /\ snap[k].current = k

\* The contents of files.
FilesInv ==
  /\ fld \in [Nums -> Output \cup {None, Partial}]
  /\ sp \in [Nums -> Nat \cup {None}]
  /\ xmf \in Seq(Nat) \cup {None} /\ xmfBuf \in Seq(Nat)
  /\ snapXmf \in [Snaps -> Seq(Nat) \cup {None}]
SnapInv ==
  /\ DOMAIN snap = Snaps
  /\ \A k \in Snaps : Complete(k) => Valid(k)

\* Until the snapshot is loaded, a process has the state of its start and one update.
StartInv ==
  Running /\ restart # None =>
    /\ phase \in {"systems", "load"} /\ restart \in Snaps /\ Complete(restart)
    /\ step = 0 /\ spNum = 0 /\ fldNum = 0
    /\ evolved = (IF phase = "load" THEN 1 ELSE 0) /\ acc = evolved

\* From then on, counters follow from the step and the phase.
CountInv ==
  Loaded =>
    /\ phase # "load" /\ step <= MaxSteps
    /\ evolved = IF phase = "systems" THEN step ELSE step + 1
    /\ acc <= evolved
    /\ OutputsBefore(fldNum, IF FieldsDone THEN step + 1 ELSE step)
    /\ spNum <= (IF SpecialDone THEN step + 1 ELSE step)

\* Where in the writing of files a process is.
PhaseInv ==
  Loaded =>
    /\ phase = "closeFields" => FieldsDue
    /\ phase \in {"closeSnapshot", "copyXmf"} => SnapshotDue
    /\ phase = "copyXmf" => snap[current] = SnapshotContent

\* There is a list of outputs as soon as there can be a snapshot.
XmfInv ==
  /\ xmf = None => xmfOpen = "closed"
  /\ Loaded /\ (phase = "closeFields" \/ FieldsDone \/ step > 0) => xmf # None

Base == TypeOK /\ FilesInv /\ SnapInv /\ StartInv /\ CountInv /\ PhaseInv /\ XmfInv

\* The latest snapshot before step Now is whole, is no older than the interval, and
\* is not the one that is overwritten next.
Now == IF phase = "endStep" THEN step + 1 ELSE step
Recent(k) ==
  /\ k \in Snaps /\ Usable(k)
  /\ NextSnapshot(k) = current /\ k # current
  /\ snap[k].step < Now /\ Now <= snap[k].step + SnapInterval
LossInv == Loaded => Now <= SnapInterval \/ \E k \in Snaps : Recent(k)

\* Field files are in order up to the number that any usable snapshot has, and up to the
\* process's own, which is the highest of all.
InOrder(n) == \A k \in Nums : k < n => fld[k] \in Output /\ fld[k].step = k * FldInterval
SeriesInv ==
  ~older => /\ \A k \in UsableSnaps : InOrder(snap[k].fldNum)
            /\ Loaded => /\ InOrder(fldNum)
                         /\ \A k \in UsableSnaps : snap[k].fldNum <= fldNum
            /\ Running /\ restart \in UsableSnaps => Newest(restart)

\* The accumulated data have every step since the last output.
OnTrack ==
  /\ Loaded
  /\ \/ fldNum = 0 /\ acc = evolved
     \/ fldNum > 0 /\ acc + (fldNum - 1) * FldInterval + 1 = evolved
Spoiled == {k \in Nums : fld[k] \notin {None, Partial} /\ ~Exact(k)}
SpoiledInv ==
  Cardinality(Spoiled) + (IF OnTrack \/ phase = "finished" THEN 0 ELSE 1) <= crashes

\* The last special output of the process was the latest that was due.
SpecialInv ==
  Loaded /\ spNum > 0 =>
    LET last == sp[spNum - 1]
        now  == IF SpecialDone THEN step + 1 ELSE step
    IN  /\ last \in Nat /\ last % SpInterval = 0
        /\ last < now /\ now <= last + SpInterval
        /\ \A k \in Nums : k + 1 < spNum => /\ sp[k] \in Nat /\ sp[k + 1] \in Nat
                                            /\ sp[k + 1] = sp[k] + SpInterval

--------------------------------------------------------------------------------
\* Multiples: what is due at an interval.
LEMMA NextMultiple ==
  ASSUME NEW i \in Nat, NEW j \in Nat, NEW F \in Nat \ {0}, i < j
  PROVE  i * F + F <= j * F
OBVIOUS

LEMMA IsMultiple ==
  ASSUME NEW i \in Nat, NEW F \in Nat \ {0}
  PROVE  (i * F) % F = 0
OBVIOUS

LEMMA Quotient ==
  ASSUME NEW a \in Nat, NEW F \in Nat \ {0}, a % F = 0
  PROVE  \E q \in Nat : a = q * F
OBVIOUS

LEMMA MultiplesApart ==
  ASSUME NEW a \in Nat, NEW b \in Nat, NEW F \in Nat \ {0},
         a % F = 0, b % F = 0, a < b
  PROVE  a + F <= b
<1>1. PICK q \in Nat : a = q * F
  BY Quotient
<1>2. PICK r \in Nat : b = r * F
  BY Quotient
<1>3. q < r
  <2>1. CASE r < q
    <3>1. r * F + F <= q * F
      BY <2>1, NextMultiple
    <3> QED BY <3>1, <1>1, <1>2
  <2>2. CASE q = r
    BY <2>2, <1>1, <1>2
  <2> QED BY <2>1, <2>2
<1> QED BY <1>1, <1>2, <1>3, NextMultiple

LEMMA PlusInterval ==
  ASSUME NEW a \in Nat, NEW F \in Nat \ {0}, a % F = 0
  PROVE  (a + F) % F = 0
<1>1. PICK q \in Nat : a = q * F
  BY Quotient
<1>2. a + F = (q + 1) * F
  BY <1>1
<1>3. ((q + 1) * F) % F = 0
  <2>1. q + 1 \in Nat
    OBVIOUS
  <2> QED BY <2>1, IsMultiple
<1> QED BY <1>2, <1>3

\* The number of outputs before a step is what it should be before the next one.
LEMMA OutputMade ==
  ASSUME NEW n \in Nat, NEW s \in Nat, OutputsBefore(n, s), s % FldInterval = 0
  PROVE  s = n * FldInterval /\ OutputsBefore(n + 1, s + 1)
<1>1. FldInterval \in Nat \ {0} /\ n * FldInterval \in Nat
  BY CheckpointAssumption
<1>2. (n * FldInterval) % FldInterval = 0
  BY <1>1, IsMultiple
<1>3. CASE s < n * FldInterval
  <2>1. s + FldInterval <= n * FldInterval
    BY <1>1, <1>2, <1>3, MultiplesApart
  <2> QED BY <1>1, <2>1 DEF OutputsBefore
<1>4. s = n * FldInterval
  BY <1>1, <1>3 DEF OutputsBefore
<1>5. (n + 1) * FldInterval = n * FldInterval + FldInterval
  BY <1>1
<1> QED BY <1>1, <1>4, <1>5 DEF OutputsBefore

LEMMA OutputNotDue ==
  ASSUME NEW n \in Nat, NEW s \in Nat, OutputsBefore(n, s), s % FldInterval # 0
  PROVE  OutputsBefore(n, s + 1)
<1>1. FldInterval \in Nat \ {0} /\ n * FldInterval \in Nat
  BY CheckpointAssumption
<1>2. s # n * FldInterval
  BY <1>1, IsMultiple
<1> QED BY <1>1, <1>2 DEF OutputsBefore

LEMMA OutputsMonotone ==
  ASSUME NEW n \in Nat, NEW m \in Nat, NEW s \in Nat, NEW t \in Nat, s <= t,
         OutputsBefore(n, s), OutputsBefore(m, t)
  PROVE  n <= m
<1>1. FldInterval \in Nat \ {0} /\ n * FldInterval \in Nat /\ m * FldInterval \in Nat
  BY CheckpointAssumption
<1>2. CASE m < n
  <2>1. m * FldInterval + FldInterval <= n * FldInterval
    BY <1>1, <1>2, NextMultiple
  <2> QED BY <1>1, <2>1 DEF OutputsBefore
<1> QED BY <1>2

LEMMA OutputsAtMost ==
  ASSUME NEW n \in Nat, NEW s \in Nat, OutputsBefore(n, s)
  PROVE  n <= s /\ (n = 0 => s = 0)
<1>1. FldInterval \in Nat \ {0} /\ n * FldInterval \in Nat
  BY CheckpointAssumption
<1>2. CASE s < n
  <2>1. s * FldInterval + FldInterval <= n * FldInterval
    BY <1>1, <1>2, NextMultiple
  <2>2. s <= s * FldInterval /\ s * FldInterval \in Nat
    BY <1>1
  <2> QED BY <1>1, <2>1, <2>2 DEF OutputsBefore
<1> QED BY <1>1, <1>2 DEF OutputsBefore

LEMMA Rotation ==
  ASSUME NEW k \in Snaps
  PROVE  /\ NextSnapshot(k) \in Snaps
         /\ NumSnapshots >= 2 => NextSnapshot(k) # k
BY CheckpointAssumption DEF NextSnapshot, Snaps

LEMMA Seqs ==
  /\ <<>> \in Seq(Nat)
  /\ \A s \in Seq(Nat), t \in Seq(Nat) : s \o t \in Seq(Nat)
  /\ \A s \in Seq(Nat), x \in Nat : Append(s, x) \in Seq(Nat) /\ <<x>> \in Seq(Nat)
OBVIOUS

--------------------------------------------------------------------------------
\* The invariant Base, action by action.

LEMMA SystemsBase == Base /\ Systems /\ UNCHANGED history => Base'
<1> SUFFICES ASSUME Base, Systems, UNCHANGED history PROVE Base'
  OBVIOUS
<1> USE CheckpointAssumption DEF Base, Loaded, Running, FieldsDone, SpecialDone
<1>1. TypeOK'
  BY DEF Systems, TypeOK, history, StartInv, CountInv
<1>2. FilesInv'
  BY DEF Systems, FilesInv, files
<1>3. SnapInv'
  BY DEF Systems, SnapInv, Valid, Complete, files
<1>4. StartInv'
  BY DEF Systems, StartInv, Complete, files
<1>5. CountInv'
  BY DEF Systems, CountInv, TypeOK
<1>6. PhaseInv'
  BY DEF Systems, PhaseInv
<1>7. XmfInv'
  BY DEF Systems, XmfInv, files
<1> QED BY <1>1, <1>2, <1>3, <1>4, <1>5, <1>6, <1>7

LEMMA LoadBase == Base /\ Load /\ UNCHANGED history => Base'
<1> SUFFICES ASSUME Base, Load, UNCHANGED history PROVE Base'
  OBVIOUS
<1> USE CheckpointAssumption DEF Base, Loaded, Running, FieldsDone, SpecialDone
<1>1. /\ restart \in Snaps /\ restart # None /\ Valid(restart)
      /\ acc = 1 /\ spNum = 0
  BY ContentAssumption DEF Load, StartInv, CountInv, SnapInv, TypeOK, Snaps
<1>2. CASE LoadFails(restart)
  <2>1. phase' = "dead"
    BY <1>2 DEF Load
  <2>2. UNCHANGED <<step, restart, evolved, acc, fldNum, spNum, current, xmfOpen, xmfBuf,
                    fld, sp, xmf, snap, snapXmf>>
    BY <1>2 DEF Load, files
  <2>3. TypeOK' /\ FilesInv' /\ SnapInv'
    BY <2>1, <2>2 DEF TypeOK, FilesInv, SnapInv, Valid, Complete, history
  <2>4. StartInv' /\ CountInv' /\ PhaseInv' /\ XmfInv'
    BY <2>1, <2>2 DEF StartInv, CountInv, PhaseInv, XmfInv
  <2> QED BY <2>3, <2>4
<1>3. CASE ~LoadFails(restart)
  <2> DEFINE s == snap[restart]
  <2>1. /\ s.step \in 1 .. MaxSteps /\ s.evolved = s.step + 1
        /\ s.fldNum \in Nat /\ s.fldNum <= s.step + 1
        /\ OutputsBefore(s.fldNum, s.step + 1)
    BY <1>1, OutputsAtMost DEF Valid, Snapshot
  <2>2. /\ step' = s.step /\ evolved' = s.evolved /\ fldNum' = s.fldNum
        /\ current' \in Snaps /\ restart' = None /\ phase' = "endStep"
        /\ xmf' = snapXmf[restart] /\ xmf' # None
        /\ UNCHANGED <<acc, spNum, xmfOpen, xmfBuf, fld, sp, snap, snapXmf>>
    BY <1>1, <1>3, Rotation DEF Load, Restored, LoadFails, Valid
  <2>3. TypeOK'
    BY <1>1, <2>1, <2>2 DEF TypeOK, history
  <2>4. FilesInv' /\ SnapInv'
    BY <1>1, <2>2 DEF FilesInv, SnapInv, Valid, Complete
  <2>5. StartInv' /\ CountInv' /\ PhaseInv' /\ XmfInv'
    BY <1>1, <2>1, <2>2 DEF StartInv, CountInv, PhaseInv, XmfInv
  <2> QED BY <2>3, <2>4, <2>5
<1> QED BY <1>2, <1>3

LEMMA CreateFieldsBase == Base /\ CreateFields /\ UNCHANGED history => Base'
<1> SUFFICES ASSUME Base, CreateFields, UNCHANGED history PROVE Base'
  OBVIOUS
<1> USE CheckpointAssumption DEF Base, Loaded, Running, FieldsDone, SpecialDone
<1>1. TypeOK'
  BY DEF CreateFields, TypeOK, history
<1>2. FilesInv'
  BY Seqs DEF CreateFields, FilesInv
<1>3. SnapInv'
  BY DEF CreateFields, SnapInv, Valid, Complete
<1>4. StartInv'
  BY DEF CreateFields, StartInv
<1>5. CountInv'
  BY DEF CreateFields, CountInv
<1>6. PhaseInv'
  BY DEF CreateFields, PhaseInv, FieldsDue
<1>7. XmfInv'
  BY ContentAssumption, Seqs DEF CreateFields, XmfInv
<1> QED BY <1>1, <1>2, <1>3, <1>4, <1>5, <1>6, <1>7

LEMMA SkipFieldsBase == Base /\ SkipFields /\ UNCHANGED history => Base'
<1> SUFFICES ASSUME Base, SkipFields, UNCHANGED history PROVE Base'
  OBVIOUS
<1> USE CheckpointAssumption DEF Base, Loaded, Running, FieldsDone, SpecialDone
<1>1. TypeOK'
  BY DEF SkipFields, TypeOK, history
<1>2. FilesInv'
  BY DEF SkipFields, FilesInv, files
<1>3. SnapInv'
  BY DEF SkipFields, SnapInv, Valid, Complete, files
<1>4. StartInv'
  BY DEF SkipFields, StartInv
<1>5. CountInv'
  BY OutputNotDue DEF SkipFields, CountInv, FieldsDue, TypeOK
<1>6. PhaseInv'
  BY DEF SkipFields, PhaseInv
<1>7. XmfInv'
  BY DEF SkipFields, XmfInv, TypeOK, FieldsDue, files
<1> QED BY <1>1, <1>2, <1>3, <1>4, <1>5, <1>6, <1>7

LEMMA CloseFieldsBase == Base /\ CloseFields /\ UNCHANGED history => Base'
<1> SUFFICES ASSUME Base, CloseFields, UNCHANGED history PROVE Base'
  OBVIOUS
<1> USE CheckpointAssumption DEF Base, Loaded, Running, FieldsDone, SpecialDone
<1>1. TypeOK'
  <2>1. fldNum <= step /\ step <= MaxSteps
    BY OutputsAtMost DEF CloseFields, CountInv, StartInv, TypeOK
  <2> QED BY <2>1 DEF CloseFields, TypeOK, history, AfterOutput
<1>2. FilesInv'
  <2>1. step \in Nat /\ acc \in Nat
    BY DEF TypeOK
  <2>2. fld' \in [Nums -> Output \cup {None, Partial}]
    BY <2>1 DEF CloseFields, FilesInv, Output
  <2>3. xmf \in Seq(Nat)
    BY DEF CloseFields, FilesInv, XmfInv, CountInv, TypeOK, StartInv
  <2>4. xmf' \in Seq(Nat) /\ xmfBuf' \in Seq(Nat)
    BY <2>1, <2>3, Seqs DEF CloseFields, FilesInv
  <2> QED BY <2>2, <2>4 DEF CloseFields, FilesInv
<1>8. xmf' \in Seq(Nat)
  <2>1. xmf \in Seq(Nat)
    BY DEF CloseFields, FilesInv, XmfInv, CountInv, StartInv
  <2> QED BY <2>1, Seqs DEF CloseFields, FilesInv
<1>3. SnapInv'
  BY DEF CloseFields, SnapInv, Valid, Complete
<1>4. StartInv'
  BY DEF CloseFields, StartInv
<1>5. CountInv'
  BY OutputMade DEF CloseFields, CountInv, TypeOK, PhaseInv, FieldsDue, AfterOutput
<1>6. PhaseInv'
  BY DEF CloseFields, PhaseInv
<1>7. XmfInv'
  BY <1>2, <1>8, ContentAssumption DEF XmfInv
<1> QED BY <1>1, <1>2, <1>3, <1>4, <1>5, <1>6, <1>7

LEMMA SpecialOutputBase == Base /\ SpecialOutput /\ UNCHANGED history => Base'
<1> SUFFICES ASSUME Base, SpecialOutput, UNCHANGED history PROVE Base'
  OBVIOUS
<1> USE CheckpointAssumption DEF Base, Loaded, Running, FieldsDone, SpecialDone
<1>1. TypeOK'
  <2>1. spNum <= step /\ step <= MaxSteps /\ step \in Nat /\ spNum \in Nat
    BY DEF SpecialOutput, StartInv, CountInv, TypeOK
  <2>2. spNum' = spNum \/ spNum' = spNum + 1
    BY DEF SpecialOutput, NextSpecial
  <2>3. spNum' \in 0 .. MaxSteps + 1
    BY <2>1, <2>2
  <2> QED BY <2>3 DEF SpecialOutput, TypeOK, history
<1>2. FilesInv'
  <2>1. sp' \in [Nums -> Nat \cup {None}]
    BY DEF SpecialOutput, FilesInv, TypeOK
  <2> QED BY <2>1 DEF SpecialOutput, FilesInv
<1>3. SnapInv'
  BY DEF SpecialOutput, SnapInv, Valid, Complete
<1>4. StartInv'
  BY DEF SpecialOutput, StartInv
<1>5. CountInv'
  BY DEF SpecialOutput, CountInv, TypeOK, NextSpecial
<1>6. PhaseInv'
  BY DEF SpecialOutput, PhaseInv
<1>7. XmfInv'
  BY DEF SpecialOutput, XmfInv
<1> QED BY <1>1, <1>2, <1>3, <1>4, <1>5, <1>6, <1>7

LEMMA CreateSnapshotBase == Base /\ CreateSnapshot /\ UNCHANGED history => Base'
<1> SUFFICES ASSUME Base, CreateSnapshot, UNCHANGED history PROVE Base'
  OBVIOUS
<1> USE CheckpointAssumption DEF Base, Loaded, Running, FieldsDone, SpecialDone
<1>1. TypeOK'
  BY DEF CreateSnapshot, TypeOK, history
<1>2. FilesInv'
  BY DEF CreateSnapshot, FilesInv
<1>3. SnapInv'
  BY DEF CreateSnapshot, SnapInv, Valid, Complete
<1>4. StartInv'
  BY DEF CreateSnapshot, StartInv
<1>5. CountInv'
  BY DEF CreateSnapshot, CountInv
<1>6. PhaseInv'
  BY DEF CreateSnapshot, PhaseInv, SnapshotDue
<1>7. XmfInv'
  BY DEF CreateSnapshot, XmfInv
<1> QED BY <1>1, <1>2, <1>3, <1>4, <1>5, <1>6, <1>7

LEMMA SkipSnapshotBase == Base /\ SkipSnapshot /\ UNCHANGED history => Base'
<1> SUFFICES ASSUME Base, SkipSnapshot, UNCHANGED history PROVE Base'
  OBVIOUS
<1> USE CheckpointAssumption DEF Base, Loaded, Running, FieldsDone, SpecialDone
<1>1. TypeOK'
  BY DEF SkipSnapshot, TypeOK, history
<1>2. FilesInv'
  BY DEF SkipSnapshot, FilesInv, files
<1>3. SnapInv'
  BY DEF SkipSnapshot, SnapInv, Valid, Complete, files
<1>4. StartInv'
  BY DEF SkipSnapshot, StartInv
<1>5. CountInv'
  BY DEF SkipSnapshot, CountInv
<1>6. PhaseInv'
  BY DEF SkipSnapshot, PhaseInv
<1>7. XmfInv'
  BY DEF SkipSnapshot, XmfInv, files
<1> QED BY <1>1, <1>2, <1>3, <1>4, <1>5, <1>6, <1>7

LEMMA CloseSnapshotBase == Base /\ CloseSnapshot /\ UNCHANGED history => Base'
<1> SUFFICES ASSUME Base, CloseSnapshot, UNCHANGED history PROVE Base'
  OBVIOUS
<1> USE CheckpointAssumption DEF Base, Loaded, Running, FieldsDone, SpecialDone
<1>1. TypeOK'
  BY DEF CloseSnapshot, TypeOK, history
<1>2. FilesInv'
  BY DEF CloseSnapshot, FilesInv
<1>3. SnapInv'
  <2>1. PICK c \in Snaps : c = current
    BY DEF TypeOK
  <2>2. step \in 1 .. MaxSteps /\ step % SnapInterval = 0 /\ evolved = step + 1
    BY DEF CloseSnapshot, CountInv, PhaseInv, SnapshotDue, StartInv, TypeOK
  <2>3. OutputsBefore(fldNum, step + 1)
    BY DEF CloseSnapshot, CountInv, StartInv
  <2>4. snap'[c] = SnapshotContent /\ \A k \in Snaps : k # c => snap'[k] = snap[k]
    BY <2>1 DEF CloseSnapshot, SnapInv
  <2>5. SnapshotContent \in Snapshot
    BY DEF SnapshotContent, Snapshot, TypeOK, Snaps
  <2>6. Valid(c)'
    BY <2>1, <2>2, <2>3, <2>4, <2>5 DEF Valid, SnapshotContent
  <2> QED BY <2>4, <2>6 DEF CloseSnapshot, SnapInv, Valid, Complete
<1>4. StartInv'
  BY DEF CloseSnapshot, StartInv
<1>5. CountInv'
  BY DEF CloseSnapshot, CountInv
<1>6. PhaseInv'
  BY DEF CloseSnapshot, PhaseInv, SnapshotDue, SnapshotContent, SnapInv, TypeOK
<1>7. XmfInv'
  BY DEF CloseSnapshot, XmfInv
<1> QED BY <1>1, <1>2, <1>3, <1>4, <1>5, <1>6, <1>7

LEMMA CopyXmfBase == Base /\ CopyXmf /\ UNCHANGED history => Base'
<1> SUFFICES ASSUME Base, CopyXmf, UNCHANGED history PROVE Base'
  OBVIOUS
<1> USE CheckpointAssumption DEF Base, Loaded, Running, FieldsDone, SpecialDone
<1>1. TypeOK'
  BY Rotation DEF CopyXmf, TypeOK, history
<1>2. FilesInv'
  BY DEF CopyXmf, FilesInv, TypeOK
<1>3. SnapInv'
  BY DEF CopyXmf, SnapInv, Valid, Complete
<1>4. StartInv'
  BY DEF CopyXmf, StartInv
<1>5. CountInv'
  BY DEF CopyXmf, CountInv
<1>6. PhaseInv'
  BY DEF CopyXmf, PhaseInv
<1>7. XmfInv'
  BY DEF CopyXmf, XmfInv
<1> QED BY <1>1, <1>2, <1>3, <1>4, <1>5, <1>6, <1>7

LEMMA EndStepBase == Base /\ EndStep /\ UNCHANGED history => Base'
<1> SUFFICES ASSUME Base, EndStep, UNCHANGED history PROVE Base'
  OBVIOUS
<1> USE CheckpointAssumption DEF Base, Loaded, Running, FieldsDone, SpecialDone
<1>1. TypeOK'
  BY DEF EndStep, TypeOK, history, StartInv, CountInv
<1>2. FilesInv'
  BY DEF EndStep, FilesInv, files
<1>3. SnapInv'
  BY DEF EndStep, SnapInv, Valid, Complete, files
<1>4. StartInv'
  BY DEF EndStep, StartInv
<1>5. CountInv'
  BY DEF EndStep, CountInv
<1>6. PhaseInv'
  BY DEF EndStep, PhaseInv
<1>7. XmfInv'
  BY DEF EndStep, XmfInv, files
<1> QED BY <1>1, <1>2, <1>3, <1>4, <1>5, <1>6, <1>7

LEMMA FlushXmfBase == Base /\ FlushXmf /\ UNCHANGED history => Base'
<1> SUFFICES ASSUME Base, FlushXmf, UNCHANGED history PROVE Base'
  OBVIOUS
<1> USE CheckpointAssumption DEF Base, Loaded, Running, FieldsDone, SpecialDone
<1>1. TypeOK'
  BY DEF FlushXmf, TypeOK, history
<1>2. FilesInv'
  BY DEF FlushXmf, FilesInv, XmfInv
<1>3. SnapInv'
  BY DEF FlushXmf, SnapInv, Valid, Complete
<1>4. StartInv'
  BY DEF FlushXmf, StartInv, Complete
<1>5. CountInv'
  BY DEF FlushXmf, CountInv
<1>6. PhaseInv'
  BY DEF FlushXmf, PhaseInv, FieldsDue, SnapshotDue, SnapshotContent
<1>7. XmfInv'
  <2>1. xmf' \in Seq(Nat)
    BY Seqs DEF FlushXmf, FilesInv, XmfInv
  <2> QED BY <2>1, ContentAssumption DEF FlushXmf, XmfInv
<1> QED BY <1>1, <1>2, <1>3, <1>4, <1>5, <1>6, <1>7

LEMMA CrashBase == Base /\ Crash => Base'
<1> SUFFICES ASSUME Base, Crash PROVE Base'
  OBVIOUS
<1> USE CheckpointAssumption DEF Base, Loaded, Running, FieldsDone, SpecialDone
<1>1. TypeOK'
  BY DEF Crash, TypeOK
<1>2. FilesInv'
  BY DEF Crash, FilesInv, files
<1>3. SnapInv'
  BY DEF Crash, SnapInv, Valid, Complete, files
<1>4. StartInv'
  BY DEF Crash, StartInv
<1>5. CountInv'
  BY DEF Crash, CountInv
<1>6. PhaseInv'
  BY DEF Crash, PhaseInv
<1>7. XmfInv'
  BY DEF Crash, XmfInv, files
<1> QED BY <1>1, <1>2, <1>3, <1>4, <1>5, <1>6, <1>7

LEMMA RecoverUsableBase == Base /\ RecoverUsable => Base'
<1> SUFFICES ASSUME Base, RecoverUsable PROVE Base'
  OBVIOUS
<1> USE CheckpointAssumption DEF Base, Loaded, Running, FieldsDone, SpecialDone
<1>1. TypeOK'
  <2>1. older' \in BOOLEAN
    BY DEF RecoverUsable, TypeOK
  <2> QED BY <2>1 DEF RecoverUsable, StartFrom, TypeOK, UsableSnaps, Snaps
<1>2. FilesInv'
  <2>1. UNCHANGED files /\ xmfBuf' = <<>>
    BY DEF RecoverUsable, StartFrom
  <2> QED BY <2>1, Seqs DEF FilesInv, files
<1>3. SnapInv'
  BY DEF RecoverUsable, SnapInv, Valid, Complete, files
<1>4. StartInv'
  BY DEF RecoverUsable, StartInv, Complete, files, StartFrom, UsableSnaps, Usable
<1>5. CountInv'
  <2>1. restart' = None => OutputsBefore(fldNum', step')
    BY DEF RecoverUsable, StartFrom, OutputsBefore
  <2> QED BY <2>1, ContentAssumption DEF RecoverUsable, StartFrom, CountInv, UsableSnaps, Snaps
<1>6. PhaseInv'
  BY DEF RecoverUsable, PhaseInv, StartFrom
<1>7. XmfInv'
  BY DEF RecoverUsable, XmfInv, StartFrom
<1> QED BY <1>1, <1>2, <1>3, <1>4, <1>5, <1>6, <1>7

LEMMA RecoverInVainBase == Base /\ RecoverInVain => Base'
<1> SUFFICES ASSUME Base, RecoverInVain PROVE Base'
  OBVIOUS
<1> USE CheckpointAssumption DEF Base, Loaded, Running, FieldsDone, SpecialDone
<1>1. TypeOK'
  BY DEF RecoverInVain, TypeOK, history, Snaps, StartFrom
<1>2. FilesInv'
  BY DEF RecoverInVain, FilesInv, files, StartFrom
<1>3. SnapInv'
  BY DEF RecoverInVain, SnapInv, Valid, Complete, files
<1>4. StartInv'
  BY DEF RecoverInVain, StartInv, Complete, files, StartFrom
<1>5. CountInv'
  <2>1. restart' = None => OutputsBefore(fldNum', step')
    BY DEF RecoverInVain, StartFrom, OutputsBefore
  <2> QED BY <2>1, ContentAssumption DEF RecoverInVain, StartFrom, CountInv, UsableSnaps, Snaps
<1>6. PhaseInv'
  BY DEF RecoverInVain, PhaseInv, StartFrom
<1>7. XmfInv'
  BY DEF RecoverInVain, XmfInv, StartFrom
<1> QED BY <1>1, <1>2, <1>3, <1>4, <1>5, <1>6, <1>7

LEMMA InitBase == Init => Base
<1> SUFFICES ASSUME Init PROVE Base
  OBVIOUS
<1> USE CheckpointAssumption DEF Init, Loaded, Running, FieldsDone, SpecialDone
<1>1. TypeOK
  <2>1. 0 \in 0 .. MaxSteps + 1 /\ 0 \in 0 .. MaxCrashes /\ 0 \in Snaps
    BY DEF Snaps
  <2> QED BY <2>1 DEF TypeOK
<1>2. FilesInv
  BY Seqs DEF FilesInv
<1>3. SnapInv
  BY DEF SnapInv, Complete
<1>4. StartInv /\ PhaseInv /\ XmfInv
  BY DEF StartInv, PhaseInv, XmfInv
<1>5. CountInv
  BY DEF CountInv, OutputsBefore
<1> QED BY <1>1, <1>2, <1>3, <1>4, <1>5 DEF Base

LEMMA BaseInductive == Base /\ [Next]_vars => Base'
<1> SUFFICES ASSUME Base, [Next]_vars PROVE Base'
  OBVIOUS
<1>1. CASE UNCHANGED vars
  BY <1>1 DEF Base, vars, volatile, files, history, TypeOK, FilesInv, SnapInv, StartInv,
     CountInv, PhaseInv, XmfInv, Loaded, Running, FieldsDone, SpecialDone, Valid, Complete,
     FieldsDue, SnapshotDue, SnapshotContent
<1> QED BY <1>1, SystemsBase, LoadBase, CreateFieldsBase, SkipFieldsBase, CloseFieldsBase,
           SpecialOutputBase, CreateSnapshotBase, SkipSnapshotBase, CloseSnapshotBase,
           CopyXmfBase, EndStepBase, FlushXmfBase, CrashBase, RecoverUsableBase,
           RecoverInVainBase DEF Next, Work

\* Every counter keeps within what the length of the run allows, through any number of
\* crashes and restarts: in particular the numbers of files, which come from a snapshot
\* and go on from there, and the snapshot that is overwritten next.
THEOREM TypeCorrect == Spec => []TypeOK
<1>1. Base => TypeOK
  BY DEF Base
<1> QED BY InitBase, BaseInductive, <1>1, PTL DEF Spec

\* However a run was interrupted, the data a step begins with have had one update for
\* every step before it: the update that is made before the snapshot is loaded does
\* not count, and the step that a restart begins with is neither left out nor repeated.
THEOREM UpdatesMatchSteps == Spec => []EvolvedMatchesStep
<1>1. Base => EvolvedMatchesStep
  BY DEF Base, CountInv, EvolvedMatchesStep
<1> QED BY InitBase, BaseInductive, <1>1, PTL DEF Spec

--------------------------------------------------------------------------------
\* A step that leaves the snapshots and the position in the rotation alone.
LEMMA LossKept ==
  ASSUME LossInv, Loaded, UNCHANGED <<snap, snapXmf, current, restart>>, Now' = Now
  PROVE  LossInv'
BY DEF LossInv, Recent, Usable, Complete, NextSnapshot

\* Overwriting the snapshot that is next in the rotation leaves the latest one alone.
LEMMA LossOverwriting ==
  ASSUME LossInv, Loaded, UNCHANGED <<snapXmf, current, restart>>, Now' = Now,
         \A k \in Snaps \ {current} : snap'[k] = snap[k]
  PROVE  LossInv'
BY DEF LossInv, Recent, Usable, Complete, NextSnapshot

LEMMA LossInductive ==
  ASSUME NumSnapshots >= 2
  PROVE  Base /\ LossInv /\ [Next]_vars => LossInv'
<1> SUFFICES ASSUME Base, LossInv, [Next]_vars PROVE LossInv'
  OBVIOUS
<1> USE CheckpointAssumption DEF Base
<1>1. CASE Systems \/ CreateFields \/ SkipFields \/ CloseFields \/ SpecialOutput
  <2>1. Now' = Now /\ UNCHANGED <<snap, snapXmf, current, restart>>
    BY <1>1 DEF Systems, CreateFields, SkipFields, CloseFields, SpecialOutput, Now, files
  <2>2. Loaded' => Loaded
    BY <1>1, <2>1 DEF Systems, CreateFields, SkipFields, CloseFields, SpecialOutput, Loaded,
       Running
  <2> QED BY <2>1, <2>2, LossKept DEF LossInv
<1>2. CASE EndStep \/ FlushXmf \/ UNCHANGED vars
  <2>1. Now' = Now /\ UNCHANGED <<snap, snapXmf, current, restart>>
    BY <1>2 DEF EndStep, FlushXmf, vars, volatile, files, Now
  <2>2. Loaded' => Loaded
    BY <1>2 DEF EndStep, FlushXmf, vars, volatile, Loaded, Running
  <2> QED BY <2>1, <2>2, LossKept DEF LossInv
<1>3. CASE CreateSnapshot \/ CloseSnapshot
  <2>1. Loaded /\ Now' = Now /\ UNCHANGED <<snapXmf, current, restart>>
    BY <1>3 DEF CreateSnapshot, CloseSnapshot, Now, Loaded, Running, StartInv
  <2>2. \A k \in Snaps \ {current} : snap'[k] = snap[k]
    BY <1>3 DEF CreateSnapshot, CloseSnapshot, SnapInv
  <2> QED BY <2>1, <2>2, LossOverwriting
<1>4. CASE SkipSnapshot
  <2>1. /\ Loaded /\ Now = step /\ Now' = step + 1 /\ step \in Nat
        /\ UNCHANGED <<snap, snapXmf, current, restart>>
        /\ step = 0 \/ step % SnapInterval # 0
    BY <1>4 DEF SkipSnapshot, SnapshotDue, Now, Loaded, Running, StartInv, TypeOK, files
  <2>2. CASE step <= SnapInterval
    <3>1. (0 + SnapInterval) % SnapInterval = 0
      BY PlusInterval
    <3>2. step < SnapInterval
      BY <2>1, <2>2, <3>1
    <3> QED BY <2>1, <3>2 DEF LossInv
  <2>3. ASSUME NEW k \in Snaps, Recent(k) PROVE LossInv'
    <3>1. Valid(k)
      BY <2>3 DEF Recent, Usable, SnapInv
    <3>2. (snap[k].step + SnapInterval) % SnapInterval = 0 /\ snap[k].step \in Nat
      BY <3>1, PlusInterval DEF Valid
    <3>3. step + 1 <= snap[k].step + SnapInterval
      <4>1. step # snap[k].step + SnapInterval
        BY <2>1, <3>2
      <4>2. step <= snap[k].step + SnapInterval
        BY <2>1, <2>3 DEF Recent
      <4>3. step \in Nat /\ snap[k].step + SnapInterval \in Nat
        BY <2>1, <3>2
      <4> QED BY <4>1, <4>2, <4>3
    <3>4. Recent(k)'
      BY <2>1, <2>3, <3>2, <3>3 DEF Recent, Usable, Complete, NextSnapshot
    <3> QED BY <3>4 DEF LossInv
  <2> QED BY <2>1, <2>2, <2>3 DEF LossInv
<1>5. CASE CopyXmf
  <2>1. PICK k \in Snaps : k = current
    BY DEF TypeOK
  <2>2. /\ Loaded /\ Now' = step + 1 /\ step \in Nat
        /\ snap[k] = SnapshotContent /\ xmf # None
    BY <1>5, <2>1 DEF CopyXmf, Now, Loaded, Running, StartInv, TypeOK, PhaseInv, XmfInv,
       FieldsDone
  <2>3. snap[k] \in Snapshot /\ snap[k].step = step
    BY <2>2 DEF SnapshotContent, Snapshot, TypeOK, Snaps
  <2>4. UNCHANGED snap /\ snapXmf'[k] = xmf /\ current' = NextSnapshot(k)
    BY <1>5, <2>1 DEF CopyXmf, FilesInv
  <2>5. Usable(k)'
    BY <2>2, <2>3, <2>4, ContentAssumption DEF Usable, Complete
  <2>6. Recent(k)'
    BY <2>2, <2>3, <2>4, <2>5, Rotation DEF Recent, NextSnapshot
  <2> QED BY <2>6 DEF LossInv
<1>6. CASE Load
  <2>1. CASE LoadFails(restart)
    BY <1>6, <2>1 DEF Load, LossInv, Loaded, Running
  <2>2. CASE ~LoadFails(restart)
    <3>1. restart \in Snaps /\ Complete(restart) /\ Valid(restart)
      BY <1>6 DEF Load, StartInv, CountInv, SnapInv, Loaded, Running
    <3>2. /\ Now' = snap[restart].step + 1 /\ snap[restart].step \in Nat
          /\ current' = NextSnapshot(restart)
          /\ UNCHANGED <<snap, snapXmf>> /\ snapXmf[restart] # None
      BY <1>6, <2>2, <3>1 DEF Load, LoadFails, Restored, Now, Valid
    <3>3. NextSnapshot(restart) # restart
      BY <3>1, Rotation
    <3>4. \E k \in Snaps : Recent(k)'
      BY <3>1, <3>2, <3>3 DEF Recent, Usable, Complete, NextSnapshot
    <3> QED BY <3>4 DEF LossInv
  <2> QED BY <2>1, <2>2
<1>7. CASE Crash
  BY <1>7 DEF Crash, LossInv, Loaded, Running
<1>8. CASE RecoverUsable \/ RecoverInVain
  <2>1. restart' # None \/ (step' = 0 /\ phase' = "systems")
    BY <1>8 DEF RecoverUsable, RecoverInVain, StartFrom
  <2> QED BY <2>1 DEF LossInv, Loaded, Now
<1> QED BY <1>1, <1>2, <1>3, <1>4, <1>5, <1>6, <1>7, <1>8 DEF Next, Work

\* As long as there are at least two snapshot files, a crash at any moment costs at most
\* one interval of steps: while one snapshot is overwritten, the one before it is whole.
\* (With a single file the run has nothing while that file is written.)
THEOREM LossIsBounded ==
  ASSUME NumSnapshots >= 2
  PROVE  Spec => []BoundedLoss
<1>1. Init => LossInv
  BY CheckpointAssumption DEF Init, LossInv, Now
<1>2. Base /\ LossInv => BoundedLoss
  <2> SUFFICES ASSUME Base, LossInv, Loaded, step > SnapInterval
               PROVE  \E k \in UsableSnaps : snap[k].step >= step - SnapInterval
    BY DEF BoundedLoss
  <2>1. SnapInterval \in Nat /\ step \in Nat /\ Now >= step
    BY CheckpointAssumption DEF Base, TypeOK, Now
  <2>2. PICK k \in Snaps : Recent(k)
    BY <2>1 DEF LossInv, Now
  <2>3. k \in UsableSnaps /\ snap[k].step \in Nat /\ Now <= snap[k].step + SnapInterval
    BY <2>2 DEF Recent, UsableSnaps, Base, SnapInv, Valid, Usable
  <2> QED BY <2>1, <2>3 DEF Now
<1> QED BY InitBase, BaseInductive, LossInductive, <1>1, <1>2, PTL DEF Spec

--------------------------------------------------------------------------------
\* A step that writes no field file and completes no snapshot.
LEMMA SeriesKept ==
  ASSUME Base, SeriesInv, UNCHANGED <<fld, fldNum, restart, older>>, Loaded' => Loaded,
         Running' => Running,
         \A k \in UsableSnaps' : k \in UsableSnaps /\ snap'[k] = snap[k]
  PROVE  SeriesInv'
<1> SUFFICES ASSUME ~older PROVE SeriesInv'
  BY DEF SeriesInv
<1>1. \A k \in UsableSnaps' : InOrder(snap[k].fldNum)'
  BY DEF SeriesInv, InOrder
<1>2. Loaded' => InOrder(fldNum)' /\ \A k \in UsableSnaps' : snap'[k].fldNum <= fldNum'
  BY DEF SeriesInv, InOrder
<1>3. Running' /\ restart' \in UsableSnaps' => Newest(restart)'
  BY DEF SeriesInv, Newest
<1> QED BY <1>1, <1>2, <1>3 DEF SeriesInv

LEMMA SeriesInductive == Base /\ SeriesInv /\ [Next]_vars => SeriesInv'
<1> SUFFICES ASSUME Base, SeriesInv, [Next]_vars PROVE SeriesInv'
  OBVIOUS
<1> USE CheckpointAssumption DEF Base
<1>1. ASSUME Systems \/ SkipFields \/ SpecialOutput \/ SkipSnapshot \/ EndStep \/ FlushXmf,
             UNCHANGED history
      PROVE  SeriesInv'
  <2>1. UNCHANGED <<fld, snap, snapXmf, fldNum, restart, older>>
    BY <1>1 DEF Systems, SkipFields, SpecialOutput, SkipSnapshot, EndStep, FlushXmf, files,
       history
  <2>2. (Running' => Running) /\ (Loaded' => Loaded)
    BY <1>1, <2>1 DEF Systems, SkipFields, SpecialOutput, SkipSnapshot, EndStep, FlushXmf,
       Running, Loaded
  <2> QED BY <2>1, <2>2, SeriesKept DEF UsableSnaps, Usable, Complete
<1>2. CASE UNCHANGED vars
  BY <1>2, SeriesKept DEF vars, volatile, files, history, UsableSnaps, Usable, Complete,
     Loaded, Running
<1>3. ASSUME CreateSnapshot, UNCHANGED history PROVE SeriesInv'
  <2>1. /\ UNCHANGED <<fld, fldNum, restart, older>>
        /\ Running' => Running
        /\ Loaded' => Loaded
    BY <1>3 DEF CreateSnapshot, history, Running, Loaded
  <2>2. \A k \in UsableSnaps' : k \in UsableSnaps /\ snap'[k] = snap[k]
    BY <1>3 DEF CreateSnapshot, UsableSnaps, Usable, Complete, SnapInv
  <2> QED BY <2>1, <2>2, SeriesKept
<1>4. ASSUME CloseSnapshot \/ CopyXmf, UNCHANGED history, ~older PROVE SeriesInv'
  <2>1. PICK c \in Snaps : c = current
    BY DEF TypeOK
  <2>2. /\ UNCHANGED <<fld, fldNum, restart, older>> /\ Loaded /\ restart = None
        /\ snap'[c].fldNum = fldNum
        /\ \A k \in UsableSnaps' : k = c \/ (k \in UsableSnaps /\ snap'[k] = snap[k])
    BY <1>4, <2>1 DEF CloseSnapshot, CopyXmf, SnapshotContent, PhaseInv, StartInv, SnapInv,
       FilesInv, Loaded, Running, UsableSnaps, Usable, Complete, history
  <2>3. /\ InOrder(fldNum)
        /\ \A k \in UsableSnaps : snap[k].fldNum <= fldNum /\ InOrder(snap[k].fldNum)
    BY <1>4, <2>2 DEF SeriesInv
  <2>4. \A k \in UsableSnaps' : snap'[k].fldNum <= fldNum' /\ InOrder(snap[k].fldNum)'
    BY <2>2, <2>3 DEF InOrder, TypeOK
  <2>5. restart' \notin Snaps
    BY <2>2, ContentAssumption DEF Snaps
  <2> QED BY <2>2, <2>3, <2>4, <2>5 DEF SeriesInv, InOrder, UsableSnaps
<1>5. ASSUME CreateFields \/ CloseFields, UNCHANGED history, ~older PROVE SeriesInv'
  <2>1. /\ UNCHANGED <<snap, snapXmf, restart, older>> /\ Loaded /\ restart = None
        /\ fldNum \in Nat
        /\ \A k \in Nums : k # fldNum => fld'[k] = fld[k]
    BY <1>5 DEF CreateFields, CloseFields, Loaded, Running, StartInv, TypeOK, FilesInv,
       history
  <2>2. /\ InOrder(fldNum)
        /\ \A k \in UsableSnaps : snap[k].fldNum <= fldNum /\ snap[k].fldNum \in Nat
    BY <1>5, <2>1 DEF SeriesInv, SnapInv, Valid, Snapshot, UsableSnaps, Usable
  <2>3. \A n \in Nat : n <= fldNum /\ InOrder(n) => InOrder(n)'
    BY <2>1 DEF InOrder, Nums
  <2>4. UsableSnaps' = UsableSnaps
    BY <2>1 DEF UsableSnaps, Usable, Complete
  <2>5. \A k \in UsableSnaps' : InOrder(snap[k].fldNum)'
    BY <1>5, <2>1, <2>2, <2>3, <2>4 DEF SeriesInv
  <2>6. restart' \notin Snaps
    BY <2>1, ContentAssumption DEF Snaps
  <2>7. InOrder(fldNum)' /\ fldNum' >= fldNum /\ fldNum' \in Nat
    <3>1. CASE CreateFields
      BY <2>1, <2>2, <2>3, <3>1 DEF CreateFields, InOrder
    <3>2. CASE CloseFields
      <4>1. /\ fldNum' = fldNum + 1 /\ step = fldNum * FldInterval
            /\ step \in Nat /\ acc \in Nat
        BY <2>1, <3>2, OutputMade DEF CloseFields, PhaseInv, CountInv, FieldsDue, FieldsDone,
           TypeOK
      <4>2. fldNum \in Nums => fld'[fldNum] \in Output /\ fld'[fldNum].step = step
        BY <3>2, <4>1 DEF CloseFields, FilesInv, Output
      <4> QED BY <2>1, <2>2, <4>1, <4>2 DEF InOrder, Nums
    <3> QED BY <1>5, <3>1, <3>2
  <2>8. \A k \in UsableSnaps' : snap'[k].fldNum <= fldNum'
    BY <2>1, <2>2, <2>4, <2>7
  <2> QED BY <2>5, <2>6, <2>7, <2>8 DEF SeriesInv, UsableSnaps
<1>6. ASSUME Load, UNCHANGED history, ~older PROVE SeriesInv'
  <2>1. /\ UNCHANGED <<fld, snap, snapXmf, older>>
        /\ restart \in Snaps /\ Complete(restart) /\ Running
    BY <1>6 DEF Load, files, StartInv, CountInv, Loaded, Running, history
  <2>2. UsableSnaps' = UsableSnaps /\ \A n \in Nat : InOrder(n) => InOrder(n)'
    BY <2>1 DEF UsableSnaps, Usable, Complete, InOrder
  <2>3. \A k \in UsableSnaps : snap[k].fldNum \in Nat /\ Valid(k) /\ snap[k].step \in Nat
    BY DEF UsableSnaps, Usable, SnapInv, Valid, Snapshot
  <2>4. \A k \in UsableSnaps' : InOrder(snap[k].fldNum)'
    BY <1>6, <2>1, <2>2, <2>3 DEF SeriesInv
  <2>5. CASE LoadFails(restart)
    BY <1>6, <2>4, <2>5 DEF Load, SeriesInv, Loaded, Running
  <2>6. CASE ~LoadFails(restart)
    <3>1. restart \in UsableSnaps
      BY <2>1, <2>6 DEF UsableSnaps, Usable, LoadFails
    <3>2. Newest(restart)
      BY <1>6, <2>1, <3>1 DEF SeriesInv
    <3>3. /\ fldNum' = snap[restart].fldNum
          /\ restart' = None
      BY <1>6, <2>6 DEF Load, Restored
    <3>4. \A k \in UsableSnaps : snap[k].fldNum <= snap[restart].fldNum
      <4> SUFFICES ASSUME NEW k \in UsableSnaps
                   PROVE  snap[k].fldNum <= snap[restart].fldNum
        OBVIOUS
      <4>1. snap[k].step + 1 <= snap[restart].step + 1
        BY <2>3, <3>1, <3>2 DEF Newest
      <4> QED BY <2>3, <3>1, <4>1, OutputsMonotone DEF Valid
    <3>5. restart' \notin Snaps
      BY <3>3, ContentAssumption DEF Snaps
    <3>6. InOrder(snap[restart].fldNum)
      BY <1>6, <3>1 DEF SeriesInv
    <3> QED BY <2>1, <2>2, <2>3, <2>4, <3>1, <3>3, <3>4, <3>5, <3>6
            DEF SeriesInv, UsableSnaps
  <2> QED BY <2>5, <2>6
<1>7. CASE Crash
  <2>1. UNCHANGED <<fld, fldNum, snap, snapXmf, restart, older>> /\ ~Running'
    BY <1>7 DEF Crash, files, Running
  <2> QED BY <2>1, SeriesKept DEF UsableSnaps, Usable, Complete, Loaded
<1>8. CASE RecoverUsable \/ RecoverInVain
  <2>1. /\ UNCHANGED <<fld, snap, snapXmf>> /\ (~older' => ~older)
        /\ fldNum' = 0
    BY <1>8 DEF RecoverUsable, RecoverInVain, StartFrom, files, history, TypeOK
  <2>2. UsableSnaps' = UsableSnaps
    BY <2>1 DEF UsableSnaps, Usable, Complete
  <2>3. ~older' => \A k \in UsableSnaps' : InOrder(snap[k].fldNum)'
    BY <2>1, <2>2 DEF SeriesInv, InOrder
  <2>4. InOrder(fldNum)'
    BY <2>1 DEF InOrder, Nums
  <2>5. Loaded' => UsableSnaps' = {}
    BY <1>8, <2>2, ContentAssumption
       DEF RecoverUsable, RecoverInVain, StartFrom, Loaded, UsableSnaps, Snaps
  <2>6. ~older' /\ restart' \in UsableSnaps' => Newest(restart)'
    BY <1>8, <2>1, <2>2, ContentAssumption
       DEF RecoverUsable, RecoverInVain, StartFrom, UsableSnaps, Snaps, Newest
  <2> QED BY <2>3, <2>4, <2>5, <2>6 DEF SeriesInv
<1>9. CASE older
  <2>1. ~older' => RecoverUsable \/ RecoverInVain
    BY <1>9 DEF Next, Crash, vars, history
  <2> QED BY <2>1, <1>8 DEF SeriesInv
<1> QED BY <1>1, <1>2, <1>3, <1>4, <1>5, <1>6, <1>7, <1>8, <1>9 DEF Next, Work

\* As long as every restart was from the newest snapshot, the field files are the
\* outputs of the run, one after the other, and none of them is one that a crash has
\* left half written: that one has been written again.
THEOREM FieldFilesInOrder == Spec => []FieldSeries
<1>1. Init => SeriesInv
  BY DEF Init, SeriesInv, InOrder, UsableSnaps, Usable, Complete, Nums
<1>2. SeriesInv => FieldSeries
  BY ContentAssumption DEF SeriesInv, FieldSeries, InOrder
<1> QED BY InitBase, BaseInductive, SeriesInductive, <1>1, <1>2, PTL DEF Spec

--------------------------------------------------------------------------------
LEMMA SetsOfNums ==
  ASSUME NEW S \in SUBSET Nums
  PROVE  IsFiniteSet(S) /\ Cardinality(S) \in Nat
<1>1. IsFiniteSet(Nums)
  BY CheckpointAssumption, FS_Interval DEF Nums
<1> QED BY <1>1, FS_Subset, FS_CardinalityType

\* One more set of numbers, or fewer.
LEMMA SetsCompared ==
  ASSUME NEW S \in SUBSET Nums, NEW T \in SUBSET Nums, NEW x
  PROVE  /\ T \subseteq S => Cardinality(T) <= Cardinality(S)
         /\ T \subseteq S \cup {x} => Cardinality(T) <= Cardinality(S) + 1
<1>1. IsFiniteSet(S) /\ Cardinality(S) \in Nat /\ Cardinality(T) \in Nat
  BY SetsOfNums
<1>2. ASSUME T \subseteq S PROVE Cardinality(T) <= Cardinality(S)
  BY <1>1, <1>2, FS_Subset
<1>3. ASSUME T \subseteq S \cup {x} PROVE Cardinality(T) <= Cardinality(S) + 1
  <2>1. /\ IsFiniteSet(S \cup {x})
        /\ Cardinality(S \cup {x}) = Cardinality(S)
           \/ Cardinality(S \cup {x}) = Cardinality(S) + 1
    BY <1>1, FS_AddElement
  <2>2. Cardinality(T) <= Cardinality(S \cup {x})
    BY <2>1, <1>3, FS_Subset
  <2> QED BY <1>1, <2>1, <2>2
<1> QED BY <1>2, <1>3

\* A step that closes no field file: nothing is spoiled as long as data are on track.
LEMMA SpoiledKept ==
  ASSUME SpoiledInv, TypeOK, UNCHANGED crashes, Spoiled' \subseteq Spoiled,
         OnTrack \/ phase = "finished" => OnTrack' \/ phase' = "finished"
  PROVE  SpoiledInv'
<1>1. Spoiled \in SUBSET Nums /\ Spoiled' \in SUBSET Nums
  BY DEF Spoiled, Nums
<1>2. /\ Cardinality(Spoiled') <= Cardinality(Spoiled)
      /\ Cardinality(Spoiled) \in Nat /\ Cardinality(Spoiled') \in Nat /\ crashes \in Nat
  BY <1>1, SetsOfNums, SetsCompared DEF TypeOK
<1>3. CASE OnTrack \/ phase = "finished"
  BY <1>2, <1>3 DEF SpoiledInv
<1>4. CASE ~(OnTrack \/ phase = "finished")
  BY <1>2, <1>4 DEF SpoiledInv
<1> QED BY <1>3, <1>4

LEMMA SpoiledInductive == Base /\ SpoiledInv /\ [Next]_vars => SpoiledInv'
<1> SUFFICES ASSUME Base, SpoiledInv, [Next]_vars PROVE SpoiledInv'
  OBVIOUS
<1> USE DEF Base
<1>1. ASSUME Systems \/ SkipFields \/ SpecialOutput \/ CreateSnapshot \/ SkipSnapshot
             \/ CloseSnapshot \/ CopyXmf \/ EndStep \/ FlushXmf,
             UNCHANGED history
      PROVE  SpoiledInv'
  <2>1. UNCHANGED <<fld, fldNum, restart, crashes>>
    BY <1>1 DEF Systems, SkipFields, SpecialOutput, CreateSnapshot, SkipSnapshot,
       CloseSnapshot, CopyXmf, EndStep, FlushXmf, files, history
  <2>2. Spoiled' \subseteq Spoiled
    BY <2>1 DEF Spoiled, Exact
  <2>3. /\ Loaded => Loaded' \/ phase' = "finished"
        /\ phase # "finished"
    BY <1>1, <2>1 DEF Systems, SkipFields, SpecialOutput, CreateSnapshot, SkipSnapshot,
       CloseSnapshot, CopyXmf, EndStep, FlushXmf, Loaded, Running
  <2>4. \/ UNCHANGED <<acc, evolved>>
        \/ acc' = acc + 1 /\ evolved' = evolved + 1
    BY <1>1 DEF Systems, SkipFields, SpecialOutput, CreateSnapshot, SkipSnapshot,
       CloseSnapshot, CopyXmf, EndStep, FlushXmf
  <2>5. acc \in Nat /\ evolved \in Nat /\ (fldNum - 1) * FldInterval \in Int
    BY CheckpointAssumption DEF TypeOK
  <2>6. OnTrack => OnTrack' \/ phase' = "finished"
    <3> DEFINE made == (fldNum - 1) * FldInterval
    <3> HIDE DEF made
    <3>1. made \in Int /\ made' = made
      BY <2>1, <2>5 DEF made
    <3> QED BY <2>1, <2>3, <2>4, <2>5, <3>1 DEF OnTrack, made
  <2> QED BY <2>1, <2>2, <2>3, <2>6, SpoiledKept
<1>2. CASE UNCHANGED vars
  BY <1>2, SpoiledKept DEF vars, volatile, files, history, Spoiled, Exact, OnTrack, Loaded,
     Running
<1>3. ASSUME CreateFields, UNCHANGED history PROVE SpoiledInv'
  <2>1. Spoiled' \subseteq Spoiled
    BY <1>3 DEF CreateFields, Spoiled, Exact, FilesInv
  <2>2. OnTrack => OnTrack'
    BY <1>3 DEF CreateFields, OnTrack, Loaded, Running
  <2> QED BY <1>3, <2>1, <2>2, SpoiledKept DEF CreateFields, history
<1>4. ASSUME CloseFields, UNCHANGED history PROVE SpoiledInv'
  <2> PICK n \in Nat : n = fldNum
    BY DEF TypeOK
  <2>1. /\ Loaded /\ Loaded' /\ n \in Nat /\ FldInterval \in Nat /\ acc \in Nat
        /\ step = n * FldInterval /\ step \in Nat /\ evolved = step + 1
    BY <1>4, CheckpointAssumption, OutputMade
       DEF CloseFields, TypeOK, StartInv, CountInv, PhaseInv, FieldsDue, FieldsDone, Loaded,
       Running
  <2>2. OnTrack'
    BY <1>4, <2>1 DEF CloseFields, AfterOutput, OnTrack
  <2>3. \A k \in Nums : k # n => fld'[k] = fld[k]
    BY <1>4 DEF CloseFields, FilesInv
  <2>4. CASE OnTrack
    <3>1. acc = IF n = 0 THEN 1 ELSE FldInterval
      BY <2>1, <2>4 DEF OnTrack
    <3>2. n \in Nums => Exact(n)'
      BY <1>4, <3>1 DEF CloseFields, FilesInv, Exact
    <3>3. Spoiled' \subseteq Spoiled
      BY <2>3, <3>2 DEF Spoiled, Exact
    <3> QED BY <1>4, <2>2, <3>3, SpoiledKept DEF history
  <2>5. CASE ~OnTrack
    <3>1. Spoiled' \subseteq Spoiled \cup {n}
      BY <2>3 DEF Spoiled, Exact
    <3>2. Spoiled \in SUBSET Nums /\ Spoiled' \in SUBSET Nums
      BY DEF Spoiled, Nums
    <3>3. /\ Cardinality(Spoiled') <= Cardinality(Spoiled) + 1
          /\ Cardinality(Spoiled) \in Nat /\ Cardinality(Spoiled') \in Nat
      BY <3>1, <3>2, SetsOfNums, SetsCompared
    <3>4. Cardinality(Spoiled) + 1 <= crashes
      BY <1>4, <2>5 DEF SpoiledInv, CloseFields
    <3> QED BY <1>4, <2>2, <3>3, <3>4 DEF SpoiledInv, history, TypeOK
  <2> QED BY <2>4, <2>5
<1>5. ASSUME Load, UNCHANGED history PROVE SpoiledInv'
  <2>1. UNCHANGED <<fld, crashes>> /\ phase # "finished"
    BY <1>5 DEF Load, files, history
  <2>2. ~OnTrack
    BY <1>5 DEF Load, OnTrack, CountInv
  <2> QED BY <2>1, <2>2, SpoiledKept DEF Spoiled, Exact
<1>6. CASE Crash
  <2>1. /\ UNCHANGED fld /\ crashes' = crashes + 1 /\ crashes \in Nat
        /\ phase' = "dead" /\ ~OnTrack'
    BY <1>6 DEF Crash, files, OnTrack, Loaded, Running, TypeOK
  <2>2. Spoiled' = Spoiled /\ Spoiled \in SUBSET Nums
    BY <2>1 DEF Spoiled, Exact, Nums
  <2>3. Cardinality(Spoiled) \in Nat /\ Cardinality(Spoiled) <= crashes
    BY <2>1, <2>2, SetsOfNums DEF SpoiledInv
  <2> QED BY <2>1, <2>2, <2>3 DEF SpoiledInv
<1>7. CASE RecoverUsable \/ RecoverInVain
  <2>1. UNCHANGED <<fld, crashes>> /\ phase = "dead"
    BY <1>7 DEF RecoverUsable, RecoverInVain, files, history
  <2>2. ~OnTrack
    BY <2>1 DEF OnTrack, Loaded, Running
  <2> QED BY <2>1, <2>2, SpoiledKept DEF Spoiled, Exact
<1> QED BY <1>1, <1>2, <1>3, <1>4, <1>5, <1>6, <1>7 DEF Next, Work

\* What a restart costs in the data that accumulate from one output to the next, and are
\* in no snapshot: at most one output for each crash.  All others have every step since
\* the output before, each once.
THEOREM SpoiledAreFew == Spec => []FewSpoiled
<1>1. Init => SpoiledInv
  <2> SUFFICES ASSUME Init PROVE SpoiledInv
    OBVIOUS
  <2>1. Spoiled = {} /\ OnTrack
    BY DEF Init, Spoiled, OnTrack, Loaded, Running
  <2> QED BY <2>1, FS_EmptySet DEF Init, SpoiledInv
<1>2. Base /\ SpoiledInv => FewSpoiled
  <2> SUFFICES ASSUME Base, SpoiledInv PROVE FewSpoiled
    OBVIOUS
  <2>1. Spoiled \in SUBSET Nums /\ crashes \in Nat
    BY DEF Spoiled, Nums, Base, TypeOK
  <2>2. Cardinality(Spoiled) <= crashes
    BY <2>1, SetsOfNums DEF SpoiledInv
  <2> QED BY <2>2 DEF FewSpoiled, Spoiled
<1> QED BY InitBase, BaseInductive, SpoiledInductive, <1>1, <1>2, PTL DEF Spec

--------------------------------------------------------------------------------
\* The step before which special outputs have been made.
SpecialNow == IF SpecialDone THEN step + 1 ELSE step

\* A step in which no special output comes due.
LEMMA SpecialKept ==
  ASSUME SpecialInv, UNCHANGED <<sp, spNum>>, Loaded' => Loaded, SpecialNow' = SpecialNow
  PROVE  SpecialInv'
BY DEF SpecialInv, SpecialNow

LEMMA SpecialInductive == Base /\ SpecialInv /\ [Next]_vars => SpecialInv'
<1> SUFFICES ASSUME Base, SpecialInv, [Next]_vars PROVE SpecialInv'
  OBVIOUS
<1> USE DEF Base
<1>1. ASSUME Systems \/ CreateFields \/ SkipFields \/ CloseFields \/ CreateSnapshot
             \/ SkipSnapshot \/ CloseSnapshot \/ CopyXmf \/ EndStep \/ FlushXmf
             \/ UNCHANGED vars
      PROVE  SpecialInv'
  <2>1. UNCHANGED <<sp, spNum>> /\ (Loaded' => Loaded)
    BY <1>1 DEF Systems, CreateFields, SkipFields, CloseFields, CreateSnapshot,
       SkipSnapshot, CloseSnapshot, CopyXmf, EndStep, FlushXmf, vars, volatile, files,
       Loaded, Running
  <2>2. SpecialNow' = SpecialNow
    BY <1>1 DEF Systems, CreateFields, SkipFields, CloseFields, CreateSnapshot,
       SkipSnapshot, CloseSnapshot, CopyXmf, EndStep, FlushXmf, vars, volatile,
       SpecialNow, SpecialDone
  <2> QED BY <2>1, <2>2, SpecialKept
<1>2. CASE SpecialOutput
  <2> PICK n \in Nat : n = spNum
    BY DEF TypeOK
  <2>1. /\ Loaded /\ SpecialNow = step /\ SpecialNow' = step + 1
        /\ step \in Nat /\ step <= MaxSteps /\ n <= step
        /\ SpInterval \in Nat \ {0} /\ MaxSteps \in Nat
    BY <1>2, CheckpointAssumption
       DEF SpecialOutput, Loaded, Running, StartInv, CountInv, TypeOK, SpecialNow,
       SpecialDone
  <2>2. ASSUME n > 0
        PROVE  LET last == sp[n - 1]
               IN  /\ last \in Nat /\ last % SpInterval = 0
                   /\ last < step /\ step <= last + SpInterval
                   /\ \A k \in Nums : k + 1 < n => /\ sp[k] \in Nat /\ sp[k + 1] \in Nat
                                                   /\ sp[k + 1] = sp[k] + SpInterval
    BY <2>1, <2>2 DEF SpecialInv, SpecialNow
  <2>3. CASE step % SpInterval = 0
    <3>1. /\ n \in Nums /\ spNum' = n + 1
          /\ sp'[n] = step
          /\ \A k \in Nums : k # n => sp'[k] = sp[k]
      BY <1>2, <2>1, <2>3 DEF SpecialOutput, NextSpecial, FilesInv, Nums
    <3>2. n > 0 => sp[n - 1] + SpInterval = step
      BY <2>1, <2>2, <2>3, MultiplesApart
    <3>3. \A k \in Nums : k + 1 < n + 1 => /\ sp'[k] \in Nat /\ sp'[k + 1] \in Nat
                                           /\ sp'[k + 1] = sp'[k] + SpInterval
      <4> SUFFICES ASSUME NEW k \in Nums, k + 1 < n + 1
                   PROVE  /\ sp'[k] \in Nat /\ sp'[k + 1] \in Nat
                          /\ sp'[k + 1] = sp'[k] + SpInterval
        OBVIOUS
      <4>1. CASE k + 1 = n
        BY <2>1, <2>2, <3>1, <3>2, <4>1 DEF Nums
      <4>2. CASE k + 1 < n
        <5>1. n > 0 /\ k # n /\ k + 1 # n /\ k + 1 \in Nums
          BY <2>1, <4>2 DEF Nums
        <5> QED BY <2>2, <3>1, <4>2, <5>1
      <4> QED BY <4>1, <4>2 DEF Nums
    <3> QED BY <2>1, <2>3, <3>1, <3>3 DEF SpecialInv, SpecialNow
  <2>4. CASE step % SpInterval # 0
    <3>1. UNCHANGED <<sp, spNum>>
      BY <1>2, <2>4 DEF SpecialOutput
    <3>2. ASSUME n > 0 PROVE step + 1 <= sp[n - 1] + SpInterval
      <4>1. (sp[n - 1] + SpInterval) % SpInterval = 0
        BY <2>1, <2>2, <3>2, PlusInterval
      <4>2. step # sp[n - 1] + SpInterval
        BY <2>4, <4>1
      <4>3. sp[n - 1] \in Nat /\ step <= sp[n - 1] + SpInterval
        BY <2>2, <3>2
      <4> QED BY <2>1, <4>2, <4>3
    <3>3. n > 0 => sp[n - 1] < step + 1
      BY <2>1, <2>2
    <3> QED BY <2>1, <2>2, <3>1, <3>2, <3>3 DEF SpecialInv, SpecialNow
  <2> QED BY <2>3, <2>4
<1>3. CASE Load
  BY <1>3 DEF Load, Restored, SpecialInv, StartInv, CountInv, Loaded, Running
<1>4. CASE Crash
  BY <1>4 DEF Crash, SpecialInv, Loaded, Running
<1>5. CASE RecoverUsable \/ RecoverInVain
  BY <1>5 DEF RecoverUsable, RecoverInVain, StartFrom, SpecialInv
<1> QED BY <1>1, <1>2, <1>3, <1>4, <1>5 DEF Next, Work

\* The special output files that one process writes are a series without a gap, from
\* wherever it was started.
THEOREM SpecialFilesInSeries == Spec => []SpecialSeries
<1>1. Init => SpecialInv
  BY DEF Init, SpecialInv
<1>2. Base /\ SpecialInv => SpecialSeries
  <2> SUFFICES ASSUME Base, SpecialInv, Loaded, NEW k \in Nums, k + 1 < spNum
               PROVE  /\ sp[k] # None /\ sp[k + 1] # None
                      /\ sp[k + 1] = sp[k] + SpInterval
    BY DEF SpecialSeries
  <2>1. spNum > 0
    BY DEF Base, TypeOK, Nums
  <2>2. sp[k] \in Nat /\ sp[k + 1] \in Nat /\ sp[k + 1] = sp[k] + SpInterval
    BY <2>1 DEF SpecialInv
  <2> QED BY <2>2, ContentAssumption
<1> QED BY InitBase, BaseInductive, SpecialInductive, <1>1, <1>2, PTL DEF Spec
================================================================================
