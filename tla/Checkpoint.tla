------------------------------- MODULE Checkpoint ------------------------------
(***************************************************************************)
(* The step loop of sim_environment with the data_exporter as its last     *)
(* system: field output, output on a special interval, the list of outputs *)
(* for visualization (data.xmf), rotating snapshots, a crash at any point  *)
(* and the restart from a snapshot file.                                   *)
(*                                                                         *)
(* The simulated state is abstracted to how many updates have been applied *)
(* to it: "evolved" for all that is included in snapshots, "acc" for data  *)
(* that is reset after it was output and accumulates from then on.  A file *)
(* is None, Partial (created and not yet closed) or its content.           *)
(***************************************************************************)
EXTENDS Integers, Sequences, FiniteSets

CONSTANTS MaxSteps,      \* max_steps
          FldInterval,   \* fld_output_interval
          SpInterval,    \* m_special_output_interval of one data component
          SnapInterval,  \* snapshot_interval
          NumSnapshots,  \* num_snapshots
          MaxCrashes,    \* bound: crashes of the process
          None, Partial

ASSUME CheckpointAssumption ==
  /\ MaxSteps \in Nat /\ MaxCrashes \in Nat
  /\ {FldInterval, SpInterval, SnapInterval} \subseteq Nat \ {0}
  /\ NumSnapshots \in Nat \ {0}

VARIABLES
  phase,     \* where update is; "dead" after a crash, "finished" after max_steps
  step,      \* sim_environment's step
  restart,   \* the snapshot to restart from, None if is_restart() is false
  evolved, acc,
  fldNum, spNum, current,   \* m_fld_num, m_special_output_num, m_current_snapshot
  xmfOpen,   \* m_xmf: "closed", "good" or "failed"
  xmfBuf,    \* what was written to m_xmf and is not in the file yet
  fld, sp,   \* files: field output (its step and acc), special output (its step)
  xmf,       \* file data.xmf: the steps it lists, None if there is none
  snap,      \* files snapshotN.h5
  snapXmf,   \* files snapshotN.xmf
  crashes,
  older      \* history: a restart was not from the newest usable snapshot

volatile == <<phase, step, restart, evolved, acc, fldNum, spNum, current,
              xmfOpen, xmfBuf>>
files == <<fld, sp, xmf, snap, snapXmf>>
history == <<crashes, older>>
vars == <<volatile, files, history>>

Nums == 0 .. MaxSteps            \* numbers of output files
Snaps == 0 .. NumSnapshots - 1

\* What a field file and a snapshot hold when they have been written to their end.
Output == [step : Nat, acc : Nat]
Snapshot == [step : Nat, evolved : Nat, fldNum : Nat, current : Nat]
ASSUME ContentAssumption == /\ None \notin Output \cup Snapshot \cup Nat \cup Seq(Nat)
                            /\ Partial \notin Output \cup Snapshot

\* A process starts: env.init() sets the step and all data to their initial values.
\* It reads the command line, and with --restart the snapshot is loaded later.
StartFrom(src) ==
  /\ phase' = "systems" /\ step' = 0 /\ restart' = src
  /\ evolved' = 0 /\ acc' = 0
  /\ fldNum' = 0 /\ spNum' = 0 /\ current' = 0
  /\ xmfOpen' = "closed" /\ xmfBuf' = <<>>

Init ==
  /\ phase = "systems" /\ step = 0 /\ restart = None
  /\ evolved = 0 /\ acc = 0
  /\ fldNum = 0 /\ spNum = 0 /\ current = 0
  /\ xmfOpen = "closed" /\ xmfBuf = <<>>
  /\ fld = [k \in Nums |-> None] /\ sp = [k \in Nums |-> None]
  /\ xmf = None
  /\ snap = [k \in Snaps |-> None] /\ snapXmf = [k \in Snaps |-> None]
  /\ crashes = 0 /\ older = FALSE

--------------------------------------------------------------------------------
\* sim_environment::update: the systems before the exporter update the data.  They
\* do so even in the first step of a restart, before the snapshot is loaded.
Systems ==
  /\ phase = "systems" /\ step <= MaxSteps
  /\ evolved' = evolved + 1 /\ acc' = acc + 1
  /\ phase' = IF restart = None THEN "fields" ELSE "load"
  /\ UNCHANGED <<step, restart, fldNum, spNum, current, xmfOpen, xmfBuf>>
  /\ UNCHANGED files

\* Mutants of NextSnapshot: the number grows without end; there is no rotation.
NextSnapshotUnbounded(k) == k + 1
NextSnapshotSame(k) == k
\* Snapshot files are used in rotation.
NextSnapshot(k) == (k + 1) % NumSnapshots

\* Mutant of Restored: it goes on with the step after the snapshot's, although the
\* step is counted when the update ends.
RestoredNextStep(s) ==
  /\ step' = s.step + 1 /\ evolved' = s.evolved
  /\ fldNum' = s.fldNum
  /\ current' = NextSnapshot(s.current)
  /\ restart' = None
\* What load_snapshot restores; finish_restart() ends the restart.
Restored(s) ==
  /\ step' = s.step /\ evolved' = s.evolved
  /\ fldNum' = s.fldNum
  /\ current' = NextSnapshot(s.current)
  /\ restart' = None

\* Mutant of LoadFails: an empty list of outputs is no list.
LoadFailsOnEmpty(k) == snapXmf[k] = None \/ snapXmf[k] = <<>>
\* load_snapshot throws when snapshotN.xmf is not there to be copied.
LoadFails(k) == snapXmf[k] = None

\* data_exporter::update on a restart.  A failure ends the process.
Load ==
  /\ phase = "load"
  /\ IF LoadFails(restart)
     THEN /\ phase' = "dead"
          /\ UNCHANGED <<step, restart, evolved, acc, fldNum, spNum, current,
                         xmfOpen, xmfBuf, files>>
     ELSE /\ Restored(snap[restart])
          /\ xmf' = snapXmf[restart]
          /\ phase' = "endStep"
          /\ UNCHANGED <<acc, spNum, xmfOpen, xmfBuf, fld, sp, snap, snapXmf>>

\* Field output.  The file is created, written and closed; data with
\* reset_after_output starts from zero again.  The stream to data.xmf is opened for
\* the first output of the process, which empties that file.
FieldsDue == step % FldInterval = 0
CreateFields ==
  /\ phase = "fields" /\ FieldsDue
  /\ fld' = [fld EXCEPT ![fldNum] = Partial]
  /\ IF xmfOpen = "closed" THEN xmfOpen' = "good" /\ xmf' = <<>>
                           ELSE UNCHANGED <<xmfOpen, xmf>>
  /\ phase' = "closeFields"
  /\ UNCHANGED <<step, restart, evolved, acc, fldNum, spNum, current, xmfBuf,
                 sp, snap, snapXmf>>
SkipFields ==
  /\ phase = "fields" /\ ~FieldsDue
  /\ phase' = "special"
  /\ UNCHANGED <<step, restart, evolved, acc, fldNum, spNum, current, xmfOpen, xmfBuf>>
  /\ UNCHANGED files

\* Mutant of AfterOutput: the data are not reset.
AfterOutputKept == acc
AfterOutput == 0
\* The entry for data.xmf.  All outputs but that of step 0 first seek 26 characters
\* back from the end, past the closing tags.  That writes the stream's buffer to the
\* file, and it fails for good when the file is empty.
CloseFields ==
  /\ phase = "closeFields"
  /\ fld' = [fld EXCEPT ![fldNum] = [step |-> step, acc |-> acc]]
  /\ acc' = AfterOutput
  /\ fldNum' = fldNum + 1
  /\ \/ /\ xmfOpen = "good" /\ step = 0
        /\ xmfBuf' = Append(xmfBuf, step) /\ UNCHANGED <<xmf, xmfOpen>>
     \/ /\ xmfOpen = "good" /\ step > 0 /\ xmf \o xmfBuf # <<>>
        /\ xmf' = xmf \o xmfBuf /\ xmfBuf' = <<step>> /\ UNCHANGED xmfOpen
     \/ /\ xmfOpen = "good" /\ step > 0 /\ xmf \o xmfBuf = <<>>
        /\ xmfOpen' = "failed" /\ UNCHANGED <<xmf, xmfBuf>>
     \/ /\ xmfOpen = "failed"
        /\ UNCHANGED <<xmf, xmfBuf, xmfOpen>>
  /\ phase' = "special"
  /\ UNCHANGED <<step, restart, evolved, spNum, current, sp, snap, snapXmf>>

\* Output of a data component with an interval of its own.
\* Mutant of NextSpecial: files are numbered by the step.
NextSpecialByStep == step + 1
NextSpecial == spNum + 1
SpecialOutput ==
  /\ phase = "special"
  /\ IF step % SpInterval = 0
     THEN sp' = [sp EXCEPT ![spNum] = step] /\ spNum' = NextSpecial
     ELSE UNCHANGED <<sp, spNum>>
  /\ phase' = "snapshot"
  /\ UNCHANGED <<step, restart, evolved, acc, fldNum, current, xmfOpen, xmfBuf,
                 fld, xmf, snap, snapXmf>>

--------------------------------------------------------------------------------
\* write_snapshot overwrites the file that is next in the rotation ...
SnapshotDue == step % SnapInterval = 0 /\ step > 0
CreateSnapshot ==
  /\ phase = "snapshot" /\ SnapshotDue
  /\ snap' = [snap EXCEPT ![current] = Partial]
  /\ phase' = "closeSnapshot"
  /\ UNCHANGED <<step, restart, evolved, acc, fldNum, spNum, current, xmfOpen, xmfBuf,
                 fld, sp, xmf, snapXmf>>
SkipSnapshot ==
  /\ phase = "snapshot" /\ ~SnapshotDue
  /\ phase' = "endStep"
  /\ UNCHANGED <<step, restart, evolved, acc, fldNum, spNum, current, xmfOpen, xmfBuf>>
  /\ UNCHANGED files

\* Mutant of SnapshotContent: the number of the last output, not of the next one.
SnapshotOfLastOutput ==
  [step |-> step, evolved |-> evolved, fldNum |-> fldNum - 1, current |-> current]
\* ... closes it ...
SnapshotContent ==
  [step |-> step, evolved |-> evolved, fldNum |-> fldNum, current |-> current]
CloseSnapshot ==
  /\ phase = "closeSnapshot"
  /\ snap' = [snap EXCEPT ![current] = SnapshotContent]
  /\ phase' = "copyXmf"
  /\ UNCHANGED <<step, restart, evolved, acc, fldNum, spNum, current, xmfOpen, xmfBuf,
                 fld, sp, xmf, snapXmf>>

\* ... and copies data.xmf as it is on disk.
CopyXmf ==
  /\ phase = "copyXmf"
  /\ snapXmf' = [snapXmf EXCEPT ![current] = xmf]
  /\ current' = NextSnapshot(current)
  /\ phase' = "endStep"
  /\ UNCHANGED <<step, restart, evolved, acc, fldNum, spNum, xmfOpen, xmfBuf,
                 fld, sp, xmf, snap>>

EndStep ==
  /\ phase = "endStep"
  /\ step' = step + 1
  /\ phase' = IF step + 1 <= MaxSteps THEN "systems" ELSE "finished"
  /\ UNCHANGED <<restart, evolved, acc, fldNum, spNum, current, xmfOpen, xmfBuf>>
  /\ UNCHANGED files

--------------------------------------------------------------------------------
Running == phase \notin {"dead", "finished"}

\* The stream's buffer is written to the file when it is full.
FlushXmf ==
  /\ Running /\ xmfOpen = "good" /\ xmfBuf # <<>>
  /\ xmf' = xmf \o xmfBuf /\ xmfBuf' = <<>>
  /\ UNCHANGED <<phase, step, restart, evolved, acc, fldNum, spNum, current, xmfOpen,
                 fld, sp, snap, snapXmf>>

\* The process dies: what is in memory is gone, files stay as they are.
Crash ==
  /\ Running /\ crashes < MaxCrashes
  /\ crashes' = crashes + 1
  /\ phase' = "dead"
  /\ UNCHANGED <<step, restart, evolved, acc, fldNum, spNum, current, xmfOpen, xmfBuf>>
  /\ UNCHANGED <<files, older>>

\* A snapshot one can restart from: written to its end, and its list of outputs too.
Complete(k) == snap[k] \notin {None, Partial}
Usable(k) == Complete(k) /\ snapXmf[k] # None
UsableSnaps == {k \in Snaps : Usable(k)}
Newest(k) == \A l \in UsableSnaps : snap[l].step <= snap[k].step

\* The user starts the program again, from a snapshot that can be loaded, or from the
\* beginning when there is none; or tries one that turns out not to load.
RecoverUsable ==
  /\ phase = "dead"
  /\ \/ UsableSnaps = {} /\ StartFrom(None) /\ UNCHANGED older
     \/ \E k \in UsableSnaps : StartFrom(k) /\ older' = (older \/ ~Newest(k))
  /\ UNCHANGED <<files, crashes>>
RecoverInVain ==
  /\ phase = "dead"
  /\ \E k \in Snaps : Complete(k) /\ ~Usable(k) /\ StartFrom(k)
  /\ UNCHANGED <<files, history>>

Work == Systems \/ Load \/ CreateFields \/ SkipFields \/ CloseFields \/ SpecialOutput
        \/ CreateSnapshot \/ SkipSnapshot \/ CloseSnapshot \/ CopyXmf \/ EndStep
Next == \/ Work /\ UNCHANGED history
        \/ FlushXmf /\ UNCHANGED history
        \/ Crash
        \/ RecoverUsable
        \/ RecoverInVain
Spec == Init /\ [][Next]_vars

\* A running process goes on, and a user does not for ever try what does not load.
FairSpec == Spec /\ WF_vars(Work /\ UNCHANGED history) /\ SF_vars(RecoverUsable)

--------------------------------------------------------------------------------
TypeOK ==
  /\ phase \in {"systems", "load", "fields", "closeFields", "special", "snapshot",
                "closeSnapshot", "copyXmf", "endStep", "dead", "finished"}
  /\ step \in 0 .. MaxSteps + 1
  /\ restart \in Snaps \cup {None}
  /\ evolved \in 0 .. MaxSteps + 1 /\ acc \in 0 .. MaxSteps + 1
  /\ fldNum \in 0 .. MaxSteps + 1 /\ spNum \in 0 .. MaxSteps + 1
  /\ current \in Snaps
  /\ xmfOpen \in {"closed", "good", "failed"}
  /\ crashes \in 0 .. MaxCrashes /\ older \in BOOLEAN

\* The process has its state, from the start or from the snapshot.
Loaded == Running /\ restart = None

\* The data in snapshots have had one update for every step, no matter how often the
\* run was interrupted: no step is skipped and none is done twice.
EvolvedMatchesStep == Loaded /\ phase = "systems" => evolved = step

\* A crash costs at most SnapInterval steps: as soon as there has been time for one,
\* there is a usable snapshot that recent, even while another is being overwritten,
\* and whichever snapshot the run was restarted from.
BoundedLoss == Loaded /\ step > SnapInterval =>
                 \E k \in UsableSnaps : snap[k].step >= step - SnapInterval

\* The numbered field files are the outputs of the run in order, without a gap and
\* without one that a crash left behind half written, as long as all restarts were
\* from the newest snapshot.
FieldSeries == Loaded /\ ~older => \A k \in Nums :
                 k < fldNum => /\ fld[k] \notin {None, Partial}
                               /\ fld[k].step = k * FldInterval

\* The run gets to its last step however it is interrupted.
Finishes == <>(phase = "finished")

\* Data that accumulate from output to output are not in the snapshot.  A restart
\* spoils no more than one output of them, the first one after it; all the others
\* have every step since the last output, each once.
Exact(k) == fld[k].acc = IF k = 0 THEN 1 ELSE FldInterval
FewSpoiled ==
  Cardinality({k \in Nums : fld[k] \notin {None, Partial} /\ ~Exact(k)}) <= crashes

\* The number of the next special output is not in the snapshot either, and a process
\* begins at 0 again; but the files that one process has written, from a snapshot or
\* from the start, are a series without a gap.
SpecialSeries ==
  Loaded => \A k \in Nums : k + 1 < spNum =>
    /\ sp[k] # None /\ sp[k + 1] # None
    /\ sp[k + 1] = sp[k] + SpInterval

\* "XMF Reconstruction: Automatic restoration of visualization timeline"
\* (docs/docsrc/3.4-data-output.rst): data.xmf, with what is still buffered, lists all
\* the field files of the run.
XmfTimeline == phase = "finished" =>
                 Len(xmf \o xmfBuf) = fldNum
================================================================================
