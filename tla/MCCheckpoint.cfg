\* Nine steps, output every second and a snapshot every second, three snapshot files,
\* two crashes anywhere and restarts from any snapshot that can be loaded.
SPECIFICATION FairSpec
CONSTANTS
  MaxSteps = 9
  FldInterval = 2
  SpInterval = 3
  SnapInterval = 2
  NumSnapshots = 3
  MaxCrashes = 2
  None = None
  Partial = Partial
INVARIANTS TypeOK EvolvedMatchesStep BoundedLoss FieldSeries FewSpoiled SpecialSeries
PROPERTIES Finishes
CHECK_DEADLOCK FALSE
