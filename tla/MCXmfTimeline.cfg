SPECIFICATION Spec
CONSTANTS
  MaxSteps = 7
  FldInterval = 2
  SpInterval = 3
  SnapInterval = 2
  NumSnapshots = 2
  MaxCrashes = 1
  None = None
  Partial = Partial
INVARIANTS XmfTimeline
CHECK_DEADLOCK FALSE
