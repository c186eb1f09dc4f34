SPECIFICATION Spec
CONSTANTS
  Events <- FirstKeys
  LaterEvents <- LaterKeys
  checkpoint_keep = 2
  KEY_GAP = 1
  ControlSaves = FALSE
  MAX_CYCLES = 4
  MAX_RUNS = 2
  Nothing = Nothing
INVARIANTS ReplaysExactly
PROPERTIES NamedWhenWhole LatestIsKept
CHECK_DEADLOCK FALSE
