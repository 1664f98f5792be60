CONSTANTS
  MaxSeq = 1
  MaxTime = 3
  MaxEvents = 2
  MaxCrashes = 0
  Ttl = 2
  Modes = {"EVENT"}
  Kinds = {"RESULT_A", "RUNNING"}
  StrictClock = TRUE
SPECIFICATION Spec
INVARIANT SelectedIsConsumed
CHECK_DEADLOCK FALSE
