CONSTANTS
  MaxSeq = 2
  MaxTime = 4
  MaxEvents = 1
  MaxCrashes = 1
  Ttl = 1
  Modes = {"POLL"}
  Kinds = {"RESULT_A", "RUNNING", "MALFORMED", "BLOCKED", "OTHER"}
  StrictClock = FALSE
SPECIFICATION FairSpec
PROPERTY PollingEnds
CHECK_DEADLOCK FALSE
