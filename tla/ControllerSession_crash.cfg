CONSTANTS
  MaxSeq = 2
  MaxTime = 6
  MaxEvents = 2
  MaxCrashes = 1
  Ttl = 3
  Modes = {"POLL", "EVENT"}
  Kinds = {"RESULT_A", "RESULT_B", "RUNNING", "MALFORMED", "OTHER"}
  StrictClock = FALSE
SPECIFICATION Spec
INVARIANT PersistedFirst
INVARIANT CommittedInMailbox
INVARIANT CrashIsRetryable
PROPERTY ContinuationForward
PROPERTY OnlyCurrentAttempt
CHECK_DEADLOCK FALSE
