CONSTANTS
  w1 = w1  w2 = w2  i1 = i1  i2 = i2
  Workers = {w1, w2}
  Intents = {i1, i2}
  HasFallback = {i1}
  MaxAttempts = 2
  MaxRetries = 1
  MaxCrashes = 1
SPECIFICATION FairSpec
INVARIANTS SummaryMatchesLog DeliveredWasTaken AttemptsBounded
PROPERTIES DeliveredIsFinal EveryIntentSettles
CHECK_DEADLOCK FALSE
