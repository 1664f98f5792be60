CONSTANTS
  c1 = c1  c2 = c2
  Controllers = {c1, c2}
  Signals <- RaceSignals
  Node = "n1"
  Attempt = "a1"
  MaxArrivals = 2
  MaxGeneration = 2
  MaxSeq = 3
SPECIFICATION Spec
SYMMETRY Symmetry
INVARIANTS OneTerminalWrite WinnerIsCurrent AgreeOnWinner
PROPERTY NoBetterSeen
CHECK_DEADLOCK FALSE
