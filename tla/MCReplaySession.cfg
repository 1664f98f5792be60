CONSTANTS
  Sources = {tc, gwc}
  Kinds <- GateVerdicts
  MaxOrd = 3
  MaxSeq = 2
  MaxFed = 3
  MaxTime = 2
SPECIFICATION Spec
SYMMETRY Symmetry
INVARIANTS TypeOK ResumeUncorrupted AnomaliesExact GateFollowsLedger ReviewAgreesWithReplay
CHECK_DEADLOCK FALSE
