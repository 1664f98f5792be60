CONSTANTS
  None = None
  Children <- ThreeChildren
  Stages <- TwoWaves
  Attempts <- ThreeAttempts
  Generations = {"g1", "g2"}
  GenOf <- MintedIn
  Results = {"r"}
  Statuses = {"SUCCEEDED", "STALE"}
  MaxEvidence = 1
  MaxRetired = 1
SPECIFICATION Spec
INVARIANTS SupersededStaysOut OneGenerationJoins NoStuckWave
PROPERTY EvidenceKept
CHECK_DEADLOCK FALSE
