CONSTANTS
  Sources = {tc}
  MaxRows = 3
  MaxLoads = 2
  MaxJoins = 2
  MaxFails = 1
  MaxBuffer = 1
  FixedStore = FALSE
  Lossy = TRUE
SPECIFICATION Spec
INVARIANTS ShownOnce HighWaterExact HolesAreFlagged
PROPERTIES ShowsDurableLog CatchUpEnds BufferDrains
CHECK_DEADLOCK FALSE
