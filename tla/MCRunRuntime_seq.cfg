CONSTANTS
  c1 = c1  c2 = c2  n1 = n1  a1 = a1  a2 = a2  l1 = l1  l2 = l2  t1 = t1  t2 = t2
  Callers <- OneCaller
  Nodes = {n1}
  Attempts <- TwoAttempts
  NodeOf <- SameNode
  LeaseIds = {l1, l2}
  Tokens = {t1, t2}
  MaxTime = 1
  MaxGeneration = 2
  MaxVersion = 4
  Events <- SeqEvents
  NoLease = NoLease
  NoEvent = NoEvent
  NoIdem = NoIdem
  InitNode <- Claimed
  InitStatuses = {"RUNNING", "CANCELLED"}
SPECIFICATION Spec
SYMMETRY Symmetry
INVARIANTS ActiveIsBound EventOnce JournalComplete
PROPERTIES IsLeaseAuthority ExpiryFence
