CONSTANTS
  c1 = c1  c2 = c2  n1 = n1  a1 = a1  a2 = a2  l1 = l1  l2 = l2  t1 = t1  t2 = t2
  Callers <- TwoCallers
  Nodes = {n1}
  Attempts <- OneAttempt
  NodeOf <- SameNode
  LeaseIds = {l1, l2}
  Tokens = {t1, t2}
  MaxTime = 0
  MaxGeneration = 3
  MaxVersion = 4
  Events <- RaceEvents
  NoLease = NoLease
  NoEvent = NoEvent
  NoIdem = NoIdem
  InitNode <- Claimed
  InitStatuses = {"RUNNING"}
SPECIFICATION Spec
SYMMETRY Symmetry
INVARIANT AtMostOneActive
