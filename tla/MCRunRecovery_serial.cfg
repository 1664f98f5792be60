CONSTANTS
  c1 = c1  n1 = n1  a1 = a1  l1 = l1  l2 = l2  t1 = t1  t2 = t2
  Callers = {c1}
  Nodes = {n1}
  Attempts = {a1}
  NodeOf <- SameNode
  LeaseIds = {l1, l2}
  Tokens = {t1, t2}
  MaxTime = 1
  MaxGeneration = 2
  MaxVersion = 5
  Events <- ProducerEvents
  NoLease = NoLease
  NoEvent = NoEvent
  NoIdem = NoIdem
  NoRun = NoRun
  InitNode <- Claimed
  InitStatuses = {"RUNNING"}
SPECIFICATION RecSpec
SYMMETRY Symmetry
INVARIANTS ReplayFaithful ReplayNeverAhead AcceptedOnce
