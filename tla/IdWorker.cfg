SPECIFICATION Spec
CONSTANTS
  Nodes = {n1, n2}
  n1 = n1
  n2 = n2
  Goroutines = {g1, g2}
  g1 = g1
  g2 = g2
  Workers = 2
  Timestamps = 2
  Sequences = 2
  MaxClock = 2
  MaxIds = 2
INVARIANTS UniqueIds WorkerInId
CHECK_DEADLOCK FALSE
