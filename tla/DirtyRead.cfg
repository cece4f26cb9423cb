SPECIFICATION Spec
CONSTANTS
  Producers = {p1, p2}
  Consumers <- MCConsumers
  Groups = {g1}
  FifoGroups = {g1}
  MaxInstances = 1
  InitialSize = 1
  Hashes = {0}
  IntWidth = 4
  MaxTx = 2
  MaxEnqueue = 1
  MaxBatch = 1
  MaxRetries = 0
  MaxFaults = 1
  TimeoutProcs = {p1}
INVARIANTS NoDirtyRead
