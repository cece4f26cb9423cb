SPECIFICATION Spec
CONSTANTS
  Producers = {p1}
  Consumers <- MCConsumers
  Groups = {g1, g2}
  FifoGroups = {g1}
  MaxInstances = 1
  InitialSize = 1
  Hashes = {0}
  IntWidth = 4
  MaxTx = 1
  MaxEnqueue = 2
  MaxBatch = 2
  MaxRetries = 1
  MaxFaults = 1
  TimeoutProcs <- MCConsumers
INVARIANTS NoDirtyRead RemovedOnlyWhenConsumed
PROPERTIES ImplementsExactlyOnceQueue
