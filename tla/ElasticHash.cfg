SPECIFICATION ElasticSpec
CONSTANTS
  Producers = {p1}
  Consumers <- MCConsumers
  Groups = {g1}
  FifoGroups = {}
  MaxInstances = 2
  InitialSize = 2
  Hashes <- MCHashes
  IntWidth = 4
  MaxTx = 2
  MaxEnqueue = 1
  MaxBatch = 2
  MaxRetries = 0
  MaxFaults = 0
  TimeoutProcs = {}
INVARIANTS AtMostOnce RemovedOnlyWhenConsumed HashHasOwner NothingSkipped
