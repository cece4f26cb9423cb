SPECIFICATION ElasticSpec
CONSTANTS
  Producers = {p1}
  Consumers <- MCConsumers
  Groups = {g1}
  FifoGroups = {g1}
  MaxInstances = 2
  InitialSize = 1
  Hashes = {0}
  IntWidth = 4
  MaxTx = 1
  MaxEnqueue = 1
  MaxBatch = 1
  MaxRetries = 1
  MaxFaults = 0
  TimeoutProcs = {}
INVARIANTS AtMostOnce
