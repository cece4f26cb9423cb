SPECIFICATION Spec
CONSTANTS
  Producers = {p1}
  Consumers <- MCConsumers
  Groups = {g1}
  FifoGroups = {}
  MaxInstances = 3
  InitialSize = 3
  Hashes <- MCMinInt
  IntWidth = 4
  MaxTx = 1
  MaxEnqueue = 1
  MaxBatch = 1
  MaxRetries = 1
  MaxFaults = 0
  TimeoutProcs = {}
INVARIANTS HashHasOwner
