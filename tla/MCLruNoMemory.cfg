SPECIFICATION PutSpec
CONSTANTS
  Keys <- FewerKeys
  Values = {v1, v2}
  Capacities <- FewerCapacities
  CACHE_CAPACITY = 4
  Addresses = {a1, a2, a3}
  NULL = NULL
  NoMemory = {"cache", "node", "entry"}
SYMMETRY Symmetric
INVARIANTS NoDangling NeverStale
CHECK_DEADLOCK FALSE
