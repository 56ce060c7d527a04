SPECIFICATION Spec
CONSTANTS
  Keys <- SmallKeys
  Values = {v1, v2}
  Capacities <- AnyCapacities
  CACHE_CAPACITY = 4
  Addresses = {a1, a2, a3}
  NULL = NULL
  NoMemory = {"cache", "node"}
SYMMETRY Symmetric
INVARIANTS TypeOK WellLinked Indexed
PROPERTY KeepsPromise
CHECK_DEADLOCK FALSE
