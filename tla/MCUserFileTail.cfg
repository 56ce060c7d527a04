SPECIFICATION Spec
CONSTANTS
  Ids = {u1, u2, u3, u4}
  Data = {d1, d2}
  Mixed = Mixed
  SIZE_LIMIT = 3
  BLOCK = 1
  MaxRecords = 5
SYMMETRY Symmetric
PROPERTY RemainingKept
