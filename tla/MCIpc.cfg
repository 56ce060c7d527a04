SPECIFICATION FairSpec
CONSTANTS
  MaxRuns = 2
  Media = {"file", "pipe", "queue", "memory"}
  Initial <- ThreeElements
  Absent = Absent
INVARIANT ShownSorted
PROPERTY ParentsEnd
CHECK_DEADLOCK FALSE
