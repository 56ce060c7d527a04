SPECIFICATION Spec
CONSTANTS
  Pids = {p1, p2}
  Bursts = {1, 3}
  IoStarts = {0, 1}
  IoDurations = {0, 2}
  KillTimes = {0, 2, 3}
  MaxEntries = 2
  MaxKills = 2
INVARIANT KilledIsReported
CHECK_DEADLOCK FALSE
