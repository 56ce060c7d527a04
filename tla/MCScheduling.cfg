SPECIFICATION SinceFairSpec
CONSTANTS
  Pids = {p1, p2, p3}
  Bursts = {1, 3}
  IoStarts = {0, 1}
  IoDurations = {0, 2}
  KillTimes = {1, 3}
  MaxEntries = 3
  MaxKills = 2
INVARIANTS TypeOK OnePlace StatusTells KillsAhead StatsSensible
PROPERTIES NonPreemptive IoExact Ends
CHECK_DEADLOCK FALSE
