SPECIFICATION AllSpec
CONSTANTS
  Programs = {"icc"}
  INITIAL_PRODUCTS = 2
  IDs = {1, 2, 3, 4}
  Labels = {"a"}
  Quantities = {0, 1}
  MaxCapacity = 4
  teamCount = 4
  PlayerIDs = {p1, p2, p3, p4}
  Careers <- SomeCareers
  MaxLoads = 2
  MAX_PLAYERS_PER_TEAM = 2
  Digits = {"0", "3"}
  Others = {"x"}
  STACK_CAPACITY = 6
  ImageSizes = {1}
  Bytes = {3}
  SpiralSizes = {1}
  Unset = Unset
  Junk = Junk
SYMMETRY Symmetric
INVARIANT TotalPlayers
CHECK_DEADLOCK FALSE
