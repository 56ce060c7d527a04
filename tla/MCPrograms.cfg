SPECIFICATION AllSpec
CONSTANTS
  Programs = {"icc", "inventory", "calculator", "sonar", "spiral"}
  INITIAL_PRODUCTS = 2
  IDs = {1, 2, 3, 4}
  Labels = {"a"}
  Quantities = {0, 1}
  MaxCapacity = 4
  teamCount = 4
  PlayerIDs = {p1, p2, p3, p4}
  Careers <- SomeCareers
  MaxLoads = 2
  MAX_PLAYERS_PER_TEAM = 2
  Digits = {"0", "3"}
  Others = {"x"}
  STACK_CAPACITY = 6
  ImageSizes = {1, 2, 3}
  Bytes = {3, 255}
  SpiralSizes = {1, 2, 3, 4, 5, 6}
  Unset = Unset
  Junk = Junk
SYMMETRY Symmetric
INVARIANTS StockTypeOK MergedInOrder Evaluates Smooths Spirals
PROPERTY ImplementsCatalogue
CHECK_DEADLOCK FALSE
