SPECIFICATION Spec
CONSTANTS
  FileNodes = {root, n1, n2, n3}
  root = root
  NULL = NULL
  SLASH = "/"
  DOTS = ".."
  Names = {"/", "..", "a"}
  Cut <- Whole
  TOTAL_BLOCKS = 3
  Texts = {"x", "y"}
  MaxBlocks = 2
  NoMemory = {}
  CdReturns = FALSE
SYMMETRY Symmetric
INVARIANTS TypeOK TreeShaped NoSharing NoLeak
PROPERTY KeepsContents
CHECK_DEADLOCK FALSE
