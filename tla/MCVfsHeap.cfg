SPECIFICATION Spec
CONSTANTS
  FileNodes = {root, n1, n2, n3}
  root = root
  FreeBlocks = {f1, f2, f3}
  NULL = NULL
  SLASH = "/"
  DOTS = ".."
  long1 = "long1"
  long2 = "long2"
  Names = {"..", "long1", "long2"}
  Cut <- Common
  TOTAL_BLOCKS = 3
  Texts = {"x"}
  MaxBlocks = 2
  NoMemory = {"block"}
SYMMETRY Symmetric
INVARIANTS WellLinked FreesAll
PROPERTY ImplementsVfs
CHECK_DEADLOCK FALSE
