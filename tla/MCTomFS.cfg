SPECIFICATION Spec
CONSTANTS
  total_blocks = 8
  BlockCells = 3
  MAX_FILE_HANDLES = 3
  FileNames = {f, g}
  DirNames = {d}
  DataCells = {x, y}
  Lengths = {1, 4}
  MaxWrites = 21
  Failures <- MCFailures
  MaxFileCells = 5
  MaxCalls = 4
  MaxOpen = 2
SYMMETRY Alike
INVARIANTS
  ChainsApart
  SizesCovered
  PromisesKept
  HandlesAgree
  HeldHandlesStayOpen
CHECK_DEADLOCK FALSE
