CONSTANTS
  Proc = {p1, p2, p3}
  Block = {b1, b2, b3, b4}
  Value = {v1, v2}
  None = None
  LOGSIZE = 4
  MAXOPBLOCKS = 2
  SIZE = 5
  OpBlocks = 1
  MaxCrashes = 2
SYMMETRY Symmetry
SPECIFICATION Spec
INVARIANTS NoPanic WaiterHasWaker
PROPERTY CrashAtomic
