CONSTANTS
  Proc = {p, q}
  Name = {"a", "b"}
  NInodes = 3
  NINODE = 3
  Call <- MCCall
  MaxLink = 2
  BSIZE = 2
  NDIRECT = 3
  NBlocks = 18
  BPB = 1
  MAXOPBLOCKS = 10
  WORD = 32
  None = None
SYMMETRY Symmetry
CHECK_DEADLOCK FALSE
SPECIFICATION MCSpec
INVARIANTS RefsCounted LinksCounted Tree LocksOrdered FileBytes MkfsMounts
