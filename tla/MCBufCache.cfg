CONSTANTS
  Proc = {p1, p2, p3}
  Block = {k1, k2, k3}
  Value = {v0, v1}
  Zero = v0
  NBUF = 2
  LOGSIZE = 1
  DiskErrors = FALSE
  None = None
CHECK_DEADLOCK FALSE
SYMMETRY Symmetry
SPECIFICATION Spec
INVARIANTS RefcntCounts NoLostWakeup Synced
PROPERTY StoreSpec
