CONSTANTS
  CPU = {c1}
  NoCPU = NoCPU
  NPROC = 3
  Chan = {}
  MaxPid = 3
SPECIFICATION FairSpec
PROPERTY OrphansReaped
