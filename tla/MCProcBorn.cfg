CONSTANTS
  CPU = {c1}
  NoCPU = NoCPU
  NPROC = 3
  Chan = {ch}
  MaxPid = 3
SPECIFICATION Spec
PROPERTY BornAlive
