CONSTANTS
  CPU = {c1, c2}
  NoCPU = NoCPU
  NPROC = 3
  Chan = {ch}
  MaxPid = 4
SYMMETRY CPUSymmetry
SPECIFICATION Spec
INVARIANTS
  StackSafe
  HandOver
  TableMatchesCPUs
  MemoryOwned
  ParentAlive
  NothingMissed
PROPERTY SleepWakeupSpec
