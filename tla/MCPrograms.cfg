CONSTANTS
  NPROC = 2
  KernelEnd = 20
  EntryTop = 96
  PHYSTOP = 320
  DEVSPACE = 480
  PGSIZE = 16
  NPTENTRIES = 2
  KERNBASE = 96
  KernelTables = 1
  WORD = 512
  WordSize = 2
  MAXARG = 2
  Grow <- MCGrow
  Program <- Programs
  HEADER = 2
  MinCore = 4
  MaxHeap = 11
  Sizes = {1, 3, 7}
  MAXARGS = 3
  NOFILE = 5
  MaxProcs = 9
  Lines <- MCLines
  MaxLine = 5
  None = None
SPECIFICATION MCSpec
CHECK_DEADLOCK FALSE
INVARIANTS PagesAccounted ProcessMemory HeapSound ShellRuns
