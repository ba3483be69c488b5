CONSTANTS
  CPU = {c0, c1}
  Proc = {p, q}
  Reader = {r}
  CPU0 = c0
  None = None
  INPUT_BUF = 3
  WORD = 6
  ROWS = 2
  COLS = 2
  uart = TRUE
  Counts = {1, 2}
  MaxWrites = 1
  Arguments <- Ints
  MaxDelay = 2
  MaxHeld = 3
SYMMETRY Symmetry
SPECIFICATION Spec
INVARIANTS InterruptsMatched  EchoShown ModifiersHeld
PROPERTY LineSpec
