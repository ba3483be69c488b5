CONSTANTS
  Proc = {init, p}
  First = init
  NFILE = 3
  NOFILE = 2
  Page = {g}
  x = x
  y = y
  Junk = Junk
  Byte = {x, y}
  Strings <- MCStrings
  MaxRead = 2
  PIPESIZE = 2
  WORD = 4
  None = None
CHECK_DEADLOCK FALSE
SPECIFICATION Spec
INVARIANT EndsMatch
PROPERTIES NoLostWakeup StreamSpec
