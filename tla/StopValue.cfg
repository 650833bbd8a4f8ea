SPECIFICATION StopSpec
CONSTANTS
  BASICS = 8
  RAWS = 32
  NUMBERS = 4
  Rflags = {2, 3, 66, 67, 70}
  MaxExits = 9
INVARIANTS
  StopTellsCause
CHECK_DEADLOCK FALSE
