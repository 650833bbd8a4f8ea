SPECIFICATION Spec
CONSTANTS
  SPIN_LIMIT = 2
  FIFO_SIZE = 2
  MaxLines = 2
INVARIANTS
  InitTellsUart
  WireInOrder
  PanicReportedOnce
PROPERTIES
  SerialNeverHangs
