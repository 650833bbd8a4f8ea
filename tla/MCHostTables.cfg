SPECIFICATION TablesSpec
CONSTANTS
  PAGE_SIZE = 64
  TSS_BASE <- MCTssBase
  Firmwares <- MCFirmwares
  MaxCalls = 2
INVARIANTS
  ActiveTablesServe
  GuestSegmentsEnterable
PROPERTIES
  RefusalTouchesNothing
CHECK_DEADLOCK FALSE
