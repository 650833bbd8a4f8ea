SPECIFICATION GSpec
CONSTANTS
  ENTRIES = 2
  PAGE_SIZE = 2
  CR3 = 25
  Rows <- MCRows
  Addresses = {6, 8}
  Layouts <- MCLayouts
INVARIANTS WalkMatchesCpu AcceptedPagesUsable RefusedPageUnusable
CHECK_DEADLOCK FALSE
