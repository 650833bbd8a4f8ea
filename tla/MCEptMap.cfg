SPECIFICATION Spec
CONSTANTS
  ENTRIES = 2
  PAGE_SIZE = 2
  U64 = 32
  MemoryMaps <- MCMaps
  Pages <- MCPages
  MaxBuilds = 2
  MaxCached = 2
INVARIANTS MapCoversMemory IdentityMap NoStaleTranslation
PROPERTIES OnlyGrantChanges
CHECK_DEADLOCK FALSE
