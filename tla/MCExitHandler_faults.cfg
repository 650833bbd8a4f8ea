\* Every kind of exit, with any one VMREAD, VMWRITE or INVEPT failing.
SPECIFICATION Spec
CONSTANTS
  Exits <- AnyExits
  MaxExits = 5
  VmreadFaults <- OneVmreadFault
  WriteFaults <- AnyWriteFault
INVARIANTS
  WindowTracksPending
  GrantMatchesEntry
  StopTellsPhase
PROPERTIES
  GrantOnlyBeforeVmcall
