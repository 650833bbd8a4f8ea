\* Up to three NMIs at any time; any VMREAD, VMWRITE, INVEPT or VM entry fails.
SPECIFICATION FairRunSpec
CONSTANTS
  Exits <- NoExits
  MaxExits = 0
  VmreadFaults <- OneVmreadFault
  WriteFaults <- AnyWriteFault
  WaitIterations = 2
  CpuidRaw <- McCpuid
  Msrs <- McMsrs
  Ports <- McPorts
  ProtectedPage = 7
  MaxNmis = 3
INVARIANTS
  RunTypeOK
  OnlyGuestEndsRun
  FinishedClean
  NmiHandlerAlone
  NmiAccounting
PROPERTIES
  RunsLikeBare
  RunEnds
