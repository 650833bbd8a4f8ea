\* The planned exits in any order and number, to the end of the plan.
SPECIFICATION Spec
CONSTANTS
  Exits <- PlannedExits
  MaxExits = 13
  VmreadFaults <- NoVmreadFaults
  WriteFaults <- NoWriteFaults
INVARIANTS
  FinishedIffPlanDone
