SPECIFICATION Spec
CONSTANTS
  Cpus <- MCCpus
  ErrorNumbers = {7, 12}
  MaxChanges = 2
INVARIANTS
  MsrsExist
  ControlsLegal
  LaunchFullyWritten
  LaunchDescribesActivatedTables
  ErrorNumberOwn
CHECK_DEADLOCK FALSE
