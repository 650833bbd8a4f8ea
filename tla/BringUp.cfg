SPECIFICATION Spec
INVARIANT FirmwareStateRestored
INVARIANT InterruptsOffInExitPhase
INVARIANT VmxeTracksVmx
INVARIANT VmxInstructionsLegal
INVARIANT FirstErrorReturned
PROPERTY ReturnsToFirmware
