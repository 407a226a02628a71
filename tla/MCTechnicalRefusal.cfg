SPECIFICATION Spec
CONSTANTS
  Sites <- MCSites
  Edits <- MCEdits
  Groups <- MCGroups
  MaxChanges = 1
  EditChanges = 1
  GateChanges = 0
  CliOptions <- MCCliOptions
  Diagnostics <- MCDiagnostics
  JobContexts <- MCJobContexts
PROPERTY RefusalIsNeverAVerdict
CHECK_DEADLOCK FALSE
