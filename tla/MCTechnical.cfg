SPECIFICATION Spec
CONSTANTS
  Sites <- MCSites
  Edits <- MCEdits
  Groups <- MCGroups
  MaxChanges = 2
  EditChanges = 1
  GateChanges = 0
  CliOptions <- MCCliOptions
  Diagnostics <- MCDiagnostics
  JobContexts <- MCJobContexts
INVARIANTS
  GapsAccounted
  GatesAgree
  NeverGreenWithoutEvidence
  ContributedScansAreComparable
PROPERTIES
  RepairNeverLowers
  LossIsNeverAVerdict
  LossNeverRaisesCoverage
  LossIsNamed
CHECK_DEADLOCK FALSE
