CONSTANTS
  DeletionTimeout <- MCDeletionTimeout
  MaxTime <- MCMaxTime
  MaxFaults <- MCMaxFaults
  MaxEvents <- MCMaxEvents
SPECIFICATION Spec
INVARIANTS StuckIsDiagnosed
CHECK_DEADLOCK FALSE
