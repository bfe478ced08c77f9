CONSTANTS
  DeletionTimeout <- MCDeletionTimeout
  MaxTime <- MCMaxTime
  MaxFaults <- MCMaxFaults
  MaxEvents <- MCMaxEvents
SPECIFICATION Spec
INVARIANTS TypeOK CleanupComplete
PROPERTIES OrderedTeardown Quiescence ImplementsTeardown
CHECK_DEADLOCK FALSE
