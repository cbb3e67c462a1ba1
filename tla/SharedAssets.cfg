SPECIFICATION Spec
CONSTANTS
  MaxAttempts = 2
  NumScans = 1
  MaxFaults = 1
INVARIANTS
  RunsOnItsAssets
  FinallySparesSuccessor
PROPERTIES
  PreparationUndisturbed
CHECK_DEADLOCK FALSE
