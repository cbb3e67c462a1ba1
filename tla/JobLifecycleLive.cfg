SPECIFICATION FairSpec
CONSTANTS
  MaxAttempts = 1
  MaxCrashes = 2
  ExecutionRetries = {}
PROPERTIES
  ExecutionEnds
  SandboxesReclaimed
  EffectsDecided
CHECK_DEADLOCK FALSE
