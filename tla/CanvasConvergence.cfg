SPECIFICATION Spec
CONSTANTS
  Findings = {f1}
  MaxRounds = 2
  MaxNoProgress = 2
  MaxAutoRetries = 1
  MaxHubRounds = 2
  MaxRoles = 1
  MaxFollow = 2
  MaxHubs = 1
  MaxDisturbances = 2
INVARIANTS
  TypeOK
  RoundMatchesStatus
  IdleIsExplained
  CompleteIsConverged
PROPERTIES
  VerdictStands
CHECK_DEADLOCK FALSE
