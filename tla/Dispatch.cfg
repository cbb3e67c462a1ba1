SPECIFICATION Spec
CONSTANTS
  NumJobs = 3
  Replicas = {r1, r2}
  KindOf <- MCKindOf
  CanvasOf <- MCCanvasOf
  ProjectOf <- MCProjectOf
  CreatedAt <- MCCreatedAt
  RecoveryTarget <- MCRecoveryTarget
  MaxGlobalJobs = 2
  MaxConcurrentProvisioning = 2
  ProjectLimit <- MCProjectLimit
  PageSize = 2
  Faults = {"round_fails", "human", "busy_canvas"}
  MaxEvents = 1
INVARIANTS
  TypeOK
  WithinQuotas
  OneActiveHub
  ClaimedHasRunner
SYMMETRY ReplicaSymmetry
PROPERTIES
  PauseIsRespected
CHECK_DEADLOCK FALSE
