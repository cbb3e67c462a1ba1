SPECIFICATION FairSpec
CONSTANTS
  NumJobs = 4
  Replicas = {r1}
  KindOf <- LiveKindOf
  CanvasOf <- LiveCanvasOf
  ProjectOf <- LiveProjectOf
  CreatedAt <- LiveCreatedAt
  RecoveryTarget <- LiveRecoveryTarget
  MaxGlobalJobs = 2
  MaxConcurrentProvisioning = 1
  ProjectLimit <- LiveProjectLimit
  PageSize = 2
  Faults = {"disk"}
  MaxEvents = 1
PROPERTIES
  NoneForgotten
CHECK_DEADLOCK FALSE
