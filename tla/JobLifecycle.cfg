SPECIFICATION Spec
CONSTANTS
  MaxAttempts = 2
  MaxCrashes = 1
  ExecutionRetries = {"pi_stream_truncated"}
INVARIANTS
  TypeOK
  AttemptFollowsJob
  RunningSandboxIntact
  NeverStartedIsProof
  OneExecutionPerAttempt
  ClosedLedger
PROPERTIES
  HistoryIsFinal
  AutomaticRetryIsSafe
  ImplementsContract
CHECK_DEADLOCK FALSE
