SPECIFICATION Spec
CONSTANTS
  MaxAttempts = 2
  MaxCrashes = 0
  ExecutionRetries = {"pi_stream_truncated"}
PROPERTIES
  StaleRunClosesNothing
CHECK_DEADLOCK FALSE
