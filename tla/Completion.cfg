SPECIFICATION Spec
CONSTANTS
  Keys = {k1, k2}
  Calls = {c1, c2}
  None = None
  IsHub = TRUE
  RepairLimit = 2
  TerminalLimit = 1
  MaxAttempts = 2
  MaxFaults = 2
SYMMETRY Symmetry
INVARIANTS
  TypeOK
  AcceptedExcludesHuman
  AnswerIsStored
  SettledIsAccepted
PROPERTIES
  ChainChangesHandsByGeneration
  AcceptedRunSettles
  ImplementsContract
CHECK_DEADLOCK FALSE
