SPECIFICATION Spec
CONSTANTS
  Devices = {d1, d2}
  Requests = {q1, q2}
  Ceiling = {d1}
  MaxClock = 2
SYMMETRY RequestSymmetry
INVARIANTS
  TypeOK
  TableAgreesWithLeases
  QuietPushIsInForce
CHECK_DEADLOCK FALSE
