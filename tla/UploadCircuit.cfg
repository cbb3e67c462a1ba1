SPECIFICATION FairSpec
CONSTANTS
  j1 = j1
  j2 = j2
  s1 = s1
  s2 = s2
  Jobs = {j1, j2}
  Workers = {j1}
  Scopes = {s1, s2}
  ScopeOf <- MCScopeOf
  WavesToTrip = 2
  JobsToTrip = 3
  ProbeAfter = 2
  MaxCount = 3
INVARIANTS
  TypeOK
  NoEvidenceWhileClosed
PROPERTIES
  OpenCircuitStartsNothing
  HalfOpenIsDecided
CHECK_DEADLOCK FALSE
