SPECIFICATION BatchSpec
CONSTANTS
  m1 = m1
  m11 = m11
  Rows <- MCRows
  Baseline = m11
  MaxServers = 4
  MaxHalts = 2
INVARIANTS
  CompleteHasResults
  OneServerAtATime
  PhasesAreConfigured
PROPERTIES
  SettledStays
  BatchSettles
CHECK_DEADLOCK FALSE
