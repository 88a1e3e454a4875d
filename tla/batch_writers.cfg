SPECIFICATION BatchSpec
CONSTANTS
  m1 = m1
  m11 = m11
  Rows <- MCRows
  Baseline = m11
  MaxServers = 4
  MaxHalts = 2
INVARIANT OneWriterPerRun
CHECK_DEADLOCK FALSE
