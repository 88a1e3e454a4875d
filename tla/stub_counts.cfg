SPECIFICATION StubSpec
CONSTANTS
  r1 = r1
  r2 = r2
  MaxConnections = 3
  Requests <- MCRequests
  Exchanges <- MCExchanges
INVARIANT CountedWhenAnswered
CHECK_DEADLOCK FALSE
