SPECIFICATION StubSpec
CONSTANTS
  r1 = r1
  r2 = r2
  MaxConnections = 3
  Requests <- MCRequests
  Exchanges <- MCExchanges
INVARIANTS
  CompleteIsEvidence
  ExchangesInOrder
PROPERTIES
  BlockEnds
CHECK_DEADLOCK FALSE
