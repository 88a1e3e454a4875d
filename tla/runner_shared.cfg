SPECIFICATION RunSpec
CONSTANTS
  k1 = k1
  k2 = k2
  success = success
  timeout = timeout
  NoManifest = NoManifest
  NoEvent = NoEvent
  NoSummary = NoSummary
  Success = success
  Keys <- MCKeys
  ForeignKeys = {}
  Results <- MCResults
  Manifests <- AllManifests
  Plans <- AllPlans
  MaxIndex = 1
  MaxFaults = 1
  MaxLosses = 1
  MaxForeign = 3
  MaxCancels = 1
INVARIANTS
  SummaryIsEvidence
  OneSendPerLostResult
PROPERTIES
  NoResendOfRecorded
