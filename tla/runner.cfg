SPECIFICATION FairRunSpec
CONSTANTS
  k1 = k1
  k2 = k2
  success = success
  timeout = timeout
  NoManifest = NoManifest
  NoEvent = NoEvent
  NoSummary = NoSummary
  Success = success
  Keys <- MCKeys
  ForeignKeys = {}
  Results <- MCResults
  Manifests <- OneManifest
  Plans <- OnePlan
  MaxIndex = 0
  MaxFaults = 3
  MaxLosses = 0
  MaxForeign = 0
  MaxCancels = 1
INVARIANTS
  EvidenceInPlanOrder
PROPERTIES
  RunSettles
