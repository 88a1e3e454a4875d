SPECIFICATION FairCommandSpec
CONSTANTS
  c1 = c1
  c2 = c2
  Commands <- AllCommands
  Settings <- GoodSettings
  Counts <- MCCounts
  QAIds <- MCQAIds
  Inventory <- MCInventory
  FrozenCases <- MCFrozen
  SmokeIds <- MCSmokeIds
  Versions <- MCVersions
  Canonical <- MCCanonical
  Codes <- TwoCodes
  Replies <- TwoReplies
  MaxEdits = 2
  MaxKills = 2
INVARIANTS
  BaselineFromValidatedBytes
  ReportsAgree
PROPERTIES
  CommandSettles
