SPECIFICATION Spec
CONSTANTS
  k1 = k1
  k2 = k2
  foreign = foreign
  ok = ok
  m1 = m1
  m2 = m2
  NoManifest = NoManifest
  NoEvent = NoEvent
  Keys <- MCKeys
  ForeignKeys <- MCForeign
  Results <- MCResults
  Manifests <- MCManifests
  MaxIndex = 1
  MaxFaults = 3
  MaxLosses = 1
SYMMETRY Symmetry
INVARIANTS
  TypeOK
  JournalIsLegal
  MemoryIsEvidence
  OneManifestPerJournal
  ManifestIsWhole
  AckedIsDurableUnlessInterrupted
PROPERTIES
  ImplementsLedger
