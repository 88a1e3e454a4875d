SPECIFICATION FairPubSpec
CONSTANTS
  e1 = e1
  e2 = e2
  r1 = r1
  r2 = r2
  NoReview = NoReview
  Absent = Absent
  Editions <- TwoEditions
  Reviews <- MCReviews
  MaxFaults = 2
  MaxLosses = 1
INVARIANTS
  ArtifactsAreWhole
  ReturnedSurvives
  SummaryHasRecords
PROPERTIES
  NeverReplaced
  RevisionsGetPublished
