SPECIFICATION ReviewSpec
CONSTANTS
  e1 = e1
  e2 = e2
  MaxText = 4
  Evaluators <- TwoEvaluators
  Inputs <- MCInputs
  Reviewed <- IsReviewed
  MaxDecisions = 2
SYMMETRY Symmetric
INVARIANTS
  StrictNeverReinterpreted
  FirstObjectRecovered
  SummaryCutIsSound
  PassIsEarned
  VerdictsAreAboutThis
  RevisionIsItsDecisions
  FailuresAreShown
CHECK_DEADLOCK FALSE
