SPECIFICATION Spec
CONSTANTS
  i1 = i1
  i2 = i2
  e1 = e1
  e2 = e2
  Items = {i1}
  Engines = {e1, e2}
  MaxAttempts = 1
  AllowActive = TRUE
  RunChecks = TRUE
  FailingWork <- NoneFails
  ByHand = TRUE
  Endings <- MixedEndings
  Forgetful = TRUE
SYMMETRY Processes
INVARIANT TypeOK
INVARIANT ItemsValid
INVARIANT DoneOnWork
INVARIANT VerifiedHaveText
PROPERTY FinishedItemStays
PROPERTY RecordsKept
