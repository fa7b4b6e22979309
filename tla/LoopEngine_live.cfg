SPECIFICATION FairSpec
CONSTANTS
  i1 = i1
  i2 = i2
  e1 = e1
  e2 = e2
  Items = {i1}
  Engines = {e1}
  MaxAttempts = 2
  AllowActive = FALSE
  RunChecks = TRUE
  FailingWork <- FirstFails
  ByHand = FALSE
  Endings <- AnyEnding
  Forgetful = TRUE
INVARIANT RejectedCanRetry
PROPERTY MakersAndVerifiersLeft
