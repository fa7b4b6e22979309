SPECIFICATION FairSpec
CONSTANTS
  MaxTexts = 3
  MaxPosts = 2
  MaxEpoch = 2
  Keep = 2
  Page = 1
  MaxFaults = 1
  MaxCrashes = 1
INVARIANTS
  StoreGapless
  NoSilentGap
PROPERTIES
  KeepsUp
  TelemetryFollowsLease
CHECK_DEADLOCK FALSE
