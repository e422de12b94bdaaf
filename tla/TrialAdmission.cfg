SPECIFICATION FairSpec
CONSTANTS
  w1 = w1
  w2 = w2
  r1 = r1
  r2 = r2
  s1 = s1
  Trials <- MCTrials
  Scenarios = {s1}
  ScenarioOf <- MCScenarioOf
  Mode <- MCMode
  MaxConcurrent = 2
  MaxRetries = 1
INVARIANTS
  GateCountsHolders
  ParkedOnlyWhileRefused
  ResetBeforeNextAttempt
PROPERTIES
  SharingSpec
  EveryTrialEnds
