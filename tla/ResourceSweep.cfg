SPECIFICATION Spec
CONSTANTS
  Items <- MCItems
  Level <- MCLevel
  Handler <- MCHandler
  Needs <- MCNeeds
  Uses <- MCUses
  Excluded = {"custom"}
  Others = {"network"}
  Faults = {"submit", "status", "slow", "refuse", "custom", "describe", "exists", "prepare"}
  MaxStruck = 2
INVARIANTS
  SilenceMeansGone
  TwoPassesSuffice
PROPERTIES
  UsersGoFirst
  SweepEnds
CHECK_DEADLOCK FALSE
