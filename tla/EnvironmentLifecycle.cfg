SPECIFICATION Spec
CONSTANTS
  a1 = a1
  a2 = a2
  Accounts <- MCAccounts
  MaxAttempts = 2
  VerifyEnv = TRUE
  Faults = {"interrupt", "store", "tag", "create", "leftover"}
CHECK_DEADLOCK FALSE
INVARIANTS
  PreIsPristine
  ReportedSuccessHolds
PROPERTIES
  AgentStartsAtBaseline
  TagLiftedWhenRestored
  CommandEnds
