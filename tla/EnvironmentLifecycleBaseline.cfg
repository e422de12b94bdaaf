SPECIFICATION Spec
CONSTANTS
  a1 = a1
  a2 = a2
  Accounts <- MCAccounts
  MaxAttempts = 2
  VerifyEnv = TRUE
  Faults = {}
CHECK_DEADLOCK FALSE
INVARIANT
  ResetRestoresSetup
