SPECIFICATION Spec
CONSTANTS
  Items <- MCEnvironments
  Level <- MCEnvLevel
  Handler <- MCEnvironment
  Needs <- MCEnvNeeds
  Uses <- MCEnvUses
  Excluded = {}
  Others = {}
  Faults = {}
  MaxStruck = 0
PROPERTY RoleOutlivesEnvironment
CHECK_DEADLOCK FALSE
