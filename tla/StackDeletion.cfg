SPECIFICATION Spec
CONSTANTS
  net = net
  app = app
  plan = plan
  cdk = cdk
  Env <- MCEnv
  Infra <- MCInfra
  Imports <- MCImports
  Vpcs <- MCVpcs
  Pools <- MCPools
  MayHold <- MCMayHold
  Limit = 2
  Faults = {"call", "slow", "force", "raise"}
CHECK_DEADLOCK FALSE
INVARIANTS
  RefusedBehindImporter
  ShutdownEndsRounds
PROPERTIES
  TeardownSpec
  BootstrapOutlivesEnv
  DeferredIsLeftAlone
  DeletionEnds
