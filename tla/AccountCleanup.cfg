SPECIFICATION Spec
CONSTANTS
  Regions = {"east", "west"}
  Resources <- MCResources
  Home <- MCHome
  Type <- MCType
  Kind <- MCKind
  ListedBy <- MCListedBy
  Name <- MCName
  Infra = {"cdkrole"}
  Assets = {"bucket"}
  Stacks <- MCStacks
  Bootstrap = {"toolkit"}
  Owns <- MCOwns
  Networking = {"basic"}
  Defaults = {"vpc"}
  Extras = {"net"}
  Downs <- MCDowns
  Faults = {"region", "delete", "list", "stack", "defer"}
  Misses = 1
INVARIANTS
  DefaultsOutliveSweeps
  ScenarioOutlivesPresweep
  CleanMeansEmpty
PROPERTIES
  GlobalsWaitForRegions
  CleanupEnds
CHECK_DEADLOCK FALSE
