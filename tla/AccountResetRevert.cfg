SPECIFICATION Spec
CONSTANTS
  east = east
  west = west
  app = app
  db = db
  kb = kb
  fn = fn
  role = role
  Regions <- MCRegions
  Stacks <- MCStacks
  StackRegion <- MCStackRegion
  Created <- MCCreated
  Regional <- MCRegional
  HomeOf <- MCHomeOf
  Lingering <- MCLingering
  Globals <- MCGlobals
  Needs <- MCNeeds
  Damage <- MCDamage
  Faults = {}
PROPERTY RestoredMatchesBaseline
