SPECIFICATION Spec
CONSTANTS
  Items <- MCItems
  Def <- MCDef
  Needs <- MCNeeds
  Count <- MCCount
  Owned <- MCOwned
  Attrs <- MCAttrs
  Id <- MCId
  Values <- MCValues
  Refs <- MCRefs
  Recipes <- MCRecipes
  Touches <- MCTouches
  Formula <- MCFormula
  Curve <- MCCurve
  MaxXP = 3
  MaxCommands = 2
  MaxCrashes = 1
  None = None
INVARIANTS
  ItemsConserved
  CacheIsCurrent
  ClientUpToDate
  MarksCoverChanges
CHECK_DEADLOCK FALSE
