CONSTANTS
  Builder <- MCFail
  Recipe <- MCRecipe
  Bundle <- MCBundle
  Behind <- BundleOrder
  Version <- MCBump
  MaxRevision = 2
  MayFail = TRUE
  MayGiveUp = TRUE
  MaxForced = 1
SPECIFICATION LiveSpec
INVARIANT DepsReady
PROPERTY EveryRequestBuilt
CHECK_DEADLOCK FALSE
