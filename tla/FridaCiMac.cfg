CONSTANTS
  Builder <- MCMac
  Recipe <- MCRecipe
  Bundle <- MCBundle
  Behind <- BundleOrder
  Version <- MCBump
  MaxRevision = 1
  MayFail = FALSE
  MayGiveUp = FALSE
  MaxForced = 0
SPECIFICATION Spec
INVARIANT NoCircle
CHECK_DEADLOCK FALSE
