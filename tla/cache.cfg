SPECIFICATION Spec
CONSTANTS
  Compilers = {c1, c2}
  Versions = {v1, v2}
  Size <- MCSize
  SizeLimit = 2
  Modes = {"copy", "hardlink"}
  LinksKept = FALSE
  Prunings = {"off", "interval", "always"}
  MaxTicks = 1
  MaxCrashes = 1
  Partial = Partial
SYMMETRY Symmetry
 
 
INVARIANT FailOnlyByPruning
PROPERTY PruneMeetsLimit
