SPECIFICATION Spec
CONSTANTS
  None = None
  Grid <- MCGrid
  Layers <- MCLayers
  Stable <- MCStable
  Degrees <- MCDegrees
  Unshardable <- MCUnshardable
  Gpu <- MCGpu
  Sessions <- MCSessions
  Timing <- MCTiming
  Beginnings <- MCBeginnings
  Log <- MCLog
  AlphaFallback <- MCFallback
  FlushEvery = 2
  MaxSessions = 2
  MaxKills = 1
  MaxFailures = 1
INVARIANTS ShotsRun Covered FitFound
PROPERTIES KeepsRows
CHECK_DEADLOCK FALSE
