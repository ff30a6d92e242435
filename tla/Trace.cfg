SPECIFICATION Spec
CONSTANTS
  None = None
  Models <- MCModels
  Log <- MCLog
  AlphaFallback <- MCFallback
  Jobs <- MCJobs
  Profiles <- MCProfiles
  Architecture <- MCArchitecture
  Pim <- MCPim
  Watts <- MCWatts
  Fp = 2
  MaxTime = 6
INVARIANTS ForwardPassComplete EnergyAccounted SplitKeepsWork
CHECK_DEADLOCK FALSE
