SPECIFICATION Spec
CONSTANTS
  None = None
  Partial = Partial
  Unlimited = Unlimited
  Inputs <- MCInputs
  Models <- MCModels
  DtypeBits <- MCDtypeBits
INVARIANTS NpusLaidOut PlacementServed MemorySound
CHECK_DEADLOCK FALSE
