SPECIFICATION Spec
CONSTANTS
  Req <- MCReq
  Simulations <- MCSimulations
  Npus = {0, 1}
  StartNpu = 0
  LastNpu = 1
INVARIANTS TypeOK EvictionsExact KvAccounted KvResident FinishesExactly
PROPERTIES ForgetsOnlyWhenFull
