SPECIFICATION FairSpec
CONSTANTS
  Req <- MCReq
  Simulations <- MCSimulations
  Npus = {0, 1}
  StartNpu = 0
  LastNpu = 1
INVARIANTS TypeOK OnePlace KvAccounted SpilledWaits WithinLimits QueueInOrder FinishesExactly
PROPERTIES PipelineFifo EventuallyServed
