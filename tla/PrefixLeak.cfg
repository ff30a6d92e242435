SPECIFICATION Spec
CONSTANTS
  Req <- MCReq
  Simulations <- MCCrowded
  Npus = {0, 1}
  StartNpu = 0
  LastNpu = 1
INVARIANT NothingLeaks
