SPECIFICATION FairSpec
CONSTANT Simulations <- MCSimulations
INVARIANTS ReloadsSerialised
PROPERTIES ClockForward RunsToTheEnd
