SPECIFICATION FairSpec
CONSTANTS
  Simulations <- MCSimulations
INVARIANTS TypeOK RoutedOnce OneAtATime SessionsCounted PendingSorted RoundRobinEven
PROPERTIES AllServed KeepsPromise
