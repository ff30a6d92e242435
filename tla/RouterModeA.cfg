SPECIFICATION FairSpec
CONSTANTS
  Simulations <- MCPreRouted
PROPERTIES AllServed
