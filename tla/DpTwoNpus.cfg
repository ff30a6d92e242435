SPECIFICATION Spec
CONSTANT Simulations <- MCTwoNpus
INVARIANTS WorkloadsExist
