SPECIFICATION FairSpec
CONSTANT Simulations <- MCThreeMembers
PROPERTIES RunsToTheEnd
