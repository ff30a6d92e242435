SPECIFICATION FairSpec
CONSTANT Simulations <- MCSimulations
INVARIANTS AnswersExist WavesAligned SleepersNotNeeded
PROPERTIES RunsToTheEnd
