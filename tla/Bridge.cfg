SPECIFICATION FairSpec
CONSTANTS
    MaxRecords = 3
    MaxRuns = 2
INVARIANTS TypeOK LossOnlyByFailure IdsInOrder
PROPERTIES ConsumptionSpec RepeatedOnlyAfterRestart EverySettled
CHECK_DEADLOCK FALSE
