SPECIFICATION TrainingSpec
CONSTANTS
  MaxRuns = 2
  Epochs = 3
  MaxF1 = 2
INVARIANT BestOfRun
CHECK_DEADLOCK FALSE
