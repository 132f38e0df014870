CONSTANTS
  Steps <- MCSteps
  MaxTries = 2
  Rungs = 1
  MaxRounds = 3
  MaxRefires = 1
SPECIFICATION StepSpec
INVARIANTS RefiredIsReady
CHECK_DEADLOCK FALSE
