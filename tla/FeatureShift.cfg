SPECIFICATION Spec
CONSTANTS
  N = 3
  Items <- MCItems
  MaxFeatures = 2
INVARIANT DoneIsTrue
PROPERTIES RedLineIsBlessed CommitIsEarned
CHECK_DEADLOCK FALSE
